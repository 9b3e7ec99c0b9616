----------------------------- MODULE CallTrace -----------------------------
(***************************************************************************)
(* The runtime trace a host records while it runs (run_method/src/runtime/ *)
(* trace): calls nest frames, values are recorded inside them and linked,  *)
(* and `with_result` keeps what an operation recorded only if it fails.    *)
(*                                                                         *)
(* `calls` is the program: the closures that are running, innermost last,  *)
(* each with what the recorder does when it ends.  A closure ends by       *)
(* returning or by a panic; the host may catch a panic anywhere, so every  *)
(* closure ends as it pleases.  A frame, or a value, is its id, with the   *)
(* node of the frame and the frame of the value; names, types, labels and  *)
(* source locations are left out.  Ids are 64 bits wide and do not wrap    *)
(* here; the workload bounds them.                                        *)
(***************************************************************************)
EXTENDS Integers, Sequences, FiniteSets

CONSTANTS Nodes,      \* identities a frame is entered under
          Workloads   \* bounds, one per record: how often each thing may happen

ASSUME WorkloadsAssumption ==
  Workloads \subseteq [nodes: SUBSET Nodes, frames: Nat, locals: Nat, calls: Nat,
                       resets: Nat, reopens: Nat, edits: Nat, saves: Nat]

VARIABLES mode, frames, current, locals, edges, nextFrame, nextLocal, depth,
          calls, held, blank, spent, work,
          owed, before, lost, torn, strayed

recorder == <<mode, frames, current, locals, edges, nextFrame, nextLocal, depth>>
ghosts == <<owed, before, lost, torn, strayed>>
traceVars == <<recorder, calls, held, blank, spent, work, ghosts>>

Modes == {"off", "errors-only", "full"}

Ids(records) == {records[i].id : i \in DOMAIN records}

Smaller(m, n) == IF m < n THEN m ELSE n

\* The first n records: Vec::truncate.
Truncate(records, n) == SubSeq(records, 1, Smaller(n, Len(records)))

\* All but the last: Vec::pop, which leaves an empty vector as it is.
Popped(s) == SubSeq(s, 1, Len(s) - 1)

\* The frame a call or a value is recorded in, if one is open.
Enclosing == IF current = <<>> THEN {} ELSE {current[Len(current)]}

\* How much evidence there is.
Mark == [frames |-> Len(frames), locals |-> Len(locals), edges |-> Len(edges)]
NoMark == [frames |-> 0, locals |-> 0, edges |-> 0]

Evidence == <<Ids(frames), Ids(locals)>>
NoEvidence == <<{}, {}>>
And(one, other) == <<one[1] \cap other[1], one[2] \cap other[2]>>

Running(what, mark) == [what |-> what, mark |-> mark]

\* The host starts to trace: `with_mode`.
TraceInit ==
  /\ work \in Workloads
  /\ mode \in Modes
  /\ frames = <<>> /\ current = <<>> /\ locals = <<>> /\ edges = <<>>
  /\ nextFrame = 0 /\ nextLocal = 0 /\ depth = 0
  /\ calls = <<>>
  /\ held = {} /\ blank = FALSE
  /\ spent = [resets |-> 0, reopens |-> 0]
  /\ owed = NoEvidence /\ before = NoEvidence
  /\ lost = 0 /\ torn = FALSE /\ strayed = FALSE

-----------------------------------------------------------------------------
\* A traced call: a frame below the one that is open, unless the mode is off.
With(node) ==
  /\ Len(calls) < work.calls
  /\ IF mode = "off"
       THEN /\ calls' = Append(calls, Running("call", NoMark))
            /\ UNCHANGED <<frames, current, nextFrame, owed>>
       ELSE /\ nextFrame < work.frames
            /\ frames' = Append(frames, [id |-> nextFrame, node |-> node, parent |-> Enclosing])
            /\ current' = Append(current, nextFrame)
            /\ nextFrame' = nextFrame + 1
            /\ calls' = Append(calls, Running("frame", NoMark))
            /\ owed' = <<owed[1] \cup {nextFrame}, owed[2]>>
  /\ UNCHANGED <<mode, locals, edges, nextLocal, depth, held, blank, spent, work,
                 before, lost, torn, strayed>>

\* Mutant: an inner operation marks too, and its success drops what it recorded.
OpensScopeEach(outer) == Running("outer", Mark)

\* A fallible operation: in errors-only mode the outermost one marks where its
\* evidence begins.
OpensScope(outer) == IF outer THEN Running("outer", Mark) ELSE Running("inner", NoMark)
WithResult ==
  /\ Len(calls) < work.calls
  /\ IF mode = "errors-only"
       THEN /\ calls' = Append(calls, OpensScope(depth = 0))
            /\ depth' = depth + 1
            /\ before' = IF depth = 0 THEN owed ELSE before
       ELSE /\ calls' = Append(calls, Running("call", NoMark))
            /\ UNCHANGED <<depth, before>>
  /\ UNCHANGED <<mode, frames, current, locals, edges, nextFrame, nextLocal, held,
                 blank, spent, work, owed, lost, torn, strayed>>

\* Mutant: the counters go back with the evidence.
RollbackRewinds(mark) ==
  /\ frames' = Truncate(frames, mark.frames)
  /\ locals' = Truncate(locals, mark.locals)
  /\ edges' = Truncate(edges, mark.edges)
  /\ nextFrame' = mark.frames /\ nextLocal' = mark.locals

\* What an outermost success drops.  The ids it used are not handed out again.
Rollback(mark) ==
  /\ frames' = Truncate(frames, mark.frames)
  /\ locals' = Truncate(locals, mark.locals)
  /\ edges' = Truncate(edges, mark.edges)
  /\ UNCHANGED <<nextFrame, nextLocal>>

Kept == UNCHANGED <<frames, locals, edges, nextFrame, nextLocal>>

\* Mutant: no catch_unwind around the call.
LeavesFrameOnReturn(how) == current' = IF how = "panic" THEN current ELSE Popped(current)

\* The frame leaves the path however its call ends.
LeavesFrame(how) == current' = Popped(current)

\* One scope less is open however the operation ends.
LeavesScope(how) == depth' = IF depth = 0 THEN 0 ELSE depth - 1

Ends == {"ok", "err", "panic"}

\* The innermost closure ends.
Leave(how) ==
  /\ calls # <<>>
  /\ LET last == calls[Len(calls)]
         dropped == last.what = "outer" /\ how = "ok"
     IN /\ IF last.what = "frame" THEN LeavesFrame(how) ELSE UNCHANGED current
        /\ IF last.what \in {"outer", "inner"} THEN LeavesScope(how) ELSE UNCHANGED depth
        /\ IF dropped THEN Rollback(last.mark) ELSE Kept
        /\ owed' = IF dropped THEN And(owed, before) ELSE owed
        /\ torn' = (torn \/ (dropped /\ lost >= Len(calls)))
  /\ calls' = Popped(calls)
  /\ lost' = Smaller(lost, Len(calls) - 1)
  /\ UNCHANGED <<mode, held, blank, spent, work, before, strayed>>

\* A value is recorded, and linked to the one it was made from: `local` has no
\* input; `transform`, `return_value` and `consume` have one, any id the program
\* holds.  With the mode off every such call answers the id 0.
Record(input) ==
  /\ IF mode = "off"
       THEN blank' = TRUE /\ UNCHANGED <<locals, edges, nextLocal, held, owed, strayed>>
       ELSE /\ nextLocal < work.locals
            /\ locals' = Append(locals, [id |-> nextLocal, frame |-> Enclosing])
            /\ edges' = IF input = {} THEN edges
                        ELSE Append(edges, [from |-> CHOOSE i \in input : TRUE, to |-> nextLocal])
            /\ nextLocal' = nextLocal + 1
            /\ held' = held \cup {nextLocal}
            /\ owed' = <<owed[1], owed[2] \cup {nextLocal}>>
            /\ strayed' = (strayed \/ ~ (input \subseteq Ids(locals)))
            /\ UNCHANGED blank
  /\ UNCHANGED <<mode, frames, current, nextFrame, depth, calls, spent, work, before, lost, torn>>

\* `clear` and `set_mode` drop the evidence and the path, not the ids and not the
\* count of open scopes.
Reset(newMode) ==
  /\ spent.resets < work.resets
  /\ mode' = newMode
  /\ frames' = <<>> /\ current' = <<>> /\ locals' = <<>> /\ edges' = <<>>
  /\ spent' = [spent EXCEPT !.resets = @ + 1]
  /\ owed' = NoEvidence /\ lost' = Len(calls) /\ torn' = FALSE /\ strayed' = FALSE
  /\ UNCHANGED <<nextFrame, nextLocal, depth, calls, held, blank, work, before>>

-----------------------------------------------------------------------------
\* What the artifact reader asks of the arenas before it rebuilds a trace.
Distinct(records) == \A i, j \in DOMAIN records : records[i].id = records[j].id => i = j
ParentsRecorded(fs) == \A i \in DOMAIN fs : fs[i].parent \subseteq Ids(fs)
EndsRecorded(es, ls) == \A i \in DOMAIN es : {es[i].from, es[i].to} \subseteq Ids(ls)
Readable(fs, ls, es) ==
  Distinct(fs) /\ ParentsRecorded(fs) /\ Distinct(ls) /\ EndsRecorded(es, ls)

\* Mutant: an off-by-one in the counters of a trace that is read back.
NextAtLast(ids) == IF ids = {} THEN 0 ELSE CHOOSE m \in ids : \A i \in ids : i <= m

\* The id after the greatest one in a document.
NextAfter(ids) == IF ids = {} THEN 0 ELSE 1 + CHOOSE m \in ids : \A i \in ids : i <= m

\* The trace is written, read back by `into_trace` and recorded on.  A program
\* that reads a trace holds the ids of its values.
Reopen ==
  /\ calls = <<>>
  /\ spent.reopens < work.reopens
  /\ Readable(frames, locals, edges)
  /\ current' = <<>> /\ depth' = 0
  /\ nextFrame' = NextAfter(Ids(frames))
  /\ nextLocal' = NextAfter(Ids(locals))
  /\ held' = Ids(locals) /\ blank' = FALSE
  /\ spent' = [spent EXCEPT !.reopens = @ + 1]
  /\ before' = NoEvidence
  /\ UNCHANGED <<mode, frames, locals, edges, calls, work, owed, lost, torn, strayed>>

\* The values a call may be given.
Inputs == {{}} \cup {{i} : i \in held \cup (IF blank THEN {0} ELSE {})}

TraceNext ==
  \/ \E node \in work.nodes : With(node)
  \/ WithResult
  \/ \E how \in Ends : Leave(how)
  \/ \E input \in Inputs : Record(input)
  \/ Reset(mode)
  \/ \E m \in Modes : Reset(m)
  \/ Reopen

TraceSpec == TraceInit /\ [][TraceNext]_traceVars

-----------------------------------------------------------------------------
\* The path of open frames is the calls that are running and traced, and it is
\* the path the parents of its last frame spell.  A parent is always recorded
\* before its child, so every walk to the root ends (frames.rs:120-157).
OpenFramesAreOnePath ==
  /\ Len(current) = Cardinality({i \in (lost + 1) .. Len(calls) : calls[i].what = "frame"})
  /\ \A i \in DOMAIN current : \E j \in DOMAIN frames :
       /\ frames[j].id = current[i]
       /\ frames[j].parent = IF i = 1 THEN {} ELSE {current[i - 1]}
  /\ \A i \in DOMAIN frames : frames[i].parent \subseteq Ids(SubSeq(frames, 1, i - 1))

\* "commits evidence only when it fails" (call_trace.rs:249): what is there is
\* what was recorded, less what an outermost successful operation recorded;
\* evidence of inner successes stays with an outer failure.  Not so after a
\* reset inside an operation that succeeds: its mark is then of another trace.
EvidenceIsOwed == ~torn => Evidence = owed

\* An id that was minted never comes to name other evidence
\* (call_trace.rs:199-207).  The 0 that stands for every value while the mode is
\* off was not minted, and names the first value recorded after.
IdsNameOnce == [][(Ids(locals') \ Ids(locals)) \cap held = {}]_traceVars

\* A trace is readable at any time unless the program linked a value whose
\* evidence is gone, or a reset tore it (snapshot.rs:276-283).
RecordedIsReadable == ~torn /\ ~strayed => Readable(frames, locals, edges)
=============================================================================
