--------------------------- MODULE TracingProofs ---------------------------
(* For every workload, any nesting of calls and operations, resets, panics   *)
(* and reads of the trace: the open frames are one path, the evidence is what*)
(* is owed and readable, ids name one value, and what Studio shows fits its  *)
(* snapshot. An outermost operation can roll back only to what its mark      *)
(* describes, so the invariant says of every mark that a reset has not made  *)
(* stale what it delimits: open frames, linked values, owed evidence.        *)
EXTENDS Tracing, FiniteSetTheorems, SequenceTheorems, TLAPS

\* The running closures of some kinds at positions lo to hi.
Kinds(cs, lo, hi, kinds) == {i \in lo..hi : cs[i].what \in kinds}
Count(cs, lo, hi, kinds) == Cardinality(Kinds(cs, lo, hi, kinds))

LEMMA CountType ==
  ASSUME NEW cs, NEW lo \in Int, NEW hi \in Int, NEW kinds
  PROVE  /\ IsFiniteSet(Kinds(cs, lo, hi, kinds)) /\ Count(cs, lo, hi, kinds) \in Nat
         /\ hi < lo => Count(cs, lo, hi, kinds) = 0
<1>1. IsFiniteSet(lo..hi)
  BY FS_Interval
<1>2. Kinds(cs, lo, hi, kinds) \subseteq lo..hi
  BY DEF Kinds
<1>3. IsFiniteSet(Kinds(cs, lo, hi, kinds))
  BY <1>1, <1>2, FS_Subset
<1>4. ASSUME hi < lo
      PROVE  Kinds(cs, lo, hi, kinds) = {}
  BY <1>4 DEF Kinds
<1>. QED
  BY <1>3, <1>4, FS_CardinalityType, FS_EmptySet DEF Count

\* One position more.
LEMMA CountNext ==
  ASSUME NEW cs, NEW lo \in Int, NEW hi \in Int, lo <= hi + 1, NEW kinds
  PROVE  Count(cs, lo, hi + 1, kinds) =
           IF cs[hi + 1].what \in kinds THEN Count(cs, lo, hi, kinds) + 1 ELSE Count(cs, lo, hi, kinds)
<1>. DEFINE few == Kinds(cs, lo, hi, kinds)
<1>1. IsFiniteSet(few)
  BY CountType
<1>2. hi + 1 \notin few
  BY DEF Kinds
<1>3. CASE cs[hi + 1].what \in kinds
  <2>1. Kinds(cs, lo, hi + 1, kinds) = few \cup {hi + 1}
    BY <1>3 DEF Kinds
  <2>. HIDE DEF few
  <2>2. Cardinality(few \cup {hi + 1}) = Cardinality(few) + 1
    BY <1>1, <1>2, FS_AddElement
  <2>. QED
    BY <1>3, <2>1, <2>2 DEF Count, few
<1>4. CASE cs[hi + 1].what \notin kinds
  <2>1. Kinds(cs, lo, hi + 1, kinds) = few
    BY <1>4 DEF Kinds
  <2>. QED
    BY <1>4, <2>1 DEF Count
<1>. QED
  BY <1>3, <1>4

LEMMA CountGrows ==
  ASSUME NEW cs, NEW lo \in Int, NEW hi \in Int, NEW more \in Int, hi <= more, NEW kinds
  PROVE  Count(cs, lo, hi, kinds) <= Count(cs, lo, more, kinds)
<1>1. Kinds(cs, lo, hi, kinds) \subseteq Kinds(cs, lo, more, kinds)
  BY DEF Kinds
<1>2. IsFiniteSet(Kinds(cs, lo, more, kinds))
  BY CountType
<1>. QED
  BY <1>1, <1>2, FS_Subset DEF Count

LEMMA CountSame ==
  ASSUME NEW cs, NEW ds, NEW lo \in Int, NEW hi \in Int, NEW kinds, \A i \in lo..hi : cs[i] = ds[i]
  PROVE  Count(cs, lo, hi, kinds) = Count(ds, lo, hi, kinds)
<1>1. Kinds(cs, lo, hi, kinds) = Kinds(ds, lo, hi, kinds)
  BY DEF Kinds
<1>. QED
  BY <1>1 DEF Count

\* The first records of a sequence, and all but the last.
LEMMA PrefixIs ==
  ASSUME NEW S, NEW s \in Seq(S), NEW n \in 0..Len(s)
  PROVE  /\ SubSeq(s, 1, n) \in Seq(S) /\ Len(SubSeq(s, 1, n)) = n
         /\ \A i \in 1..n : SubSeq(s, 1, n)[i] = s[i]
<1>1. Len(s) \in Nat
  BY LenProperties
<1>2. \A i \in 1..n : s[i] \in S
  BY <1>1, ElementOfSeq
<1>3. /\ SubSeq(s, 1, n) \in Seq(S)
      /\ Len(SubSeq(s, 1, n)) = (IF 1 <= n THEN n - 1 + 1 ELSE 0)
      /\ \A i \in 1..(n - 1 + 1) : SubSeq(s, 1, n)[i] = s[1 + i - 1]
  BY <1>1, <1>2, SubSeqProperties
<1>4. n \in Nat /\ n - 1 + 1 = n /\ \A i \in 1..n : 1 + i - 1 = i
  BY <1>1
<1>. QED
  BY <1>3, <1>4

LEMMA PoppedIs ==
  ASSUME NEW S, NEW s \in Seq(S)
  PROVE  /\ Popped(s) \in Seq(S)
         /\ s = <<>> => Popped(s) = <<>>
         /\ s # <<>> => Len(s) - 1 \in Nat /\ Len(Popped(s)) = Len(s) - 1
         /\ \A i \in 1..(Len(s) - 1) : Popped(s)[i] = s[i]
<1>1. CASE s = <<>>
  <2>1. Len(s) = 0 /\ Popped(s) = <<>>
    BY <1>1, SubSeqEmpty DEF Popped
  <2>. QED
    BY <1>1, <2>1, EmptySeq
<1>2. CASE s # <<>>
  <2>1. Len(s) \in Nat \ {0}
    BY <1>2, EmptySeq
  <2>2. Len(s) - 1 \in 0..Len(s) /\ Len(s) - 1 \in Nat
    BY <2>1
  <2>. QED
    BY <1>2, <2>2, PrefixIs DEF Popped
<1>. QED
  BY <1>1, <1>2

\* Some of the first records: what a rollback leaves, or all of them.
First(records, kept) ==
  /\ Len(kept) \in Nat /\ Len(kept) <= Len(records)
  /\ \A i \in 1..Len(kept) : kept[i] = records[i]

LEMMA TruncateIs ==
  ASSUME NEW S, NEW s \in Seq(S), NEW n \in Nat
  PROVE  /\ Truncate(s, n) \in Seq(S) /\ First(s, Truncate(s, n))
         /\ n <= Len(s) => Len(Truncate(s, n)) = n
<1>1. Len(s) \in Nat
  BY LenProperties
<1>2. PICK m \in 0..Len(s) : Smaller(n, Len(s)) = m /\ (n <= Len(s) => m = n)
  BY <1>1 DEF Smaller
<1>3. /\ SubSeq(s, 1, m) \in Seq(S) /\ Len(SubSeq(s, 1, m)) = m
      /\ \A i \in 1..m : SubSeq(s, 1, m)[i] = s[i]
  BY PrefixIs
<1>4. Truncate(s, n) = SubSeq(s, 1, m)
  BY <1>2 DEF Truncate
<1>. QED
  BY <1>1, <1>2, <1>3, <1>4 DEF First

-----------------------------------------------------------------------------
Frames == [id : Nat, node : Nodes, parent : SUBSET Nat]
Locals == [id : Nat, frame : SUBSET Nat]
Edges == [from : Nat, to : Nat]
Marks == [frames : Nat, locals : Nat, edges : Nat]
Closures == [what : {"call", "frame", "outer", "inner"}, mark : Marks]
TraceType ==
  /\ mode \in Modes /\ work \in Workloads
  /\ frames \in Seq(Frames) /\ locals \in Seq(Locals) /\ edges \in Seq(Edges)
  /\ current \in Seq(Nat) /\ calls \in Seq(Closures)
  /\ nextFrame \in Nat /\ nextLocal \in Nat /\ depth \in Nat /\ lost \in Nat
  /\ held \subseteq Nat /\ torn \in BOOLEAN /\ strayed \in BOOLEAN

\* Ids are minted in order, and none is minted twice.
Minted(records, next) ==
  /\ \A i, j \in 1..Len(records) : i < j => records[i].id < records[j].id
  /\ \A i \in 1..Len(records) : records[i].id < next
IdsInv ==
  /\ Minted(frames, nextFrame) /\ Minted(locals, nextLocal)
  /\ \A id \in held : id < nextLocal

\* How many traced calls are running among the first n.
Opened(n) == Count(calls, lost + 1, n, {"frame"})
\* The i-th open frame is among the first n frames, below the one before it.
OnPath(i, n) == \E j \in 1..n :
  frames[j].id = current[i] /\ frames[j].parent = IF i = 1 THEN {} ELSE {current[i - 1]}
PathInv ==
  /\ lost <= Len(calls) /\ Len(current) = Opened(Len(calls))
  /\ \A i \in 1..Len(current) : OnPath(i, Len(frames))
  /\ \A i \in 1..Len(frames) : \A id \in frames[i].parent : \E j \in 1..(i - 1) : frames[j].id = id

\* No operation runs around the outermost one.
ScopeKinds == {"outer", "inner"}
ScopeInv ==
  /\ depth = Count(calls, 1, Len(calls), ScopeKinds)
  /\ \A c, d \in 1..Len(calls) : calls[c].what = "outer" /\ calls[d].what \in ScopeKinds => c <= d

FirstIds(records, n) == {records[i].id : i \in 1..n}
Linked(n, ids) == \A k \in 1..n : edges[k].from \in ids /\ edges[k].to \in ids
EvidenceInv ==
  /\ ~torn => owed = <<FirstIds(frames, Len(frames)), FirstIds(locals, Len(locals))>>
  /\ ~torn /\ ~strayed => Linked(Len(edges), FirstIds(locals, Len(locals)))

\* What the mark of the outermost operation, the closure at position c, delimits.
Delimits(mark, c) ==
  /\ mark.frames <= Len(frames) /\ mark.locals <= Len(locals) /\ mark.edges <= Len(edges)
  /\ \A i \in 1..Opened(c - 1) : OnPath(i, mark.frames)
  /\ ~torn => before = <<FirstIds(frames, mark.frames), FirstIds(locals, mark.locals)>>
  /\ ~torn /\ ~strayed => Linked(mark.edges, FirstIds(locals, mark.locals))
MarksInv ==
  \A c \in (lost + 1)..Len(calls) : calls[c].what = "outer" => Delimits(calls[c].mark, c)

TraceInv == TraceType /\ IdsInv /\ PathInv /\ ScopeInv /\ EvidenceInv /\ MarksInv

LEMMA TraceInitInv ==
  ASSUME TraceInit
  PROVE  TraceInv
<1>1. /\ frames = <<>> /\ current = <<>> /\ locals = <<>> /\ edges = <<>> /\ calls = <<>>
      /\ nextFrame = 0 /\ nextLocal = 0 /\ depth = 0 /\ lost = 0 /\ held = {}
      /\ torn = FALSE /\ strayed = FALSE /\ owed = <<{}, {}>> /\ mode \in Modes /\ work \in Workloads
  BY DEF TraceInit, NoEvidence
<1>2. Len(<<>>) = 0
  OBVIOUS
<1>3. TraceType
  BY <1>1, EmptySeq DEF TraceType
<1>4. IdsInv
  BY <1>1, <1>2 DEF IdsInv, Minted
<1>5. PathInv
  <2>1. Opened(0) = 0
    BY <1>1, CountType DEF Opened
  <2>. QED
    BY <1>1, <1>2, <2>1 DEF PathInv
<1>6. ScopeInv
  <2>1. Count(calls, 1, 0, ScopeKinds) = 0
    BY CountType
  <2>. QED
    BY <1>1, <1>2, <2>1 DEF ScopeInv
<1>7. EvidenceInv
  BY <1>1, <1>2 DEF EvidenceInv, FirstIds, Linked
<1>8. MarksInv
  BY <1>1, <1>2 DEF MarksInv
<1>. QED
  BY <1>3, <1>4, <1>5, <1>6, <1>7, <1>8 DEF TraceInv

\* What the invariant says of a trace that is not touched.
LEMMA Lengths ==
  ASSUME TraceType
  PROVE  /\ Len(frames) \in Nat /\ Len(locals) \in Nat /\ Len(edges) \in Nat
         /\ Len(current) \in Nat /\ Len(calls) \in Nat
         /\ DOMAIN frames = 1..Len(frames) /\ DOMAIN locals = 1..Len(locals)
         /\ DOMAIN edges = 1..Len(edges) /\ DOMAIN current = 1..Len(current)
         /\ DOMAIN calls = 1..Len(calls)
BY LenProperties DEF TraceType

LEMMA CountAppend ==
  ASSUME NEW cs \in Seq(Closures), NEW new \in Closures, NEW lo \in Nat, 1 <= lo, lo <= Len(cs) + 1,
         NEW kinds
  PROVE  /\ Count(Append(cs, new), lo, Len(cs) + 1, kinds) =
              IF new.what \in kinds THEN Count(cs, lo, Len(cs), kinds) + 1 ELSE Count(cs, lo, Len(cs), kinds)
         /\ \A n \in Int : n <= Len(cs) => Count(Append(cs, new), lo, n, kinds) = Count(cs, lo, n, kinds)
<1>1. Len(cs) \in Nat
  BY LenProperties
<1>. DEFINE ds == Append(cs, new)
<1>2. ds[Len(cs) + 1] = new /\ \A i \in 1..Len(cs) : ds[i] = cs[i]
  BY <1>1
<1>. HIDE DEF ds
<1>3. ASSUME NEW n \in Int, n <= Len(cs)
      PROVE  Count(ds, lo, n, kinds) = Count(cs, lo, n, kinds)
  <2>1. \A i \in lo..n : ds[i] = cs[i]
    BY <1>1, <1>2, <1>3
  <2>. QED
    BY <2>1, CountSame
<1>4. Count(ds, lo, Len(cs) + 1, kinds) =
        IF new.what \in kinds THEN Count(ds, lo, Len(cs), kinds) + 1 ELSE Count(ds, lo, Len(cs), kinds)
  BY <1>1, <1>2, CountNext
<1>. QED
  BY <1>1, <1>3, <1>4 DEF ds

LEMMA CountPopped ==
  ASSUME NEW cs \in Seq(Closures), cs # <<>>, NEW lo \in Nat, 1 <= lo, lo <= Len(cs), NEW kinds
  PROVE  Count(cs, lo, Len(cs), kinds) =
           IF cs[Len(cs)].what \in kinds THEN Count(cs, lo, Len(cs) - 1, kinds) + 1
           ELSE Count(cs, lo, Len(cs) - 1, kinds)
<1>1. Len(cs) \in Nat \ {0}
  BY EmptySeq, LenProperties
<1>2. Len(cs) - 1 \in Int /\ (Len(cs) - 1) + 1 = Len(cs) /\ lo <= (Len(cs) - 1) + 1
  BY <1>1
<1>3. Count(cs, lo, (Len(cs) - 1) + 1, kinds) =
        IF cs[(Len(cs) - 1) + 1].what \in kinds THEN Count(cs, lo, Len(cs) - 1, kinds) + 1
        ELSE Count(cs, lo, Len(cs) - 1, kinds)
  BY <1>2, CountNext
<1>. QED
  BY <1>2, <1>3

LEMMA CountBelow ==
  ASSUME NEW cs \in Seq(Closures), NEW lo \in Nat, 1 <= lo, NEW n \in Int, n <= Len(cs) - 1, NEW kinds
  PROVE  Count(Popped(cs), lo, n, kinds) = Count(cs, lo, n, kinds)
<1>1. Len(cs) \in Nat /\ \A i \in 1..(Len(cs) - 1) : Popped(cs)[i] = cs[i]
  BY PoppedIs, LenProperties
<1>2. \A i \in lo..n : Popped(cs)[i] = cs[i]
  BY <1>1
<1>. QED
  BY <1>2, CountSame

\* With no operation open there is none to be found.
LEMMA NoScope ==
  ASSUME TraceType, ScopeInv, depth = 0
  PROVE  \A c \in 1..Len(calls) : calls[c].what \notin ScopeKinds
<1>1. Len(calls) \in Int
  BY Lengths
<1>2. Kinds(calls, 1, Len(calls), ScopeKinds) = {}
  BY <1>1, CountType, FS_EmptySet DEF ScopeInv, Count
<1>. QED
  BY <1>2 DEF Kinds

\* A closure more that is not traced: a call in mode off, or an operation.
LEMMA ClosureAdded ==
  ASSUME TraceInv, NEW new \in Closures, new.what # "frame", calls' = Append(calls, new),
         UNCHANGED <<mode, work, frames, locals, edges, current, nextFrame, nextLocal, held, lost,
                     torn, strayed, owed>>,
         depth' = IF new.what \in ScopeKinds THEN depth + 1 ELSE depth,
         IF new.what = "outer" THEN depth = 0 /\ new.mark = Mark /\ before' = owed ELSE before' = before
  PROVE  TraceInv'
<1>. USE DEF TraceInv
<1>1. /\ Len(calls) \in Nat /\ calls \in Seq(Closures) /\ lost \in Nat /\ lost <= Len(calls)
      /\ Len(frames) \in Nat /\ Len(locals) \in Nat /\ Len(edges) \in Nat /\ Len(current) \in Nat
  BY Lengths DEF TraceType, PathInv
<1>2. /\ Len(calls') = Len(calls) + 1 /\ calls'[Len(calls) + 1] = new
      /\ \A i \in 1..Len(calls) : calls'[i] = calls[i]
      /\ calls' \in Seq(Closures)
  BY <1>1
<1>3. TraceType'
  BY <1>2 DEF TraceType
<1>4. IdsInv'
  BY DEF IdsInv, Minted
<1>5. /\ Opened(Len(calls))' = Opened(Len(calls))
      /\ \A n \in Int : n <= Len(calls) => Opened(n)' = Opened(n)
  <2>1. lost + 1 \in Nat /\ 1 <= lost + 1 /\ lost + 1 <= Len(calls) + 1
    BY <1>1
  <2>. QED
    BY <1>1, <1>2, <2>1, CountAppend DEF Opened
<1>6. \A i, n : OnPath(i, n)' <=> OnPath(i, n)
  BY DEF OnPath
<1>7. PathInv'
  BY <1>1, <1>2, <1>5, <1>6 DEF PathInv
<1>8. ScopeInv'
  <2>1. Count(calls', 1, Len(calls'), ScopeKinds) = depth'
    BY <1>1, <1>2, CountAppend DEF ScopeInv
  <2>2. ASSUME NEW c \in 1..(Len(calls) + 1), NEW d \in 1..(Len(calls) + 1),
               calls'[c].what = "outer", calls'[d].what \in ScopeKinds
        PROVE  c <= d
    <3>1. CASE c = Len(calls) + 1
      <4>1. \A k \in 1..Len(calls) : calls[k].what \notin ScopeKinds
        BY <1>2, <2>2, <3>1, NoScope
      <4>. QED
        BY <1>1, <1>2, <2>2, <3>1, <4>1
    <3>2. CASE c # Len(calls) + 1
      BY <1>1, <1>2, <2>2, <3>2 DEF ScopeInv
    <3>. QED
      BY <3>1, <3>2
  <2>. QED
    BY <1>2, <2>1, <2>2 DEF ScopeInv
<1>9. EvidenceInv'
  BY DEF EvidenceInv, FirstIds, Linked
<1>10. ASSUME NEW c \in (lost + 1)..(Len(calls) + 1), calls'[c].what = "outer"
       PROVE  Delimits(calls[c].mark, c)'
  <2>1. CASE c = Len(calls) + 1
    <3>1. calls'[c].mark = Mark /\ before' = owed /\ c - 1 = Len(calls)
      BY <1>1, <1>2, <1>10, <2>1
    <3>2. Mark.frames = Len(frames) /\ Mark.locals = Len(locals) /\ Mark.edges = Len(edges)
      BY DEF Mark
    <3>3. \A i \in 1..Opened(c - 1)' : OnPath(i, Len(frames))'
      BY <1>1, <1>5, <1>6, <3>1 DEF PathInv
    <3>. QED
      BY <1>1, <3>1, <3>2, <3>3 DEF Delimits, EvidenceInv, Linked, FirstIds
  <2>2. CASE c # Len(calls) + 1
    <3>1. c \in (lost + 1)..Len(calls) /\ c \in 1..Len(calls) /\ calls'[c] = calls[c] /\ c - 1 \in Int /\ c - 1 <= Len(calls)
      BY <1>1, <1>2, <2>2
    <3>2. new.what # "outer"
      BY <1>10, <3>1, NoScope DEF ScopeKinds
    <3>3. Delimits(calls[c].mark, c)
      BY <1>10, <3>1 DEF MarksInv
    <3>. QED
      BY <1>5, <1>6, <3>1, <3>2, <3>3 DEF Delimits, Linked, FirstIds
  <2>. QED
    BY <2>1, <2>2
<1>11. MarksInv'
  BY <1>2, <1>10 DEF MarksInv
<1>. QED
  BY <1>3, <1>4, <1>7, <1>8, <1>9, <1>11

\* A traced call: its frame goes below the one that is open.
LEMMA FrameAdded ==
  ASSUME TraceInv, mode # "off", NEW node \in Nodes, With(node)
  PROVE  TraceInv'
<1>. USE DEF TraceInv
<1>. DEFINE new == [id |-> nextFrame, node |-> node, parent |-> Enclosing]
            call == Running("frame", NoMark)
<1>1. /\ Len(calls) \in Nat /\ lost \in Nat /\ lost <= Len(calls) /\ nextFrame \in Nat
      /\ Len(frames) \in Nat /\ Len(locals) \in Nat /\ Len(edges) \in Nat /\ Len(current) \in Nat
  BY Lengths DEF TraceType, PathInv
<1>0. calls \in Seq(Closures) /\ current \in Seq(Nat) /\ frames \in Seq(Frames)
  BY DEF TraceType
<1>30. /\ frames' = Append(frames, new) /\ current' = Append(current, nextFrame)
       /\ calls' = Append(calls, call)
  BY DEF With
<1>2. /\ nextFrame' = nextFrame + 1 /\ owed' = <<owed[1] \cup {nextFrame}, owed[2]>>
      /\ UNCHANGED <<mode, locals, edges, nextLocal, depth, held, work, before, lost, torn, strayed>>
  BY DEF With
<1>3. call \in Closures /\ call.what = "frame"
  BY DEF Running, NoMark, Closures, Marks
<1>4. Enclosing \in SUBSET Nat /\ new \in Frames
  <2>1. current # <<>> => current[Len(current)] \in Nat
    BY <1>0, EmptySeq, ElementOfSeq
  <2>. QED
    BY <1>1, <2>1 DEF Enclosing, Frames
<1>. HIDE DEF call
<1>5. /\ Len(calls') = Len(calls) + 1 /\ calls'[Len(calls) + 1] = call /\ calls' \in Seq(Closures)
      /\ \A i \in 1..Len(calls) : calls'[i] = calls[i]
  BY <1>0, <1>1, <1>30, <1>3
<1>6. /\ Len(frames') = Len(frames) + 1 /\ frames' \in Seq(Frames)
      /\ frames'[Len(frames) + 1].id = nextFrame /\ frames'[Len(frames) + 1].parent = Enclosing
      /\ \A i \in 1..Len(frames) : frames'[i] = frames[i]
  BY <1>0, <1>1, <1>30, <1>4
<1>7. /\ Len(current') = Len(current) + 1 /\ current' \in Seq(Nat)
      /\ current'[Len(current) + 1] = nextFrame
      /\ \A i \in 1..Len(current) : current'[i] = current[i]
  BY <1>0, <1>1, <1>30
<1>. HIDE DEF new
<1>8. TraceType'
  BY <1>1, <1>2, <1>5, <1>6, <1>7 DEF TraceType
<1>9. IdsInv'
  <2>1. \A i \in 1..Len(frames) : frames[i].id \in Nat /\ frames[i].id < nextFrame
    <3>1. \A i \in 1..Len(frames) : frames[i] \in Frames
      BY <1>0, ElementOfSeq
    <3>. QED
      BY <3>1 DEF IdsInv, Minted, Frames
  <2>2. ASSUME NEW i \in 1..Len(frames'), NEW j \in 1..Len(frames'), i < j
        PROVE  frames'[i].id < frames'[j].id
    <3>1. i \in 1..Len(frames)
      BY <1>1, <1>6, <2>2
    <3>2. CASE j \in 1..Len(frames)
      BY <1>6, <2>2, <3>1, <3>2 DEF IdsInv, Minted
    <3>3. CASE j = Len(frames) + 1
      BY <1>6, <2>1, <3>1, <3>3
    <3>. QED
      BY <1>1, <1>6, <3>2, <3>3
  <2>3. ASSUME NEW i \in 1..Len(frames')
        PROVE  frames'[i].id < nextFrame'
    <3>1. CASE i \in 1..Len(frames)
      BY <1>1, <1>2, <1>6, <2>1, <3>1
    <3>2. CASE i = Len(frames) + 1
      BY <1>1, <1>2, <1>6, <3>2
    <3>. QED
      BY <1>1, <1>6, <3>1, <3>2
  <2>. QED
    BY <1>2, <2>2, <2>3 DEF IdsInv, Minted
<1>10. /\ Opened(Len(calls))' = Opened(Len(calls)) + 1
       /\ \A n \in Int : n <= Len(calls) => Opened(n)' = Opened(n)
  <2>1. lost + 1 \in Nat /\ 1 <= lost + 1 /\ lost + 1 <= Len(calls) + 1
    BY <1>1
  <2>2. call.what \in {"frame"}
    BY <1>3
  <2>3. /\ Count(calls', lost + 1, Len(calls) + 1, {"frame"}) = Count(calls, lost + 1, Len(calls), {"frame"}) + 1
        /\ \A n \in Int : n <= Len(calls) => Count(calls', lost + 1, n, {"frame"}) = Count(calls, lost + 1, n, {"frame"})
    BY <1>0, <1>3, <1>30, <2>1, <2>2, CountAppend
  <2>. QED
    BY <1>2, <1>5, <2>3 DEF Opened
<1>11. ASSUME NEW i \in 1..Len(current), NEW n \in 0..Len(frames), OnPath(i, n)
       PROVE  OnPath(i, n)'
  <2>1. PICK j \in 1..n : frames[j].id = current[i] /\ frames[j].parent = IF i = 1 THEN {} ELSE {current[i - 1]}
    BY <1>11 DEF OnPath
  <2>2. frames'[j] = frames[j] /\ current'[i] = current[i] /\ (i # 1 => current'[i - 1] = current[i - 1])
    <3>1. j \in 1..Len(frames) /\ (i # 1 => i - 1 \in 1..Len(current))
      BY <1>1
    <3>. QED
      BY <1>6, <1>7, <3>1
  <2>. QED
    BY <2>1, <2>2 DEF OnPath
<1>12. PathInv'
  <2>1. ASSUME NEW i \in 1..(Len(current) + 1)
        PROVE  OnPath(i, Len(frames))'
    <3>1. CASE i \in 1..Len(current)
      <4>1. OnPath(i, Len(frames)) /\ Len(frames) \in 0..Len(frames)
        BY <1>1, <3>1 DEF PathInv
      <4>2. \E j \in 1..Len(frames) :
              frames'[j].id = current'[i] /\ frames'[j].parent = IF i = 1 THEN {} ELSE {current'[i - 1]}
        BY <1>11, <3>1, <4>1 DEF OnPath
      <4>. QED
        BY <1>1, <1>6, <4>2 DEF OnPath
    <3>2. CASE i = Len(current) + 1
      <4>1. Enclosing = IF i = 1 THEN {} ELSE {current'[i - 1]}
        <5>1. CASE current = <<>>
          BY <3>2, <5>1 DEF Enclosing
        <5>2. CASE current # <<>>
          BY <1>1, <1>7, <3>2, <5>2, EmptySeq DEF Enclosing
        <5>. QED
          BY <5>1, <5>2
      <4>2. Len(frames) + 1 \in 1..Len(frames')
        BY <1>1, <1>6
      <4>. QED
        BY <1>6, <1>7, <3>2, <4>1, <4>2 DEF OnPath
    <3>. QED
      BY <1>1, <3>1, <3>2
  <2>2. ASSUME NEW i \in 1..(Len(frames) + 1), NEW id \in frames'[i].parent
        PROVE  \E j \in 1..(i - 1) : frames'[j].id = id
    <3>1. CASE i \in 1..Len(frames)
      <4>1. PICK j \in 1..(i - 1) : frames[j].id = id
        BY <1>6, <2>2, <3>1 DEF PathInv
      <4>. QED
        BY <1>1, <1>6, <3>1, <4>1
    <3>2. CASE i = Len(frames) + 1
      <4>1. id \in Enclosing
        BY <1>6, <2>2, <3>2
      <4>2. current # <<>> /\ id = current[Len(current)]
        BY <4>1 DEF Enclosing
      <4>3. Len(current) \in 1..Len(current)
        BY <1>1, <4>2, EmptySeq
      <4>4. PICK j \in 1..Len(frames) : frames[j].id = id
        BY <4>2, <4>3 DEF PathInv, OnPath
      <4>. QED
        BY <1>1, <1>6, <3>2, <4>4
    <3>. QED
      BY <1>1, <3>1, <3>2
  <2>3. lost' <= Len(calls')
    BY <1>1, <1>2, <1>5
  <2>4. Len(current') = Opened(Len(calls))'
    BY <1>7, <1>10 DEF PathInv
  <2>. QED
    BY <1>6, <1>7, <2>1, <2>2, <2>3, <2>4 DEF PathInv
<1>13. ScopeInv'
  <2>1. call.what \notin ScopeKinds
    BY <1>3 DEF ScopeKinds
  <2>2. Count(calls', 1, Len(calls'), ScopeKinds) = depth'
    BY <1>0, <1>1, <1>2, <1>30, <1>3, <1>5, <2>1, CountAppend DEF ScopeInv
  <2>3. \A c \in 1..(Len(calls) + 1) : calls'[c].what \in ScopeKinds => c \in 1..Len(calls) /\ calls'[c] = calls[c]
    BY <1>1, <1>5, <2>1
  <2>. QED
    BY <1>5, <2>2, <2>3 DEF ScopeInv, ScopeKinds
<1>14. EvidenceInv'
  <2>1. FirstIds(frames', Len(frames')) = FirstIds(frames, Len(frames)) \cup {nextFrame}
    BY <1>1, <1>6 DEF FirstIds
  <2>. QED
    BY <1>2, <2>1 DEF EvidenceInv, Linked
<1>15. ASSUME NEW c \in (lost + 1)..(Len(calls) + 1), calls'[c].what = "outer"
       PROVE  Delimits(calls[c].mark, c)' /\ c \in (lost + 1)..Len(calls)
  <2>1. c \in (lost + 1)..Len(calls) /\ c \in 1..Len(calls) /\ calls'[c] = calls[c] /\ calls[c].what = "outer"
    BY <1>1, <1>3, <1>5, <1>15
  <2>0. PICK mark : mark = calls[c].mark
    OBVIOUS
  <2>2. mark \in Marks
    <3>1. calls[c] \in Closures
      BY <1>0, <2>1, ElementOfSeq
    <3>. QED
      BY <2>0, <3>1 DEF Closures
  <2>3. Delimits(mark, c)
    BY <2>0, <2>1 DEF MarksInv
  <2>4. Opened(c - 1)' = Opened(c - 1) /\ Opened(c - 1) <= Len(current)
    <3>1. c - 1 \in Int /\ c - 1 <= Len(calls) /\ lost + 1 \in Int
      BY <1>1, <2>1
    <3>. QED
      BY <1>1, <1>10, <3>1, CountGrows DEF PathInv, Opened
  <2>5. \A i \in 1..Opened(c - 1)' : OnPath(i, mark.frames)'
    <3>1. mark.frames \in 0..Len(frames)
      BY <1>1, <2>2, <2>3 DEF Delimits, Marks
    <3>2. \A i \in 1..Opened(c - 1) : i \in 1..Len(current) /\ OnPath(i, mark.frames)
      <4>1. Opened(c - 1) \in Nat
        BY <1>1, <2>1, CountType DEF Opened
      <4>2. \A i \in 1..Opened(c - 1) : OnPath(i, mark.frames)
        BY <2>3 DEF Delimits
      <4>. QED
        BY <1>1, <2>4, <4>1, <4>2
    <3>. QED
      BY <1>11, <2>4, <3>1, <3>2
  <2>6. FirstIds(frames', mark.frames) = FirstIds(frames, mark.frames)
    <3>1. mark.frames \in 0..Len(frames)
      BY <1>1, <2>2, <2>3 DEF Delimits, Marks
    <3>2. \A i \in 1..mark.frames : frames'[i] = frames[i]
      BY <1>1, <1>6, <3>1
    <3>. QED
      BY <3>2 DEF FirstIds
  <2>7. Delimits(mark, c)'
    <3>1. mark.frames <= Len(frames')
      BY <1>1, <1>6, <2>2, <2>3 DEF Delimits, Marks
    <3>2. UNCHANGED <<locals, edges, before, torn, strayed>>
      BY <1>2
    <3>. QED
      BY <2>3, <2>5, <2>6, <3>1, <3>2 DEF Delimits, Linked, FirstIds
  <2>. QED
    BY <2>0, <2>1, <2>7 DEF Delimits
<1>16. MarksInv'
  BY <1>2, <1>5, <1>15 DEF MarksInv
<1>. QED
  BY <1>8, <1>9, <1>12, <1>13, <1>14, <1>16
\* The innermost closure ends. If a reset made every mark stale, there is no path;
\* otherwise a frame leaves the path, an outermost success goes back to its mark,
\* and every other end changes nothing.
LEMMA LeaveInv ==
  ASSUME TraceInv, NEW how \in Ends, Leave(how)
  PROVE  TraceInv'
<1>. USE DEF TraceInv
<1>1. /\ Len(calls) \in Nat /\ lost \in Nat /\ lost <= Len(calls) /\ depth \in Nat
      /\ Len(frames) \in Nat /\ Len(locals) \in Nat /\ Len(edges) \in Nat /\ Len(current) \in Nat
  BY Lengths DEF TraceType, PathInv
<1>2. calls \in Seq(Closures) /\ current \in Seq(Nat) /\ calls # <<>>
  BY DEF TraceType, Leave
<1>3. PICK last : last = calls[Len(calls)]
  OBVIOUS
<1>4. Len(calls) \in 1..Len(calls) /\ last \in Closures
  <2>1. Len(calls) # 0
    BY <1>2, EmptySeq
  <2>. QED
    BY <1>1, <1>2, <1>3, <2>1, ElementOfSeq
<1>5. last.what \in {"call", "frame", "outer", "inner"} /\ last.mark \in Marks
  BY <1>4 DEF Closures
<1>6. PICK dropped \in BOOLEAN : dropped <=> last.what = "outer" /\ how = "ok"
  OBVIOUS
<1>7. /\ current' = IF last.what = "frame" THEN Popped(current) ELSE current
      /\ depth' = IF last.what \in ScopeKinds /\ depth # 0 THEN depth - 1 ELSE depth
      /\ IF dropped THEN Rollback(last.mark) ELSE Kept
      /\ owed' = IF dropped THEN And(owed, before) ELSE owed
      /\ torn' = (torn \/ (dropped /\ lost >= Len(calls)))
      /\ calls' = Popped(calls) /\ lost' = Smaller(lost, Len(calls) - 1)
      /\ UNCHANGED <<mode, held, work, before, strayed>>
  BY <1>3, <1>6 DEF Leave, LeavesFrame, LeavesScope, ScopeKinds
<1>8. /\ Len(calls') = Len(calls) - 1 /\ calls' \in Seq(Closures) /\ Len(calls') \in Nat
      /\ \A i \in 1..(Len(calls) - 1) : calls'[i] = calls[i]
  BY <1>2, <1>7, PoppedIs
<1>9. nextFrame' = nextFrame /\ nextLocal' = nextLocal
  BY <1>7 DEF Rollback, Kept
<1>10. /\ First(frames, frames') /\ frames' \in Seq(Frames)
       /\ First(locals, locals') /\ locals' \in Seq(Locals)
       /\ First(edges, edges') /\ edges' \in Seq(Edges)
  <2>0. frames \in Seq(Frames) /\ locals \in Seq(Locals) /\ edges \in Seq(Edges)
    BY DEF TraceType
  <2>1. CASE dropped
    <3>1. /\ frames' = Truncate(frames, last.mark.frames) /\ locals' = Truncate(locals, last.mark.locals)
          /\ edges' = Truncate(edges, last.mark.edges)
      BY <1>7, <2>1 DEF Rollback
    <3>2. last.mark.frames \in Nat /\ last.mark.locals \in Nat /\ last.mark.edges \in Nat
      BY <1>5 DEF Marks
    <3>3. frames' \in Seq(Frames) /\ First(frames, frames')
      BY <2>0, <3>1, <3>2, TruncateIs
    <3>4. locals' \in Seq(Locals) /\ First(locals, locals')
      BY <2>0, <3>1, <3>2, TruncateIs
    <3>5. edges' \in Seq(Edges) /\ First(edges, edges')
      BY <2>0, <3>1, <3>2, TruncateIs
    <3>. QED
      BY <3>3, <3>4, <3>5
  <2>2. CASE ~dropped
    BY <1>1, <1>7, <2>0, <2>2 DEF Kept, First
  <2>. QED
    BY <2>1, <2>2
<1>11. current' \in Seq(Nat) /\ Len(current') \in Nat
  BY <1>2, <1>7, PoppedIs, LenProperties
<1>12. lost' \in Nat /\ (lost < Len(calls) => lost' = lost) /\ (lost = Len(calls) => lost' = Len(calls'))
  BY <1>1, <1>4, <1>7, <1>8 DEF Smaller
<1>13. TraceType'
  BY <1>1, <1>7, <1>8, <1>9, <1>10, <1>11, <1>12 DEF TraceType
<1>14. IdsInv'
  <2>1. /\ \A i \in 1..Len(frames') : i \in 1..Len(frames) /\ frames'[i] = frames[i]
        /\ \A i \in 1..Len(locals') : i \in 1..Len(locals) /\ locals'[i] = locals[i]
    BY <1>1, <1>10 DEF First
  <2>2. Minted(frames', nextFrame) /\ Minted(locals', nextLocal)
    BY <2>1 DEF IdsInv, Minted
  <2>. QED
    BY <1>7, <1>9, <2>2 DEF IdsInv, Minted
<1>15. \A i \in 1..Len(frames') : \A id \in frames'[i].parent : \E j \in 1..(i - 1) : frames'[j].id = id
  <2>1. SUFFICES ASSUME NEW i \in 1..Len(frames'), NEW id \in frames'[i].parent
                 PROVE  \E j \in 1..(i - 1) : frames'[j].id = id
    OBVIOUS
  <2>2. i \in 1..Len(frames) /\ frames'[i] = frames[i]
    BY <1>1, <1>10 DEF First
  <2>3. PICK j \in 1..(i - 1) : frames[j].id = id
    BY <2>1, <2>2 DEF PathInv
  <2>4. j \in 1..Len(frames')
    BY <1>1, <1>10 DEF First
  <2>. QED
    BY <1>10, <2>3, <2>4 DEF First
<1>16. ScopeInv'
  <2>1. /\ depth = IF last.what \in ScopeKinds THEN Count(calls, 1, Len(calls) - 1, ScopeKinds) + 1
                   ELSE Count(calls, 1, Len(calls) - 1, ScopeKinds)
    BY <1>1, <1>2, <1>3, <1>4, <1>7, CountPopped DEF ScopeInv
  <2>0. Count(calls', 1, Len(calls) - 1, ScopeKinds) = Count(calls, 1, Len(calls) - 1, ScopeKinds)
    BY <1>1, <1>2, <1>7, CountBelow
  <2>2. Count(calls, 1, Len(calls) - 1, ScopeKinds) \in Nat
    BY <1>1, CountType
  <2>3. depth' = Count(calls', 1, Len(calls'), ScopeKinds)
    BY <1>7, <1>8, <2>0, <2>1, <2>2
  <2>4. \A c, d \in 1..Len(calls') : calls'[c].what = "outer" /\ calls'[d].what \in ScopeKinds => c <= d
    <3>1. \A c \in 1..Len(calls') : c \in 1..Len(calls) /\ calls'[c] = calls[c]
      BY <1>1, <1>8
    <3>. QED
      BY <3>1 DEF ScopeInv
  <2>. QED
    BY <2>3, <2>4 DEF ScopeInv
<1>17. CASE lost = Len(calls)
  <2>1. current' = <<>>
    <3>1. Opened(Len(calls)) = 0
      BY <1>1, <1>17, CountType DEF Opened
    <3>2. current = <<>>
      BY <1>2, <3>1, EmptySeq DEF PathInv
    <3>. QED
      BY <1>7, <3>2, PoppedIs, EmptySeq
  <2>2. Opened(Len(calls))' = 0
    BY <1>1, <1>8, <1>12, <1>17, CountType DEF Opened
  <2>3. PathInv'
    BY <1>8, <1>12, <1>15, <1>17, <2>1, <2>2 DEF PathInv
  <2>4. EvidenceInv'
    <3>1. CASE dropped
      BY <1>1, <1>7, <1>17, <3>1 DEF EvidenceInv
    <3>2. CASE ~dropped
      BY <1>7, <3>2 DEF EvidenceInv, Kept, Linked, FirstIds
    <3>. QED
      BY <3>1, <3>2
  <2>5. MarksInv'
    BY <1>8, <1>12, <1>17 DEF MarksInv
  <2>. QED
    BY <1>13, <1>14, <1>16, <2>3, <2>4, <2>5
<1>18. CASE lost < Len(calls)
  <2>1. lost' = lost /\ lost' <= Len(calls') /\ torn' = torn
    <3>1. ~(lost >= Len(calls)) /\ lost' = lost /\ lost' <= Len(calls')
      BY <1>1, <1>8, <1>12, <1>18
    <3>2. torn \in BOOLEAN /\ torn' = (torn \/ (dropped /\ lost >= Len(calls)))
      BY <1>7 DEF TraceType
    <3>. QED
      BY <3>1, <3>2
  <2>2. /\ Opened(Len(calls)) = IF last.what = "frame" THEN Opened(Len(calls) - 1) + 1 ELSE Opened(Len(calls) - 1)
        /\ \A n \in Int : n <= Len(calls) - 1 => Opened(n)' = Opened(n) /\ Opened(n) <= Opened(Len(calls) - 1)
    <3>1. lost + 1 \in Nat /\ 1 <= lost + 1 /\ lost + 1 <= Len(calls) /\ Len(calls) - 1 \in Int
      BY <1>1, <1>18
    <3>2. \A n \in Int : n <= Len(calls) - 1 => Count(calls', lost + 1, n, {"frame"}) = Count(calls, lost + 1, n, {"frame"})
      <4>1. \A n \in Int : n <= Len(calls) - 1 =>
              Count(Popped(calls), lost + 1, n, {"frame"}) = Count(calls, lost + 1, n, {"frame"})
        BY <1>2, <3>1, CountBelow
      <4>2. calls' = Popped(calls)
        BY <1>7
      <4>. QED
        BY <4>1, <4>2
    <3>3. \A n \in Int : n <= Len(calls) - 1 => Count(calls, lost + 1, n, {"frame"}) <= Count(calls, lost + 1, Len(calls) - 1, {"frame"})
      BY <3>1, CountGrows
    <3>4. Count(calls, lost + 1, Len(calls), {"frame"}) =
            IF last.what \in {"frame"} THEN Count(calls, lost + 1, Len(calls) - 1, {"frame"}) + 1
            ELSE Count(calls, lost + 1, Len(calls) - 1, {"frame"})
      BY <1>2, <1>3, <3>1, CountPopped
    <3>. QED
      BY <2>1, <3>2, <3>3, <3>4 DEF Opened
  <2>3. Opened(Len(calls) - 1) \in Nat
    BY <1>1, CountType DEF Opened
  <2>4. /\ Len(current') = Opened(Len(calls) - 1) /\ Len(current') <= Len(current)
        /\ \A i \in 1..Len(current') : current'[i] = current[i]
    <3>1. CASE last.what = "frame"
      <4>1. Len(current) = Opened(Len(calls) - 1) + 1 /\ current # <<>>
        BY <2>2, <2>3, <3>1, EmptySeq DEF PathInv
      <4>2. /\ Len(Popped(current)) = Len(current) - 1
            /\ \A i \in 1..(Len(current) - 1) : Popped(current)[i] = current[i]
        BY <1>2, <4>1, PoppedIs
      <4>3. current' = Popped(current)
        BY <1>7, <3>1
      <4>. QED
        BY <1>1, <2>3, <4>1, <4>2, <4>3
    <3>2. CASE last.what # "frame"
      BY <1>1, <1>7, <2>2, <3>2 DEF PathInv
    <3>. QED
      BY <3>1, <3>2
  <2>5. ASSUME NEW i \in 1..Len(current'), NEW n \in Nat, n <= Len(frames'), OnPath(i, n)
        PROVE  OnPath(i, n)'
    <3>1. PICK j \in 1..n : frames[j].id = current[i] /\ frames[j].parent = IF i = 1 THEN {} ELSE {current[i - 1]}
      BY <2>5 DEF OnPath
    <3>2. j \in 1..Len(frames') /\ (i # 1 => i - 1 \in 1..Len(current'))
      BY <1>10, <1>11, <2>5 DEF First
    <3>3. frames'[j] = frames[j] /\ current'[i] = current[i] /\ (i # 1 => current'[i - 1] = current[i - 1])
      BY <1>10, <2>4, <3>2 DEF First
    <3>. QED
      BY <3>1, <3>3 DEF OnPath
  <2>6. CASE dropped
    <3>1. last.what = "outer" /\ Delimits(last.mark, Len(calls))
      BY <1>1, <1>3, <1>6, <1>18, <2>6 DEF MarksInv
    <3>2. last.mark.frames \in Nat /\ last.mark.locals \in Nat /\ last.mark.edges \in Nat
      BY <1>5 DEF Marks
    <3>3. Len(frames') = last.mark.frames /\ Len(locals') = last.mark.locals /\ Len(edges') = last.mark.edges
      <4>1. frames \in Seq(Frames) /\ locals \in Seq(Locals) /\ edges \in Seq(Edges)
        BY DEF TraceType
      <4>2. /\ frames' = Truncate(frames, last.mark.frames) /\ locals' = Truncate(locals, last.mark.locals)
            /\ edges' = Truncate(edges, last.mark.edges)
        BY <1>7, <2>6 DEF Rollback
      <4>3. last.mark.frames <= Len(frames) /\ last.mark.locals <= Len(locals) /\ last.mark.edges <= Len(edges)
        BY <3>1 DEF Delimits
      <4>. QED
        BY <3>2, <4>1, <4>2, <4>3, TruncateIs
    <3>4. \A i \in 1..Len(current') : OnPath(i, Len(frames'))
      BY <2>4, <3>1, <3>3 DEF Delimits
    <3>5. PathInv'
      <4>1. \A i \in 1..Len(current') : OnPath(i, Len(frames))'
        <5>1. PICK n \in Nat : n = Len(frames')
          BY <3>2, <3>3
        <5>2. \A i \in 1..Len(current') : OnPath(i, n)'
          BY <2>5, <3>4, <5>1
        <5>. QED
          BY <5>1, <5>2 DEF OnPath
      <4>2. Len(current') = Opened(Len(calls))'
        BY <1>1, <1>8, <2>2, <2>4 DEF Opened
      <4>. QED
        BY <1>15, <2>1, <4>1, <4>2 DEF PathInv
    <3>6. /\ FirstIds(frames', Len(frames')) = FirstIds(frames, last.mark.frames)
          /\ FirstIds(locals', Len(locals')) = FirstIds(locals, last.mark.locals)
      BY <1>10, <3>3 DEF FirstIds, First
    <3>7. EvidenceInv'
      <4>1. ASSUME ~torn
            PROVE  owed' = <<FirstIds(frames, last.mark.frames), FirstIds(locals, last.mark.locals)>>
        <5>1. /\ owed = <<FirstIds(frames, Len(frames)), FirstIds(locals, Len(locals))>>
              /\ before = <<FirstIds(frames, last.mark.frames), FirstIds(locals, last.mark.locals)>>
          BY <3>1, <4>1 DEF EvidenceInv, Delimits
        <5>2. /\ FirstIds(frames, last.mark.frames) \subseteq FirstIds(frames, Len(frames))
              /\ FirstIds(locals, last.mark.locals) \subseteq FirstIds(locals, Len(locals))
          BY <1>1, <3>1, <3>2 DEF FirstIds, Delimits
        <5>3. owed' = And(owed, before)
          BY <1>7, <2>6
        <5>. QED
          BY <5>1, <5>2, <5>3 DEF And
      <4>2. ASSUME ~torn, ~strayed
            PROVE  \A k \in 1..Len(edges') : /\ edges'[k].from \in FirstIds(locals, last.mark.locals)
                                             /\ edges'[k].to \in FirstIds(locals, last.mark.locals)
        <5>1. Linked(last.mark.edges, FirstIds(locals, last.mark.locals))
          BY <3>1, <4>2 DEF Delimits
        <5>. QED
          BY <1>10, <3>3, <5>1 DEF Linked, First
      <4>. QED
        BY <1>7, <2>1, <3>6, <4>1, <4>2 DEF EvidenceInv, Linked
    <3>8. MarksInv'
      <4>1. ASSUME NEW c \in 1..Len(calls')
            PROVE  calls'[c].what # "outer"
        <5>1. c \in 1..Len(calls) /\ calls'[c] = calls[c] /\ c < Len(calls)
          BY <1>1, <1>8
        <5>. QED
          BY <1>3, <1>4, <3>1, <5>1 DEF ScopeInv, ScopeKinds
      <4>2. \A c \in (lost' + 1)..Len(calls') : c \in 1..Len(calls')
        BY <1>8, <1>12
      <4>. QED
        BY <4>1, <4>2 DEF MarksInv
    <3>. QED
      BY <1>13, <1>14, <1>16, <3>5, <3>7, <3>8
  <2>7. CASE ~dropped
    <3>1. UNCHANGED <<frames, locals, edges, owed, before, torn, strayed>>
      BY <1>7, <2>1, <2>7 DEF Kept
    <3>2. PathInv'
      <4>1. \A i \in 1..Len(current') : OnPath(i, Len(frames))'
        <5>1. PICK n \in Nat : n = Len(frames)
          BY <1>1
        <5>2. \A i \in 1..Len(current') : OnPath(i, n)
          BY <1>1, <2>4, <5>1 DEF PathInv
        <5>3. \A i \in 1..Len(current') : OnPath(i, n)'
          BY <2>5, <3>1, <5>1, <5>2
        <5>. QED
          BY <3>1, <5>1, <5>3 DEF OnPath
      <4>2. Len(current') = Opened(Len(calls))'
        BY <1>1, <1>8, <2>2, <2>4 DEF Opened
      <4>. QED
        BY <1>15, <2>1, <4>1, <4>2 DEF PathInv
    <3>3. EvidenceInv'
      BY <3>1 DEF EvidenceInv, FirstIds, Linked
    <3>4. ASSUME NEW c \in (lost + 1)..Len(calls'), calls'[c].what = "outer"
          PROVE  Delimits(calls[c].mark, c)'
      <4>1. c \in (lost + 1)..Len(calls) /\ c \in 1..Len(calls) /\ calls'[c] = calls[c] /\ c - 1 \in Int /\ c - 1 <= Len(calls) - 1
        BY <1>1, <1>8
      <4>2. PICK mark : mark = calls[c].mark
        BY Zenon
      <4>3. calls[c] \in Closures
        BY <1>2, <4>1, ElementOfSeq
      <4>4. mark.frames \in Nat
        BY <4>2, <4>3 DEF Closures, Marks
      <4>5. Delimits(mark, c)
        BY <3>4, <4>1, <4>2 DEF MarksInv
      <4>6. Opened(c - 1)' = Opened(c - 1) /\ Opened(c - 1) <= Len(current')
        BY <2>2, <2>4, <4>1
      <4>7. Opened(c - 1) \in Nat
        BY <1>1, <4>1, CountType DEF Opened
      <4>8. \A i \in 1..Opened(c - 1)' : OnPath(i, mark.frames)'
        <5>1. \A i \in 1..Opened(c - 1) : OnPath(i, mark.frames) /\ mark.frames <= Len(frames')
          BY <3>1, <4>5 DEF Delimits
        <5>2. \A i \in 1..Opened(c - 1) : i \in 1..Len(current')
          BY <1>11, <4>6, <4>7
        <5>. QED
          BY <2>5, <4>4, <4>6, <5>1, <5>2
      <4>. QED
        BY <3>1, <4>1, <4>2, <4>5, <4>8 DEF Delimits, Linked, FirstIds
    <3>5. MarksInv'
      BY <2>1, <3>4 DEF MarksInv
    <3>. QED
      BY <1>13, <1>14, <1>16, <3>2, <3>3, <3>5
  <2>. QED
    BY <2>6, <2>7
<1>. QED
  BY <1>1, <1>17, <1>18
\* A value is recorded, possibly linked to one the program holds.
LEMMA RecordInv ==
  ASSUME TraceInv, NEW input \in Inputs, Record(input)
  PROVE  TraceInv'
<1>. USE DEF TraceInv
<1>0. /\ Len(calls) \in Nat /\ lost \in Nat /\ lost <= Len(calls) /\ Len(current) \in Nat
      /\ Len(frames) \in Nat /\ Len(locals) \in Nat /\ Len(edges) \in Nat /\ nextLocal \in Nat
  BY Lengths DEF TraceType, PathInv
<1>1. UNCHANGED <<mode, frames, current, nextFrame, depth, calls, work, before, lost, torn>>
  BY DEF Record
<1>2. \A i, n : OnPath(i, n)' <=> OnPath(i, n)
  BY <1>1 DEF OnPath
<1>3. \A n : Opened(n)' = Opened(n)
  BY <1>1 DEF Opened
<1>4. PathInv' /\ ScopeInv'
  BY <1>1, <1>2, <1>3 DEF PathInv, ScopeInv
<1>5. CASE mode = "off"
  <2>1. UNCHANGED <<locals, edges, nextLocal, held, owed, strayed>>
    BY <1>5 DEF Record
  <2>2. TraceType' /\ IdsInv'
    BY <1>1, <2>1 DEF TraceType, IdsInv, Minted
  <2>3. EvidenceInv'
    BY <1>1, <2>1 DEF EvidenceInv, FirstIds, Linked
  <2>4. ASSUME NEW c \in (lost + 1)..Len(calls), calls[c].what = "outer"
        PROVE  Delimits(calls[c].mark, c)'
    <3>1. Delimits(calls[c].mark, c)
      BY <2>4 DEF MarksInv
    <3>. QED
      BY <1>1, <1>2, <1>3, <2>1, <3>1 DEF Delimits, FirstIds, Linked
  <2>5. MarksInv'
    BY <1>1, <2>4 DEF MarksInv
  <2>. QED
    BY <1>4, <2>2, <2>3, <2>5
<1>6. CASE mode # "off"
  <2>1. /\ locals' = Append(locals, [id |-> nextLocal, frame |-> Enclosing])
        /\ edges' = IF input = {} THEN edges
                    ELSE Append(edges, [from |-> CHOOSE i \in input : TRUE, to |-> nextLocal])
        /\ nextLocal' = nextLocal + 1 /\ held' = held \cup {nextLocal}
        /\ owed' = <<owed[1], owed[2] \cup {nextLocal}>>
        /\ strayed' = (strayed \/ ~ (input \subseteq Ids(locals)))
    BY <1>6 DEF Record
  <2>2. locals \in Seq(Locals) /\ edges \in Seq(Edges) /\ current \in Seq(Nat)
    BY DEF TraceType
  <2>3. Enclosing \in SUBSET Nat
    <3>1. current # <<>> => current[Len(current)] \in Nat
      BY <2>2, EmptySeq, ElementOfSeq
    <3>. QED
      BY <3>1 DEF Enclosing
  <2>4. PICK local \in Locals : local = [id |-> nextLocal, frame |-> Enclosing] /\ local.id = nextLocal
    <3>1. [id |-> nextLocal, frame |-> Enclosing] \in Locals
      BY <1>0, <2>3 DEF Locals
    <3>. QED
      BY <3>1
  <2>5. /\ Len(locals') = Len(locals) + 1 /\ locals' \in Seq(Locals) /\ locals'[Len(locals) + 1] = local
        /\ \A i \in 1..Len(locals) : locals'[i] = locals[i]
    BY <1>0, <2>1, <2>2, <2>4
  <2>6. input # {} => \E from \in Nat : from \in input /\ edges' = Append(edges, [from |-> from, to |-> nextLocal])
    <3>1. input \subseteq Nat
      BY DEF Inputs, TraceType
    <3>2. input # {} => (CHOOSE i \in input : TRUE) \in input
      OBVIOUS
    <3>. QED
      BY <2>1, <3>1, <3>2
  <2>7. /\ edges' \in Seq(Edges) /\ Len(edges') \in Nat /\ Len(edges) <= Len(edges')
        /\ \A k \in 1..Len(edges) : edges'[k] = edges[k]
        /\ \A k \in 1..Len(edges') : k \in 1..Len(edges) \/ (edges'[k].from \in input /\ edges'[k].to = nextLocal)
    <3>1. CASE input = {}
      BY <1>0, <2>1, <2>2, <3>1
    <3>2. CASE input # {}
      <4>1. PICK from \in Nat : from \in input /\ edges' = Append(edges, [from |-> from, to |-> nextLocal])
        BY <2>6, <3>2
      <4>2. PICK edge \in Edges : edge = [from |-> from, to |-> nextLocal] /\ edge.from = from /\ edge.to = nextLocal
        <5>1. [from |-> from, to |-> nextLocal] \in Edges
          BY <1>0 DEF Edges
        <5>. QED
          BY <5>1
      <4>. QED
        BY <1>0, <2>2, <4>1, <4>2
    <3>. QED
      BY <3>1, <3>2
  <2>8. nextLocal' = nextLocal + 1 /\ held' = held \cup {nextLocal} /\ owed' = <<owed[1], owed[2] \cup {nextLocal}>>
    BY <2>1
  <2>9. strayed' \in BOOLEAN /\ (~strayed' => ~strayed /\ input \subseteq Ids(locals))
    BY <2>1
  <2>10. TraceType'
    BY <1>0, <1>1, <2>5, <2>7, <2>8, <2>9 DEF TraceType
  <2>11. \A i \in 1..Len(locals') : i \in 1..Len(locals) \/ (i = Len(locals) + 1 /\ locals'[i].id = nextLocal)
    BY <1>0, <2>4, <2>5
  <2>12. IdsInv'
    <3>1. \A i \in 1..Len(locals) : locals[i].id \in Nat /\ locals[i].id < nextLocal
      <4>1. \A i \in 1..Len(locals) : locals[i] \in Locals
        BY <2>2, ElementOfSeq
      <4>. QED
        BY <4>1 DEF IdsInv, Minted, Locals
    <3>2. ASSUME NEW i \in 1..Len(locals'), NEW j \in 1..Len(locals'), i < j
          PROVE  locals'[i].id < locals'[j].id
      <4>1. i \in 1..Len(locals)
        BY <1>0, <2>5, <3>2
      <4>2. CASE j \in 1..Len(locals)
        BY <2>5, <3>2, <4>1, <4>2 DEF IdsInv, Minted
      <4>3. CASE locals'[j].id = nextLocal
        BY <2>5, <3>1, <4>1, <4>3
      <4>. QED
        BY <2>11, <4>2, <4>3
    <3>3. ASSUME NEW i \in 1..Len(locals')
          PROVE  locals'[i].id < nextLocal'
      <4>1. CASE i \in 1..Len(locals)
        BY <1>0, <2>5, <2>8, <3>1, <4>1
      <4>2. CASE locals'[i].id = nextLocal
        BY <1>0, <2>8, <4>2
      <4>. QED
        BY <2>11, <4>1, <4>2
    <3>4. \A id \in held' : id < nextLocal'
      BY <1>0, <2>8 DEF IdsInv, TraceType
    <3>5. Minted(frames', nextFrame')
      BY <1>1 DEF IdsInv, Minted
    <3>. QED
      BY <3>2, <3>3, <3>4, <3>5 DEF IdsInv, Minted
  <2>13. /\ FirstIds(locals', Len(locals')) = FirstIds(locals, Len(locals)) \cup {nextLocal}
         /\ Ids(locals) = FirstIds(locals, Len(locals))
    <3>1. \A i \in 1..Len(locals) : i \in 1..Len(locals') /\ locals'[i].id = locals[i].id
      BY <1>0, <2>5
    <3>2. Len(locals) + 1 \in 1..Len(locals') /\ locals'[Len(locals) + 1].id = nextLocal
      BY <1>0, <2>4, <2>5
    <3>3. FirstIds(locals', Len(locals')) = FirstIds(locals, Len(locals)) \cup {nextLocal}
      BY <2>11, <3>1, <3>2 DEF FirstIds
    <3>. QED
      BY <3>3, Lengths DEF FirstIds, Ids
  <2>14. EvidenceInv'
    <3>1. ASSUME ~torn
          PROVE  owed' = <<FirstIds(frames', Len(frames')), FirstIds(locals', Len(locals'))>>
      <4>1. owed = <<FirstIds(frames, Len(frames)), FirstIds(locals, Len(locals))>>
        BY <3>1 DEF EvidenceInv
      <4>2. FirstIds(frames', Len(frames')) = FirstIds(frames, Len(frames))
        BY <1>1 DEF FirstIds
      <4>. QED
        BY <2>8, <2>13, <4>1, <4>2
    <3>2. ASSUME ~torn, ~strayed'
          PROVE  Linked(Len(edges), FirstIds(locals, Len(locals)))'
      <4>1. Linked(Len(edges), FirstIds(locals, Len(locals))) /\ input \subseteq FirstIds(locals, Len(locals))
        BY <2>9, <2>13, <3>2 DEF EvidenceInv
      <4>2. ASSUME NEW k \in 1..Len(edges')
            PROVE  /\ edges'[k].from \in FirstIds(locals', Len(locals'))
                   /\ edges'[k].to \in FirstIds(locals', Len(locals'))
        <5>1. CASE k \in 1..Len(edges)
          BY <2>7, <2>13, <4>1, <5>1 DEF Linked
        <5>2. CASE edges'[k].from \in input /\ edges'[k].to = nextLocal
          BY <2>13, <4>1, <5>2
        <5>. QED
          BY <2>7, <5>1, <5>2
      <4>. QED
        BY <4>2 DEF Linked
    <3>. QED
      BY <1>1, <3>1, <3>2 DEF EvidenceInv
  <2>15. ASSUME NEW c \in (lost + 1)..Len(calls), calls[c].what = "outer"
         PROVE  Delimits(calls[c].mark, c)'
    <3>1. PICK mark : mark = calls[c].mark
      OBVIOUS
    <3>2. mark.locals \in Nat /\ mark.edges \in Nat
      <4>1. calls \in Seq(Closures) /\ c \in 1..Len(calls)
        BY <1>0 DEF TraceType
      <4>2. calls[c] \in Closures
        BY <4>1, ElementOfSeq
      <4>. QED
        BY <3>1, <4>2 DEF Closures, Marks
    <3>3. Delimits(mark, c)
      BY <2>15, <3>1 DEF MarksInv
    <3>4. /\ mark.locals <= Len(locals') /\ mark.edges <= Len(edges')
          /\ \A i \in 1..mark.locals : locals'[i] = locals[i]
          /\ \A k \in 1..mark.edges : edges'[k] = edges[k]
      BY <1>0, <2>5, <2>7, <3>2, <3>3 DEF Delimits
    <3>5. FirstIds(locals', mark.locals) = FirstIds(locals, mark.locals)
      BY <3>4 DEF FirstIds
    <3>6. FirstIds(frames', mark.frames) = FirstIds(frames, mark.frames) /\ mark.frames <= Len(frames')
      BY <1>1, <3>3 DEF FirstIds, Delimits
    <3>7. \A i \in 1..Opened(c - 1)' : OnPath(i, mark.frames)'
      BY <1>2, <1>3, <3>3 DEF Delimits
    <3>8. ~torn' => before' = <<FirstIds(frames', mark.frames), FirstIds(locals', mark.locals)>>
      BY <1>1, <3>3, <3>5, <3>6 DEF Delimits
    <3>9. ~torn' /\ ~strayed' => \A k \in 1..mark.edges : /\ edges'[k].from \in FirstIds(locals', mark.locals)
                                                           /\ edges'[k].to \in FirstIds(locals', mark.locals)
      BY <1>1, <2>9, <3>3, <3>4, <3>5 DEF Delimits, Linked
    <3>10. calls'[c].mark = mark
      BY <1>1, <3>1
    <3>. QED
      BY <3>4, <3>6, <3>7, <3>8, <3>9, <3>10 DEF Delimits, Linked
  <2>16. MarksInv'
    BY <1>1, <2>15 DEF MarksInv
  <2>. QED
    BY <1>4, <2>10, <2>12, <2>14, <2>16
<1>. QED
  BY <1>5, <1>6
\* The evidence and the path are dropped; what is running is not of this trace.
LEMMA ResetInv ==
  ASSUME TraceInv, NEW newMode \in Modes, Reset(newMode)
  PROVE  TraceInv'
<1>. USE DEF TraceInv
<1>1. Len(calls) \in Nat
  BY Lengths
<1>2. /\ frames' = <<>> /\ current' = <<>> /\ locals' = <<>> /\ edges' = <<>> /\ lost' = Len(calls)
      /\ owed' = <<{}, {}>> /\ torn' = FALSE /\ strayed' = FALSE /\ mode' = newMode
      /\ UNCHANGED <<nextFrame, nextLocal, depth, calls, held, work, before>>
  BY DEF Reset, NoEvidence
<1>3. Len(<<>>) = 0
  OBVIOUS
<1>4. TraceType'
  BY <1>1, <1>2, EmptySeq DEF TraceType
<1>5. IdsInv'
  BY <1>2, <1>3 DEF IdsInv, Minted
<1>6. PathInv'
  <2>1. Opened(Len(calls))' = 0
    BY <1>1, <1>2, CountType DEF Opened
  <2>. QED
    BY <1>1, <1>2, <1>3, <2>1 DEF PathInv
<1>7. ScopeInv'
  BY <1>2 DEF ScopeInv
<1>8. EvidenceInv'
  BY <1>2, <1>3 DEF EvidenceInv, FirstIds, Linked
<1>9. MarksInv'
  BY <1>1, <1>2 DEF MarksInv
<1>. QED
  BY <1>4, <1>5, <1>6, <1>7, <1>8, <1>9

\* The id after the greatest recorded one is after all of them.
LEMMA NextAfterIs ==
  ASSUME NEW records, Len(records) \in Nat, NEW next, Minted(records, next),
         DOMAIN records = 1..Len(records), \A i \in 1..Len(records) : records[i].id \in Nat
  PROVE  NextAfter(Ids(records)) \in Nat /\ Minted(records, NextAfter(Ids(records)))
<1>1. Ids(records) = {records[i].id : i \in 1..Len(records)}
  BY DEF Ids
<1>2. CASE Ids(records) = {}
  <2>1. \A i \in 1..Len(records) : FALSE
    BY <1>1, <1>2
  <2>. QED
    BY <1>2, <2>1 DEF NextAfter, Minted
<1>3. CASE Ids(records) # {}
  <2>1. Len(records) \in 1..Len(records)
    BY <1>1, <1>3
  <2>2. \A i \in 1..Len(records) : records[i].id <= records[Len(records)].id
    BY <2>1 DEF Minted
  <2>3. \E m \in Ids(records) : \A id \in Ids(records) : id <= m
    BY <1>1, <2>1, <2>2
  <2>4. PICK m \in Ids(records) : m = (CHOOSE x \in Ids(records) : \A id \in Ids(records) : id <= x)
                                  /\ \A id \in Ids(records) : id <= m
    BY <2>3
  <2>5. m \in Nat /\ NextAfter(Ids(records)) = 1 + m
    BY <1>1, <1>3, <2>4 DEF NextAfter
  <2>6. \A i \in 1..Len(records) : records[i].id < 1 + m
    <3>1. \A i \in 1..Len(records) : records[i].id <= m /\ records[i].id \in Nat
      BY <1>1, <2>4
    <3>. QED
      BY <2>5, <3>1
  <2>. QED
    BY <2>5, <2>6 DEF Minted
<1>. QED
  BY <1>2, <1>3

\* The trace is read back and recorded on.
LEMMA ReopenInv ==
  ASSUME TraceInv, Reopen
  PROVE  TraceInv'
<1>. USE DEF TraceInv
<1>1. /\ Len(frames) \in Nat /\ Len(locals) \in Nat
      /\ DOMAIN frames = 1..Len(frames) /\ DOMAIN locals = 1..Len(locals)
  BY Lengths
<1>2. /\ calls = <<>> /\ current' = <<>> /\ depth' = 0 /\ held' = Ids(locals)
      /\ nextFrame' = NextAfter(Ids(frames)) /\ nextLocal' = NextAfter(Ids(locals))
      /\ UNCHANGED <<mode, frames, locals, edges, calls, work, owed, lost, torn, strayed>>
  BY DEF Reopen
<1>3. Len(<<>>) = 0
  OBVIOUS
<1>4. /\ \A i \in 1..Len(frames) : frames[i].id \in Nat
      /\ \A i \in 1..Len(locals) : locals[i].id \in Nat
  <2>1. frames \in Seq(Frames) /\ locals \in Seq(Locals)
    BY DEF TraceType
  <2>2. \A i \in 1..Len(frames) : frames[i] \in Frames
    BY <2>1, ElementOfSeq
  <2>3. \A i \in 1..Len(locals) : locals[i] \in Locals
    BY <2>1, ElementOfSeq
  <2>. QED
    BY <2>2, <2>3 DEF Frames, Locals
<1>5. /\ nextFrame' \in Nat /\ Minted(frames, nextFrame')
      /\ nextLocal' \in Nat /\ Minted(locals, nextLocal')
  BY <1>1, <1>2, <1>4, NextAfterIs DEF IdsInv
<1>6. held' = {locals[i].id : i \in 1..Len(locals)}
  BY <1>1, <1>2 DEF Ids
<1>7. TraceType'
  BY <1>2, <1>4, <1>5, <1>6, EmptySeq DEF TraceType
<1>8. IdsInv'
  BY <1>2, <1>5, <1>6 DEF IdsInv, Minted
<1>9. lost = 0
  BY <1>2, <1>3 DEF PathInv, TraceType
<1>10. PathInv'
  <2>1. Opened(Len(calls))' = 0
    BY <1>2, <1>3, <1>9, CountType DEF Opened
  <2>. QED
    BY <1>2, <1>3, <2>1 DEF PathInv
<1>11. ScopeInv'
  <2>1. Count(<<>>, 1, 0, ScopeKinds) = 0
    BY CountType
  <2>. QED
    BY <1>2, <1>3, <2>1 DEF ScopeInv
<1>12. EvidenceInv'
  BY <1>2 DEF EvidenceInv, FirstIds, Linked
<1>13. MarksInv'
  BY <1>2, <1>3, <1>9 DEF MarksInv
<1>. QED
  BY <1>7, <1>8, <1>10, <1>11, <1>12, <1>13
LEMMA TraceStep ==
  ASSUME TraceInv, TraceNext
  PROVE  TraceInv'
<1>1. ASSUME NEW node \in work.nodes, With(node)
      PROVE  TraceInv'
  <2>1. node \in Nodes
    BY <1>1, WorkloadsAssumption DEF TraceInv, TraceType
  <2>2. CASE mode = "off"
    <3>1. PICK new : new = Running("call", NoMark)
      OBVIOUS
    <3>2. new \in Closures /\ new.what = "call"
      BY <3>1 DEF Running, NoMark, Closures, Marks
    <3>3. /\ calls' = Append(calls, new)
          /\ UNCHANGED <<mode, work, frames, locals, edges, current, nextFrame, nextLocal, held, lost,
                         torn, strayed, owed, depth, before>>
      BY <1>1, <2>2, <3>1 DEF With
    <3>. QED
      BY <3>2, <3>3, ClosureAdded DEF ScopeKinds
  <2>3. CASE mode # "off"
    BY <1>1, <2>1, <2>3, FrameAdded
  <2>. QED
    BY <2>2, <2>3
<1>2. CASE WithResult
  <2>1. PICK new : new = IF mode = "errors-only" THEN OpensScope(depth = 0) ELSE Running("call", NoMark)
    OBVIOUS
  <2>2. Len(frames) \in Nat /\ Len(locals) \in Nat /\ Len(edges) \in Nat
    BY Lengths DEF TraceInv
  <2>3. /\ new \in Closures /\ new.what # "frame"
        /\ new.what = IF mode # "errors-only" THEN "call" ELSE IF depth = 0 THEN "outer" ELSE "inner"
        /\ new.what = "outer" => new.mark = Mark
    BY <2>1, <2>2 DEF OpensScope, Running, NoMark, Mark, Closures, Marks
  <2>4. /\ calls' = Append(calls, new)
        /\ UNCHANGED <<mode, work, frames, locals, edges, current, nextFrame, nextLocal, held, lost,
                       torn, strayed, owed>>
        /\ depth' = IF mode = "errors-only" THEN depth + 1 ELSE depth
        /\ before' = IF mode = "errors-only" /\ depth = 0 THEN owed ELSE before
    BY <1>2, <2>1 DEF WithResult
  <2>5. /\ depth' = IF new.what \in ScopeKinds THEN depth + 1 ELSE depth
        /\ IF new.what = "outer" THEN depth = 0 /\ new.mark = Mark /\ before' = owed ELSE before' = before
    BY <2>3, <2>4 DEF ScopeKinds
  <2>. QED
    BY <2>3, <2>4, <2>5, ClosureAdded
<1>3. ASSUME NEW how \in Ends, Leave(how)
      PROVE  TraceInv'
  BY <1>3, LeaveInv
<1>4. ASSUME NEW input \in Inputs, Record(input)
      PROVE  TraceInv'
  BY <1>4, RecordInv
<1>5. ASSUME NEW newMode \in Modes, Reset(newMode)
      PROVE  TraceInv'
  BY <1>5, ResetInv
<1>6. mode \in Modes
  BY DEF TraceInv, TraceType
<1>7. CASE Reopen
  BY <1>7, ReopenInv
<1>. QED
  BY <1>1, <1>2, <1>3, <1>4, <1>5, <1>6, <1>7 DEF TraceNext

LEMMA TraceKept ==
  ASSUME TraceInv, UNCHANGED traceVars
  PROVE  TraceInv'
<1>. USE DEF traceVars, recorder, ghosts, TraceInv
<1>1. TraceType' /\ IdsInv'
  BY DEF TraceType, IdsInv, Minted
<1>2. /\ \A i, n : OnPath(i, n)' <=> OnPath(i, n)
      /\ \A n : Opened(n)' = Opened(n)
  BY DEF OnPath, Opened
<1>3. PathInv' /\ ScopeInv'
  BY <1>2 DEF PathInv, ScopeInv
<1>4. EvidenceInv'
  BY DEF EvidenceInv, FirstIds, Linked
<1>5. ASSUME NEW c \in (lost + 1)..Len(calls), calls[c].what = "outer"
      PROVE  Delimits(calls[c].mark, c)'
  <2>1. Delimits(calls[c].mark, c)
    BY <1>5 DEF MarksInv
  <2>. QED
    BY <1>2, <2>1 DEF Delimits, FirstIds, Linked
<1>6. MarksInv'
  BY <1>5 DEF MarksInv
<1>. QED
  BY <1>1, <1>3, <1>4, <1>6

LEMMA TraceInvariant == Spec => []TraceInv
<1>1. Init => TraceInv
  BY TraceInitInv DEF Init
<1>2. TraceInv /\ [Next]_vars => TraceInv'
  <2>1. SUFFICES ASSUME TraceInv, [Next]_vars
                 PROVE  TraceInv'
    OBVIOUS
  <2>2. TraceNext \/ UNCHANGED traceVars
    BY <2>1 DEF Next, Write, vars
  <2>. QED
    BY <2>1, <2>2, TraceStep, TraceKept
<1>. QED
  BY <1>1, <1>2, PTL DEF Spec

-----------------------------------------------------------------------------
\* Whatever ends, however, and whenever the trace was reset: the frames recorded as
\* open are the traced calls that are running, outermost first, each below the one
\* before it, and a parent is recorded before its child (call_trace.rs).
THEOREM OneOpenPath == Spec => []OpenFramesAreOnePath
<1>1. TraceInv => OpenFramesAreOnePath
  <2>1. SUFFICES ASSUME TraceInv
                 PROVE  OpenFramesAreOnePath
    OBVIOUS
  <2>2. TraceType /\ PathInv
    BY <2>1 DEF TraceInv
  <2>3. Len(frames) \in Nat /\ DOMAIN frames = 1..Len(frames) /\ DOMAIN current = 1..Len(current)
    BY <2>2, Lengths
  <2>4. Len(current) = Cardinality({i \in (lost + 1) .. Len(calls) : calls[i].what = "frame"})
    <3>1. Kinds(calls, lost + 1, Len(calls), {"frame"}) = {i \in (lost + 1) .. Len(calls) : calls[i].what = "frame"}
      BY DEF Kinds
    <3>. QED
      BY <2>2, <3>1 DEF PathInv, Opened, Count
  <2>5. \A i \in DOMAIN current : \E j \in DOMAIN frames :
          /\ frames[j].id = current[i]
          /\ frames[j].parent = IF i = 1 THEN {} ELSE {current[i - 1]}
    BY <2>2, <2>3 DEF PathInv, OnPath
  <2>6. ASSUME NEW i \in DOMAIN frames
        PROVE  frames[i].parent \subseteq Ids(SubSeq(frames, 1, i - 1))
    <3>1. i \in 1..Len(frames) /\ i - 1 \in 0..Len(frames) /\ frames \in Seq(Frames)
      BY <2>2, <2>3 DEF TraceType
    <3>2. /\ DOMAIN SubSeq(frames, 1, i - 1) = 1..(i - 1)
          /\ \A j \in 1..(i - 1) : SubSeq(frames, 1, i - 1)[j] = frames[j]
      BY <3>1, PrefixIs, LenProperties
    <3>3. \A id \in frames[i].parent : \E j \in 1..(i - 1) : frames[j].id = id
      BY <2>2, <3>1 DEF PathInv
    <3>. QED
      BY <3>2, <3>3 DEF Ids
  <2>. QED
    BY <2>4, <2>5, <2>6 DEF OpenFramesAreOnePath
<1>. QED
  BY <1>1, TraceInvariant, PTL

\* What is recorded is what was recorded and not dropped by an outermost success
\* (call_trace.rs:249), unless such a success used a mark of before a reset.
THEOREM OnlyFailuresCommit == Spec => []EvidenceIsOwed
<1>1. TraceInv => EvidenceIsOwed
  BY Lengths DEF TraceInv, EvidenceInv, EvidenceIsOwed, Evidence, Ids, FirstIds
<1>. QED
  BY <1>1, TraceInvariant, PTL

\* The artifact reader accepts every trace at every moment (snapshot.rs:276-283),
\* unless the program linked a value whose evidence was gone.
THEOREM TracesAreReadable == Spec => []RecordedIsReadable
<1>1. TraceInv => RecordedIsReadable
  <2>1. SUFFICES ASSUME TraceInv, ~torn, ~strayed
                 PROVE  Readable(frames, locals, edges)
    BY DEF RecordedIsReadable
  <2>2. /\ Len(frames) \in Nat /\ Len(locals) \in Nat /\ Len(edges) \in Nat
        /\ DOMAIN frames = 1..Len(frames) /\ DOMAIN locals = 1..Len(locals) /\ DOMAIN edges = 1..Len(edges)
    BY <2>1, Lengths DEF TraceInv
  <2>3. Distinct(frames) /\ Distinct(locals)
    <3>1. /\ \A i \in 1..Len(frames) : frames[i].id \in Nat
          /\ \A i \in 1..Len(locals) : locals[i].id \in Nat
      <4>1. frames \in Seq(Frames) /\ locals \in Seq(Locals)
        BY <2>1 DEF TraceInv, TraceType
      <4>2. \A i \in 1..Len(frames) : frames[i] \in Frames
        BY <4>1, ElementOfSeq
      <4>3. \A i \in 1..Len(locals) : locals[i] \in Locals
        BY <4>1, ElementOfSeq
      <4>. QED
        BY <4>2, <4>3 DEF Frames, Locals
    <3>2. /\ \A i, j \in 1..Len(frames) : i < j => frames[i].id < frames[j].id
          /\ \A i, j \in 1..Len(locals) : i < j => locals[i].id < locals[j].id
      BY <2>1 DEF TraceInv, IdsInv, Minted
    <3>. QED
      BY <2>2, <3>1, <3>2 DEF Distinct
  <2>4. ParentsRecorded(frames)
    <3>1. ASSUME NEW i \in 1..Len(frames), NEW id \in frames[i].parent
          PROVE  id \in Ids(frames)
      <4>1. PICK j \in 1..(i - 1) : frames[j].id = id
        BY <2>1, <3>1 DEF TraceInv, PathInv
      <4>2. j \in DOMAIN frames
        BY <2>2
      <4>. QED
        BY <4>1, <4>2 DEF Ids
    <3>. QED
      BY <2>2, <3>1 DEF ParentsRecorded
  <2>5. EndsRecorded(edges, locals)
    BY <2>1, <2>2 DEF TraceInv, EvidenceInv, Linked, FirstIds, EndsRecorded, Ids
  <2>. QED
    BY <2>3, <2>4, <2>5 DEF Readable
<1>. QED
  BY <1>1, TraceInvariant, PTL
\* An id the program holds is handed out once: ids are minted upwards, a rollback
\* and a reset leave the counter alone, and a trace that is read back starts after
\* its greatest id (call_trace.rs:199-207).
THEOREM MintedOnce == Spec => IdsNameOnce
<1>. DEFINE Renamed == Ids(locals') \ Ids(locals)
<1>1. ASSUME TraceInv, TraceNext
      PROVE  Renamed \cap held = {}
  <2>1. CASE \E input \in Inputs : Record(input)
    <3>1. PICK input \in Inputs : Record(input)
      BY <2>1
    <3>2. CASE mode = "off"
      BY <3>1, <3>2 DEF Record, Ids
    <3>3. CASE mode # "off"
      <4>1. PICK local : locals' = Append(locals, local) /\ local.id = nextLocal
        BY <3>1, <3>3 DEF Record
      <4>2. locals \in Seq(Locals) /\ Len(locals) \in Nat /\ DOMAIN locals = 1..Len(locals)
        BY <1>1, Lengths DEF TraceInv, TraceType
      <4>3. /\ DOMAIN locals' = 1..(Len(locals) + 1) /\ locals'[Len(locals) + 1] = local
            /\ \A i \in 1..Len(locals) : locals'[i] = locals[i]
        BY <4>1, <4>2
      <4>4. Renamed \subseteq {nextLocal}
        BY <4>1, <4>2, <4>3 DEF Ids
      <4>5. nextLocal \notin held
        BY <1>1 DEF TraceInv, TraceType, IdsInv
      <4>. QED
        BY <4>4, <4>5
    <3>. QED
      BY <3>2, <3>3
  <2>2. CASE \E how \in Ends : Leave(how)
    <3>1. PICK how \in Ends : Leave(how)
      BY <2>2
    <3>3. locals \in Seq(Locals)
      BY <1>1 DEF TraceInv, TraceType
    <3>4. \A i \in DOMAIN locals' : i \in DOMAIN locals /\ locals'[i] = locals[i]
      <4>1. CASE UNCHANGED locals
        BY <4>1
      <4>2. CASE locals' # locals
        <5>1. PICK last : last = calls[Len(calls)]
          OBVIOUS
        <5>2. last.what = "outer" /\ locals' = Truncate(locals, last.mark.locals)
          BY <3>1, <4>2, <5>1 DEF Leave, Rollback, Kept
        <5>3. last.mark.locals \in Nat
          <6>1. calls \in Seq(Closures) /\ calls # <<>>
            BY <1>1, <3>1 DEF TraceInv, TraceType, Leave
          <6>2. Len(calls) \in 1..Len(calls)
            BY <6>1, EmptySeq, LenProperties
          <6>3. last \in Closures
            BY <5>1, <6>1, <6>2, ElementOfSeq
          <6>. QED
            BY <6>3 DEF Closures, Marks
        <5>4. locals' \in Seq(Locals) /\ First(locals, locals')
          BY <3>3, <5>2, <5>3, TruncateIs
        <5>5. Len(locals) \in Nat /\ DOMAIN locals = 1..Len(locals) /\ DOMAIN locals' = 1..Len(locals')
          BY <3>3, <5>4, LenProperties
        <5>. QED
          BY <5>4, <5>5 DEF First
      <4>. QED
        BY <4>1, <4>2
    <3>5. Renamed = {}
      BY <3>4 DEF Ids
    <3>. QED
      BY <3>5
  <2>3. CASE \E newMode \in Modes : Reset(newMode)
    <3>1. locals' = <<>>
      BY <2>3 DEF Reset
    <3>. QED
      BY <3>1 DEF Ids
  <2>4. CASE \E node \in work.nodes : With(node)
    BY <2>4 DEF With, Ids
  <2>5. CASE WithResult
    BY <2>5 DEF WithResult, Ids
  <2>6. CASE Reopen
    BY <2>6 DEF Reopen, Ids
  <2>7. mode \in Modes
    BY <1>1 DEF TraceInv, TraceType
  <2>. QED
    BY <1>1, <2>1, <2>2, <2>3, <2>4, <2>5, <2>6, <2>7 DEF TraceNext
<1>2. TraceInv /\ [Next]_vars => [Renamed \cap held = {}]_traceVars
  <2>1. ASSUME TraceInv, [Next]_vars
        PROVE  TraceNext \/ UNCHANGED traceVars
    BY <2>1 DEF Next, Write, vars
  <2>. QED
    BY <1>1, <2>1
<1>. QED
  BY <1>2, TraceInvariant, PTL DEF Spec, IdsNameOnce

-----------------------------------------------------------------------------
\* The file holds one artifact at most; what Studio shows is not ahead of the files,
\* and its graph is at most as old as it.
EvidenceInvariant ==
  /\ \A a, b \in artifact : a = b
  /\ tree.edition \in Nat /\ snapshot.edition \in Nat /\ snapshot.edition <= tree.edition
  /\ EvidenceFitsSnapshot

LEMMA JudgeFits ==
  ASSUME \A a, b \in artifact : a = b, NEW faces, Judge(faces)
  PROVE  /\ status' = "loaded" => shown' \subseteq faces
         /\ status' # "loaded" => shown' = {}
         /\ mir' = {}
<1>1. /\ status' = IF artifact = {} THEN "absent"
                   ELSE IF \A a \in artifact : Loads(a, faces) THEN "loaded" ELSE "mismatch"
      /\ shown' = UNION {a.nodes : a \in {x \in artifact : Loads(x, faces)}}
      /\ mir' = {}
  BY DEF Judge
<1>2. shown' \subseteq faces
  BY <1>1 DEF Loads
<1>3. ASSUME status' # "loaded"
      PROVE  \A x \in artifact : ~Loads(x, faces)
  BY <1>1, <1>3
<1>. QED
  BY <1>1, <1>2, <1>3

\* Through edits, saves, reloads, batches and rebuilt graphs, in any order: LIVE
\* evidence is of faces Studio shows, and no graph is older than they are
\* (studio/app/trace.rs:67-71).
THEOREM LiveEvidenceFits == Spec => []EvidenceFitsSnapshot
<1>1. Init => EvidenceInvariant
  BY DEF Init, EvidenceInit, EvidenceInvariant, EvidenceFitsSnapshot
<1>2. EvidenceInvariant /\ [Next]_vars => EvidenceInvariant'
  <2>1. SUFFICES ASSUME EvidenceInvariant, [Next]_vars
                 PROVE  EvidenceInvariant'
    OBVIOUS
  <2>. USE DEF EvidenceInvariant, EvidenceFitsSnapshot
  <2>2. CASE UNCHANGED evidenceVars
    BY <2>1, <2>2 DEF evidenceVars, studioVars
  <2>3. ASSUME NEW own \in BOOLEAN, Write(own)
        PROVE  EvidenceInvariant'
    BY <2>1, <2>3 DEF Write, Save, studioVars
  <2>4. CASE Remove
    BY <2>1, <2>4 DEF Remove, studioVars
  <2>5. ASSUME NEW faces \in SUBSET Faces, Edit(faces)
        PROVE  EvidenceInvariant'
    <3>1. tree'.edition = tree.edition + 1 /\ UNCHANGED <<artifact, snapshot, status, shown, mir>>
      BY <2>5 DEF Edit, studioVars
    <3>. QED
      BY <2>1, <3>1
  <2>6. CASE Reload
    <3>1. snapshot' = tree /\ tree' = tree /\ artifact' = artifact /\ Judge(tree.faces)
      BY <2>6 DEF Reload, Replace
    <3>. QED
      BY <2>1, <3>1, JudgeFits
  <2>7. ASSUME NEW face \in Faces, RegisterBatch(face)
        PROVE  EvidenceInvariant'
    <3>1. PICK new : /\ new.edition = tree.edition + 1 /\ snapshot' = new /\ Judge(new.faces)
                     /\ tree'.edition = tree.edition + 1 /\ artifact' = artifact
      BY <2>7 DEF RegisterBatch, Replace
    <3>. QED
      BY <2>1, <3>1, JudgeFits
  <2>8. CASE LoadMir
    BY <2>1, <2>8 DEF LoadMir
  <2>. QED
    BY <2>1, <2>2, <2>3, <2>4, <2>5, <2>6, <2>7, <2>8 DEF Next, EvidenceNext, vars
<1>3. EvidenceInvariant => EvidenceFitsSnapshot
  BY DEF EvidenceInvariant
<1>. QED
  BY <1>1, <1>2, <1>3, PTL DEF Spec
=============================================================================
