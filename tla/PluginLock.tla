----------------------------- MODULE PluginLock -----------------------------
(* The plugin locks of a package, the entry files that import what they      *)
(* list, and the two programs that write both: Studio's plugin form and the  *)
(* bridge's xirang.plugin. kernel/.../plugin/catalog/catalog.rs,             *)
(* toolchain/src/mcp/src/plugin.rs, studio/app/mutations.rs submit_plugin.   *)
(* The framework, version, crate, checksum and mode of a record are one      *)
(* package here; a checksum has one spelling.                                *)
EXTENDS Naturals, Sequences, SequencesExt

CONSTANTS
  Packages, Values,     \* package identities; what a provenance column may say
  Requests,             \* what the two programs are asked to write, see Request
  Published,            \* texts the publisher of official.lock may give it
  InitialLocks,         \* what the two files hold at first
  Budgets               \* bounds on a behaviour: [asks, faults, editions, openings, calls]

Sources == {"official", "user"}
Columns == {"signature", "key", "revocations"}
Unsaid == "unsaid"      \* None: a record of seven fields, a manifest without the field
Empty == ""             \* Some(""): a record of ten fields that declares no value
Manifests ==            \* what an artifact says of itself
  [source : Sources, package : Packages, columns : [Columns -> Values \cup {Unsaid, Empty}]]
Records ==              \* a line spells all three columns or none
  {r \in Manifests : (\A c \in Columns : r.columns[c] = Unsaid) \/ Unsaid \notin Range(r.columns)}
Headers == {"absent", "ours", "foreign", "twice"}    \* # xirang-schema=...
Texts == [header : Headers, lines : Seq(Records), torn : BOOLEAN]
Nothing == [header |-> "absent", lines |-> <<>>, torn |-> FALSE]
SameIdentity(a, b) == a.source = b.source /\ a.package = b.package
\* A record, and the lines its text reads as. Both programs trim a field and
\* look no further: one that holds a line end makes a second line, and the
\* first is the record no more. A field that makes three is left out, and so
\* are two lines of one identity.
Request ==
  {r \in [record : Records, lines : Seq(Records)] :
     \/ Len(r.lines) = 1
     \/ Len(r.lines) = 2 /\ ~SameIdentity(r.lines[1], r.lines[2])}
Broken(request) == request.lines # <<request.record>>
ASSUME LocksAssumption ==
  /\ Values \cap {Unsaid, Empty} = {} /\ Requests \subseteq Request /\ Published \subseteq Texts
  /\ InitialLocks \subseteq [Sources -> Texts]
  /\ \A locks \in InitialLocks : \A i \in DOMAIN locks["user"].lines :
       locks["user"].lines[i].source = "user"
  /\ Budgets \subseteq [asks : Nat, faults : Nat, editions : Nat, openings : Nat, calls : Nat]

Carries(record) == {c \in Columns : record.columns[c] \notin {Unsaid, Empty}}
\* Mutant: a second record of an identity need not carry more.
SupersedesAnyway(old, new) == TRUE
\* A second record of an identity has to carry provenance the first has not.
Supersedes(old, new) == Carries(old) \subseteq Carries(new) /\ Carries(old) # Carries(new)

\* parse_plugin_catalog refuses, or keeps the last record of each identity.
Readable(lock) ==
  /\ lock.header \in {"absent", "ours"} /\ ~lock.torn
  /\ \A i, j \in DOMAIN lock.lines :
       i < j /\ SameIdentity(lock.lines[i], lock.lines[j]) => Supersedes(lock.lines[i], lock.lines[j])
Listed(lock) ==
  {lock.lines[i] : i \in {k \in DOMAIN lock.lines :
     \A j \in DOMAIN lock.lines : j > k => ~SameIdentity(lock.lines[k], lock.lines[j])}}

\* accounts_for: each provenance column is what the record expects of another.
Accounts(record, other) ==
  /\ SameIdentity(record, other)
  /\ \A c \in Columns :
       CASE record.columns[c] = Unsaid -> TRUE
         [] record.columns[c] = Empty -> other.columns[c] \in {Unsaid, Empty}
         [] OTHER -> other.columns[c] = record.columns[c]
Accounted(lock, other) == \E record \in Listed(lock) : Accounts(record, other)

Appended(lock, record) == [lock EXCEPT !.lines = Append(@, record)]
\* with_record: the line goes to the end, the one it supersedes goes.
Dead(lock, record) ==
  {i \in DOMAIN lock.lines : SameIdentity(lock.lines[i], record) /\ lock.lines[i] \in Listed(lock)}
WithRecord(lock, record) ==
  Appended(IF Dead(lock, record) = {} THEN lock
           ELSE [lock EXCEPT !.lines = RemoveAt(@, CHOOSE i \in Dead(lock, record) : TRUE)], record)
WithLines(lock, lines) ==
  IF Len(lines) = 1 THEN WithRecord(lock, lines[1])
  ELSE WithRecord(WithRecord(lock, lines[1]), lines[2])
\* The text still reads with the line, or with the two one after the other.
Accepts(lock, record) == Readable(lock) /\ Readable(Appended(lock, record))
AcceptsLines(lock, lines) ==
  /\ Accepts(lock, lines[1])
  /\ Len(lines) = 2 => Accepts(WithRecord(lock, lines[1]), lines[2])

VARIABLES
  lock,         \* .xirang/plugins/official.lock and user.lock
  entry,        \* official.rs and user.rs: the packages they import
  writer,       \* each program, with what it has read for the request it serves
  published,    \* every line the publisher ever gave official.lock
  slips,        \* lines nobody meant: what a line broke into, or a cut left of it
  written,      \* every record a program reported as written
  blurred,      \* pairs of files two of them worked on at a time, or cut short
  left          \* what is left of the bounds
lockVars == <<lock, entry, writer, published, slips, written, blurred, left>>

Writers == {"studio", "bridge"}
Idle == [at |-> "idle"]
Busy(w) == writer[w].at # "idle"
On(w) == writer[w].want.source
To(w, place) == writer' = [writer EXCEPT ![w].at = place]
Ends(w) == writer' = [writer EXCEPT ![w] = Idle]
Spend(what) == left[what] > 0 /\ left' = [left EXCEPT ![what] = @ - 1]

LockInit ==
  /\ lock \in InitialLocks
  /\ entry = [s \in Sources |-> {}]
  /\ writer = [w \in Writers |-> Idle]
  /\ published = Range(lock["official"].lines) /\ slips = {} /\ written = {}
  /\ blurred = {} /\ left \in Budgets

\* Mutant: the bridge writes an official record the lock does not account for.
AllowsUngated(w, text, request) ==
  /\ AcceptsLines(text, request.lines) /\ request.record \notin Range(text.lines)
  /\ w = "studio" /\ request.record.source = "official" => Accounted(text, request.record)
\* What both programs ask before they write: not there yet, legal with it, and
\* accounted for already if it is official. A refusal changes nothing.
Allows(w, text, request) ==
  /\ AcceptsLines(text, request.lines) /\ request.record \notin Range(text.lines)
  /\ request.record.source = "official" => Accounted(text, request.record)

Planned(w, request, text) == LET s == request.record.source IN
  /\ ~Busy(w) /\ Allows(w, text, request)
  /\ writer' = [writer EXCEPT ![w] =
       [at |-> "planned", want |-> request.record, lines |-> request.lines, seen |-> text,
        text |-> WithLines(text, request.lines), imports |-> {}]]
  /\ slips' = slips \cup (IF Broken(request) THEN Range(request.lines) ELSE {})
  /\ blurred' = blurred \cup {o \in {s} : \E v \in Writers \ {w} : Busy(v) /\ On(v) = s}
  /\ UNCHANGED <<lock, entry, published, written>>
\* A file that cannot be read, or is no UTF-8, is read as an empty one.
Ask(w) == \E request \in Requests :
  \/ Planned(w, request, lock[request.record.source]) /\ Spend("asks")
  \/ Planned(w, request, Nothing) /\ Spend("faults")
\* The entry file is read; one that imports the crate is left alone.
Entered(w, imports) ==
  /\ writer[w].at = "planned"
  /\ writer' = [writer EXCEPT ![w].imports = imports,
                  ![w].at = IF writer[w].want.package \in imports THEN "entered" ELSE "opened"]
  /\ UNCHANGED <<lock, entry, published, slips, written>>
ReadEntry(w) == Entered(w, entry[On(w)]) /\ UNCHANGED <<blurred, left>>
EntryHidden(w) == Entered(w, {}) /\ Spend("faults") /\ blurred' = blurred \cup {On(w)}
\* Studio appends to the file as it is, the bridge writes the text it read.
Importing(w) == {writer[w].want.package} \cup IF w = "studio" THEN entry[On(w)] ELSE writer[w].imports
WriteEntry(w) ==
  /\ writer[w].at = "opened" /\ To(w, "entered")
  /\ entry' = [entry EXCEPT ![On(w)] = Importing(w)]
  /\ UNCHANGED <<lock, published, slips, written, blurred, left>>
WriteLock(w) ==
  /\ writer[w].at = "entered" /\ Ends(w)
  /\ lock' = [lock EXCEPT ![On(w)] = writer[w].text]
  /\ written' = written \cup {writer[w].want}
  /\ UNCHANGED <<entry, published, slips, blurred, left>>

\* A write that fails, or is cut short, leaves the old text or a part of the new:
\* whole lines, a torn one, or one that was cut where it still reads, behind its
\* mode, without its pins, or within the last of them.
Shortened(record) == LET last == record.columns["revocations"] IN
  IF last = Unsaid THEN {}
  ELSE {[record EXCEPT !.columns = [c \in Columns |-> Unsaid]]}
       \cup {[record EXCEPT !.columns["revocations"] = v] :
               v \in IF last = Empty THEN {} ELSE Values \cup {Empty}}
Cut(text, n, torn) == [text EXCEPT !.lines = SubSeq(@, 1, n), !.torn = torn]
CutLocks(w) == LET text == writer[w].text IN
  {lock[On(w)], Nothing}
  \cup UNION {{Cut(text, n - 1, t) : t \in BOOLEAN}
              \cup {Appended(Cut(text, n - 1, FALSE), short) : short \in Shortened(text.lines[n])} :
                n \in 1..Len(text.lines)}
Slipped(w, text) == Range(text.lines) \ (Range(lock[On(w)].lines) \cup Range(writer[w].text.lines))
LockLeft(w, text) ==
  /\ lock' = [lock EXCEPT ![On(w)] = text]
  /\ slips' = slips \cup Slipped(w, text)
CutEntries(w) == IF w = "studio" THEN {entry[On(w)]} ELSE {entry[On(w)]} \cup SUBSET Importing(w)
CutRestores(w) == {entry[On(w)]} \cup SUBSET writer[w].imports
Leaves(s, text) ==
  /\ entry' = [entry EXCEPT ![s] = text]
  /\ blurred' = blurred \cup (IF entry[s] \subseteq text THEN {} ELSE {s})
EntryFails(w) ==
  /\ writer[w].at = "opened" /\ Ends(w) /\ Spend("faults")
  /\ \E text \in CutEntries(w) : Leaves(On(w), text)
  /\ UNCHANGED <<lock, published, slips, written>>
LockFails(w) ==
  /\ writer[w].at = "entered" /\ To(w, "failed") /\ Spend("faults")
  /\ \E text \in CutLocks(w) : LockLeft(w, text)
  /\ UNCHANGED <<entry, published, written, blurred>>
\* Mutant: the entry file is removed though this write did not create it.
RestoreRemoves(w) ==
  /\ writer[w].at = "failed" /\ Ends(w)
  /\ entry' = [entry EXCEPT ![On(w)] = {}]
  /\ UNCHANGED <<lock, published, slips, written, blurred, left>>
\* The entry file goes back to the bytes that were read of it.
Restore(w) ==
  /\ writer[w].at = "failed" /\ Ends(w)
  /\ entry' = [entry EXCEPT ![On(w)] = writer[w].imports]
  /\ UNCHANGED <<lock, published, slips, written, blurred, left>>
\* "the entry file could not be restored": the disk that refused the lock.
RestoreFails(w) ==
  /\ writer[w].at = "failed" /\ Ends(w)
  /\ \E text \in CutRestores(w) : Leaves(On(w), text)
  /\ UNCHANGED <<lock, published, slips, written, left>>
\* A program is killed between two of these steps or in the middle of one.
Crash(w) ==
  /\ Busy(w) /\ Ends(w) /\ Spend("faults")
  /\ \E text \in IF writer[w].at = "entered" THEN CutLocks(w) ELSE {lock[On(w)]} :
        LockLeft(w, text)
  /\ \E text \in CASE writer[w].at = "opened" -> CutEntries(w)
                    [] writer[w].at = "failed" -> CutRestores(w)
                    [] OTHER -> {entry[On(w)]} :
        Leaves(On(w), text)
  /\ UNCHANGED <<published, written>>

\* The publisher gives official.lock another text.
Publish == \E text \in Published :
  /\ text # lock["official"] /\ Spend("editions")
  /\ lock' = [lock EXCEPT !["official"] = text]
  /\ published' = published \cup Range(text.lines)
  /\ blurred' = blurred \cup {s \in {"official"} : \E w \in Writers : Busy(w) /\ On(w) = s}
  /\ UNCHANGED <<entry, writer, slips, written>>

Works(w) == ReadEntry(w) \/ WriteEntry(w) \/ WriteLock(w) \/ Restore(w)
Fails(w) == EntryHidden(w) \/ EntryFails(w) \/ LockFails(w) \/ RestoreFails(w)
LockNext ==
  \/ \E w \in Writers : Ask(w) \/ Works(w) \/ Fails(w) \/ Crash(w)
  \/ Publish

\* A write that found the lock as it was read drops no identity and no
\* provenance the lock carried, "the downgrade this rule exists to prevent"
\* (catalog.rs:499); one over a text it has not seen, or could not read, may.
LocksKeepProvenance ==
  [][\A w \in Writers :
       (writer[w].at = "entered" /\ writer'[w].at = "idle" /\ lock[On(w)] = writer[w].seen
          /\ left' = left) =>
         /\ Readable(lock'[On(w)])
         /\ \A old \in Listed(lock[On(w)]) : \E new \in Listed(lock'[On(w)]) :
              SameIdentity(old, new) /\ Carries(old) \subseteq Carries(new)]_lockVars

\* "One decision in two files" (plugin.rs:330): what one of the programs reported
\* as written is imported, after a crash, a failed write and its rollback too, and
\* whatever the publisher does; but for writers that overlapped, and an entry file
\* that a fault, or a restore that failed, cut or hid from its writer.
RecordsAreImported ==
  \A record \in written :
    record.source \notin blurred => record.package \in entry[record.source]
=============================================================================
