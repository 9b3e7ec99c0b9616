# nichlink (XiRang): models, checks and proofs

XiRang keeps the parts of a Rust program ("faces") in a registry tree, builds
effective trees from it by grafts, publishes records of a build for editors and
agents, edits the sources of the faces, splits a host into crates, hosts plugins
and records what a program did. These modules specify the parts of that system
whose correctness depends on order: of transactions inside one tree, of threads
inside one slot, of processes around one directory, of file-system calls that
may fail half-way. Every definition is translated from the Rust source;
`PROJECT.json` maps it to its lines.

Run `tlc -config MC<X>.cfg MC<X>` for a check and `tlapm <X>Proofs.tla` for the
proofs. `AtomicityProofs` takes about a quarter of an hour.

## The system

| Component | State | Operations | Hard because |
|---|---|---|---|
| Registry tree (`kernel/.../tree`) | nested maps NodeId → face, a header per registry | `register_snapshot_batch`, `validate_snapshot_migration`, `apply_snapshot_replacement` | a transaction is many submissions; each is judged against the tree as it will be; later edits may break what earlier ones relied on |
| Graft overlay (`tree/graft_ops`) | none: base tree, external tree, plan, records → effective tree | `overlay`, `overlay_static`, `overlay_recorded` | cuts meet the results of earlier cuts; records and declarations claim the same slot; copied subtrees carry foreign identities and paths |
| Publish lock (`build_method/publish_lock.rs`) | one file | `acquire_within`, `Drop` | processes interleave between system calls, are killed, exit; leftovers must be taken over |
| Publish pipeline (`build_method/pipeline.rs`, `graph.rs`, `mcp/index.rs`) | payload files, the discovery token, the readiness record | `run`, `build_output_is_current`, `read_generation`, `state`, `start` | several files stand for one fact; sources change meanwhile; writes fail; runs are killed |
| Wasm plugin slot (`plugin_host/lazy_wasm`) | a mutex, an atomic flag, an `ArcSwap`, an error | `install`, `call`, `activate_pending` | four pieces of state that are not changed together |
| Process plugin call (`plugin_host/process.rs`) | a child, three pipes, three threads | `call` | full pipes, exits, frames and the deadline race |
| Authoring operations (`run_method/authoring`, `mcp/apply*.rs`) | source files, rule files, entry, record, trash | create, edit, rename, change kind, delete, move, deepen, cut, graft, promote, retire, plugin form | several files change together, with rollbacks that may fail |
| Verdict memo (`mcp/freshness.rs`) | per-thread verdicts and stamps | `consult`, `record` | a cached verdict outlives the output it judged |
| Studio's session (`studio/app/lifecycle.rs`) | a snapshot and a stamp | poll, reload, edit, add | the stamp and the load are two moments |
| Plugin admission (`kernel/plugin`, `admission.rs`) | two lock files, two entry files, a catalog | `plan`, `write_plan`, `submit_plugin`, `from_package_root`, `admit` | two programs write what a third reads; a policy over several sources of trust |
| Hot deployment (`plugin_host/deployment.rs`) | the current deployment, a mutex | `replace` | read-modify-write of a shared pointer, with panics |
| Call trace and MIR (`run_method/runtime/trace`, `studio/app/trace.rs`, `mcp/trace.rs`) | frames, values, edges, open path, scopes; an artifact; verdicts on it | `with`, `with_result`, `local`, `link`, `clear`, `set_mode`, `into_trace`, load and judge | evidence is rolled back while ids of it are held; a snapshot changes under a verdict |
| Crate partition (`build_method/crate_*.rs`, `partition_view.rs`, `shape_decl.rs`) | generated packages, `.cargo/config.toml`, the member list, the declaration | write, write `--release`, `--revert`, declare, undeclare | four places of which two are the user's; no record but the declaration says what to take back |
| Face syntax, identity, release topology, adoption ledger, ports, plugin backends | | parsing, rendering, hashing, read-only queries, adapters | data, little control |
| Bridge protocol and tools, command line, supervisor, macros, repository gates | | front ends | one request at a time |

How they interact. The command line, a build script and the bridge (after each
write it makes) all run the pipeline; they meet at the publish lock and in the
output directory, and readers look at that directory without the lock. The
pipeline derives faces, and a host registers them in a tree; authoring
operations ask the tree to rehearse what they wrote. The bridge remembers
whether the output describes the sources, Studio keeps a snapshot of them, both
by a stamp of the files' times. A host calls `overlay_static` or
`overlay_recorded` with its declared cuts and the records on disk. Plugins are
written in the locks by Studio or the bridge, admitted by a host, installed in a
slot (or called as processes) and paired with an effective tree by a deployment.
A traced host writes an artifact that Studio and the bridge each judge against
the tree they know. A partition is planned from the faces a build published.

## Modules

`RegistryTree` is a tree as a value: `faces` and `regs` are functions over
*slots*, a slot being the identities met from the root down. It holds the
lookups in the order the nested maps answer them, the connector (which provider
a declared input attaches to, in the tree with its headers) and the pure edits:
`Submit`, `TakeEntry`, `ReplaceInfo`. `InputsReachable` says the same of the faces
alone, without the connector's lookups.

`Registry` is the live tree and its transactions. `register_snapshot_batch` is
not one step: `RegisterSnapshotBatch` plans and stages a clone, `SubmitSnapshot`
places one snapshot, `NextPass` starts over with those that still wait for a
parent, and `CommitBatch`, `AcceptMigration` or `RejectBatch` ends it. So what
the loop leaves behind is visible. `ApplySnapshotReplacement` is one step, with
every check of `validate_snapshot_replacement`.

`Overlay` computes effective trees. A selector is an identity, a path or a word;
a cut names a slot or a range of siblings, a graft and whether the subtree comes
with it. `ApplyOverlayFace` is one cut in one slot. `Begin` copies the base tree,
`OpenCut` resolves the next cut in the tree as the earlier ones left it,
`GraftSlot` takes one of its slots, `RefusePlan` and `ReturnTree` (which checks
the connector) end the call. `AskStatic` and `AskRecorded` are the two calls a
host makes with the same plan; `RecordedPlan` puts the records into it, a
declaration that a winner touches split slot by slot. A record whose directory
names another graft than its plan is refused before anything is looked up. A range covers the
siblings between its ends by name, and by the order of their registry's map
where an edit has left two of one name (`SortsBefore`). The end points of a range
need not be in the registry found for them once a subtree is there twice: the
code says "infallible" (`resolution.rs:206`) and panics, which is no answer
either, so `RangeResolves` counts it as a refusal.

`PublishLock` is `acquire_within` one system call at a time: `Create`,
`WriteHolder`, `HolderOf`, `Judge`, `RemoveStale`, `Recreate`, `Deadline`, then
`Drop`. Processes are killed (`Crash`), end (`Exit`), and files grow old (`Age`).
`late` is a history variable that no action reads: it becomes true when a
takeover removes another file than the leftover it had judged.

`Publish` extends it. A run is the order of `pipeline::run`: discover and
fingerprint, check, take the lock, record, graph, token or its removal, number
and stamp, readiness record, return. It reads the sources three times: when it
discovers them, when it checks them (the scope, the graft plan and the generated
lib are of that moment), and when it writes (the manifests read the discovered
files again). So the payload, two files, `record` (the pruning manifest and what
is written with it) and `graph`, is the *set* of contents it was made from; a
content stands for all sources. What the checks say of one content is
fixed (`Valid`); of a mixture they may say either (`Verdicts`). `since` is a
history variable: the runs that wrote a payload since the token, and since the
readiness record. `OutputIsCurrent` and `IndexIsReady` are the two tests readers make.

`WasmSlot` is one slot. A critical section of the mutex is one action, every
atomic access outside it is another; a load succeeds or fails. `overlapped` is a
history variable: the last generation taken was taken while another activation
was under way.

`ProcessCall` is one call: the checks of the request, the attempts to start a
child (only a busy executable is tried again), the call. Bytes travel in pieces through pipes that hold
`Capacity` of them; a read of an empty and a write to a full pipe block. The
child follows a script of reads, writes, forks and lingering; its three threads
and the polling loop of the host are actions in the order of the source. `fault`
is a history variable: which system call of the host failed.

`Authoring` turns a request into a plan: the file-system calls its code makes,
in order, each with the calls its own failure makes (`undo`), whether a failing
write leaves a torn file and whether the code has a way back from there. `Do`,
`Fail`, `Undo` and `Crash` then run any plan. What the code undoes, and what it
does not, is in the plans, one operator per function of the source.
`AtomicAuthoring` is what a request promises, with no word about files: the tree
becomes `After(tree, r)`, or it does not. `Authoring` implements it
(`AllOrNothing` in the run) under the mapping that shows the tree as it was
while a request is under way; `excused` names the faults after which nothing is
promised: a failed undoing call, a torn write, a crash, the last steps of a move
or a promotion, and the requests that leave an unsound tree by themselves.

`Sources` is the files of a package as others look at them: a content and the
stamp of a walk, with saves that move the stamp and saves that do not.
`Freshness` is the bridge's memo over it, with the refresh a write starts, which
publishes, takes the fingerprint away, or leaves the output as it was (no lock, or
a token that cannot be written or removed: nobody looks at its verdict).
`StudioSession` is Studio's snapshot and stamp: poll, reload, an edit, an addition
and the selection of a plugin, after which the stamp is kept and nothing loaded.
`Readers` composes either with the editor.

`PluginLock` is the two lock files and the two entry files with the two programs
that write them, step by step, with failed, cut and restored writes, and restores
that fail. A request is a record *and* the lines its text reads as, since the
programs trim a field and look no further. A line may be cut where it still reads,
without its pins (`Shortened`). A file that cannot be read is read as empty.
`slips` is a history variable: the lines that came out of either and that nobody
meant. `Admission`
reads them into a catalog and holds the policies, the trust policy and the lanes
as operators in the order of the code. `Deployment` is `replace` step by step.
`Hosting` composes the three.

`CallTrace` is a host that records: `calls` is the program's closures, each with
what the recorder does when it ends; they return, fail or panic, and the
recorder may be reset inside them. `Evidence` is the artifact on disk and its
two readers. `Tracing` composes them.

`WorkspaceFiles` has the user's two files, the config and the manifest, as the
line readers of `crate_write.rs` and `crate_members.rs` tell them apart, and the
four rewrites as operators. `Partition` runs an operation of a front end stage
by stage and package by package, with the declaration, interruptions anywhere
(the removal of a directory included) and a user who edits in between.

## What is checked

| Run | Instance | Shows |
|---|---|---|
| `registry` | eleven declarations over eight identities, batches of up to two, ten edits | identities are unique, faces hang where they say, headers repeat their faces after renames, rules hold after later edits and each input still has one reachable provider, a transaction is all or nothing and loses no face, a snapshot is left over only below a leaf of its own batch |
| `overlay` | two base trees, an external tree, every plan of up to two of twelve cuts, up to two of eight records, two of which lie in a directory that names another graft | effective trees are linked and obey their rules below copied subtrees and kept children; slots that no cut or record names keep their face; each declared slot holds what the precedence of `docs/graft.md` names |
| `publish_lock` | three processes, one kill, exits, a stray file, a failed create or removal, one poll | one writer, who owns the file, unless a takeover came late; requests are answered and leftovers taken over (`LockMovesOn`) |
| `publish` | a bridge refresh beside a check, one kill, any write failing, an edit at any moment between the readings of a run, three contents (one refused by the checks) | output is called current for other sources only after a run that had failed or had discovered other sources was cut short; a ready index is beside a graph of nothing but the discovered sources; runs end |
| `wasm_slot` | three threads, three installs | flag and queue agree; until one serves, some artifact is queued, held or recorded as failed; the newest is queued, held, serving or recorded as failed unless activations overlap |
| `process_call` | every script of up to three reads, answers and complaints, both exit codes, frames of one or two pieces or too long; ten longer scripts that linger, fork or talk on; capacity 1, request 2, two attempts to spawn, a failed spawn or `try_wait` | no process is left, unless `try_wait` failed; answers are about what the child did; calls return, and a child that ends by itself is answered without the deadline (`CallsAreAnswered`) |
| `authoring` | a package of four faces with a rule, a cut and a record; two requests of any kind, two faults, crashes | requests are all or nothing (the refinement); hand-written lines stay in the tree or the trash; what is left loads |
| `readers` | three saves under three answers of the bridge, or under a Studio session; the two one at a time, since they share nothing but the files | a verdict was true at a moment of its answer and none claims a check that was not made; the snapshot follows the files; neither stays behind, but for the saves under a stamp Studio kept as its own |
| `hosting` | two programs, two packages, two keys, two editions, a request whose text is two lines, two host threads; five budgets of asks, faults, editions, openings and calls | what runs is warranted by its lane, by a line the publisher gave or one that slipped in; a written record is imported; a write that finds the lock as it was read drops no provenance; no replacement is lost; calls of `replace` return |
| `trace` | three workloads: four nested calls; a trace read back; a file under edits and readers | open frames are one path; what is kept is owed; ids name one value for good; an artifact is readable; what Studio shows fits its snapshot |
| `partition` | two crates and their facade, six configs, three manifests, one interruption, one edit by the user | an operation that ends well did all of it from any state; mounted packages stay under the remap; nothing is stranded; the user's things stay in their places and the user's text in the config, a flag with commas in pieces |
| `partition_config` | the same | **violated**: a config with a `[build]` table that has no `rustflags` gets a second `[build]` table, which cargo cannot read, although the comments of `merge_workspace_config` say that what it cannot merge is refused |

### Bounds, and why they are enough

- Registry: batches of two reach every case of a pass (parent before or after its
  child, both in the batch, neither); eleven declarations contain each collision
  `plan_batch` looks for; transactions follow each other without bound.
- Overlay: two cuts are the smallest plan in which one meets the other's result;
  two records, one slot claimed twice.
- Lock: a late takeover needs a judge, a holder and a third process. One poll
  separates the first round from a later one.
- Publish: two runs, because a third only repeats the first after it ended.
  Three contents: old, new and refused. One edit, because no content returns
  (`Reverts` is FALSE, an edit that is undone is a deviation below): a run is of the
  old content, of the new one, or of both. All graphs have one size, so the reader
  is fooled as easily as it can be.
- Slot: of three installs one may be taken alone, overlap with another, and be
  taken alone again; three threads are an installer and two activations.
- Call: two pieces are a frame that can be cut; capacity 1 is the smallest pipe,
  and a request of two does not fit; two attempts are a first and a last.
- Authoring: the second request starts from whatever the first left; two faults
  are a failure and a failure of its undoing. The package has a child below a
  child (a move changes three levels), a rule that admits one kind, hand-written
  lines on an inner face and a leaf, and a cut with its record.
- Readers: a save before, inside and after an answer; contents 0, 1 and 3 load, 2
  does not.
- Hosting: the budgets split what cannot meet in one step. Two asks and an edition
  overlap in one lock; one ask and an opening race; a host that is opened again;
  a host that replaces twice while another thread does. A field with one line end
  makes two lines; more of them make no other kind of line.
- Trace: four calls nest two frames and two scopes in any order; three values are
  one before, inside and after a rolled-back operation; the reader's workload
  needs one frame only.
- Partition: two crates are the smallest plan that stops between two packages;
  the facade is the package no crate directory shows. An interruption of one
  operation and an edit of the user before the next are both there; with two
  interruptions and no edit the properties hold as well.

### Fairness

Weak fairness of each process's or thread's own steps, and of nothing else: the
operating system runs whoever is not killed and not blocked. Nobody has to
install, call, edit, save, start a run or be killed. `Deadline` is fair because
it is a sleep that ends. In `Publish` a refresh or a check that was started
carries on (`Run`); a child of `ProcessCall` goes on with its script but an
orphan never has to exit, and time passes (`Expire`), except for a *patient*
call, which stands for a deadline that is far away. In `PublishLock` time (`Age`)
needs no fairness. In `Readers` the refresh thread carries on and Studio's event
loop comes back to poll (`StudioRuns`); in `Hosting` each thread inside
`replace` does (`Replaces`), and a panic is never fair. `Authoring`, `Tracing` and
`Partition` have safety properties only: their operations are sequential and
stop where they are interrupted.

## What is proved

`tlapm` checks these for every value of the constants, from the assumptions
named in the modules.

**Registry** (`RegistryProofs`): `TypeCorrect`, `UniqueIdentities`,
`FacesLinked`, `HeadersMirror`, `RulesKept`, `InputsStayReachable`, and of steps
`NoFaceIsLost` and `OnlyBelowLeaves`. None of them is inductive by itself: a
commit replaces the live tree by the staged one. `IInv` says that the live *and*
the staged tree are `Sound` (types, unique identities, links, a registry only
where a face is) and that the bookkeeping of the batch is consistent: what is
still to be placed has not been placed, and no two submissions share an identity
(`BatchOK`), and a closed transaction has none (`FlagsOK`). The lemmas show that
each pure edit (`Store`, `TakeEntry`, `ReplaceInfo`, the rebasing of paths) keeps
a sound tree sound; the per-action lemmas only apply them. `RootAssumption` (no
declaration has its root's identity) is needed, and is what a hash gives.
`WholeInv` adds that both trees are `Whole` (`Rooted`: the faces above a face own
registries; `Repeats` and `Spelled`: a header repeats its face, and its path
spells the names from the root; `Obedient`: faces pass the rule above them), that
the connector was satisfied with the live tree, and `LoopOK`: the staged tree grew
from the live one, every snapshot of the batch is pending, waiting, refused or
stored, and in a pass that has placed nothing whatever waits has no registry.
`OnlyBelowLeaves` follows from the last of these at the moment the loop gives up.
`InputsReachable` does not restate the connector's check: the connector reads
paths and gates from headers and finds registries by identity, the property reads
faces, names and gates from the faces. `ConnectedReachable` needs all of `Whole` and
unique identities to get from one to the other.

**Graft overlay** (`RegistryProofs`): `OverlaysAreWellFormed`, for any trees,
plans and records. The invariant is that the staged tree is `Grafted` (linked,
ruled, finite: `WellFormed`) between any two slots of any cut, and that the graft
in hand is a face of the external tree. A full cut makes identities repeat, so
"the face with this identity" is the first one a lookup meets. `LexFirst` shows
that there is a first (a finite set has a first element in a lexical order,
whatever the ranks of the names), and `OrdersAgree` and `TargetIsFace` that the
slot a cut takes is the slot its target is found at, although the two lookups
visit the tree in different orders.
`PathsNest`, `RebaseBelow` and `MovedOwner` are about copied subtrees. Nothing is
asked of the plan. `RegisteredAssumption` is about the two trees: linked and
finite, and an identity names one face and not the root, which is what a
`Registry` leaves (`UniqueIdentities`). A tree that is itself an overlay with
repeated identities is outside the theorems.

`UntouchedSlotsRemain` (`UntouchedRemain`) and `PrecedenceIsHeld`
(`PrecedenceHolds`) say what is in each slot. `CutsInv` compares the staged tree
with the base tree: all that is not below a slot handed over with its subtree
stands, under its name and path (`Standing`), and is untouched unless a cut is
meant for it (`Untouched`); every cut that is left is about declared slots, and
"full" only where a declaration or record is (`Meant`); what a recorded plan has
done is what it says (`Holds`). A cut is resolved in the tree that the earlier
cuts left: `StandingAlike` and `AlikeCovered` show that it covers the same of the
standing slots as in the base tree, ranges included, and `StandingKept` that one
slot disturbs nothing else (`CutChanges`: its own entry, and with "full" what is
below). `FlattenParts`, `FoundWinners`, `SplitParts`, `PlanParts` and
`OccupantPlanned` say what the plan made of declarations and records consists of.
Two hypotheses are stated in the theorems, because no code ensures them, and TLC
refutes `UntouchedRemain` without either, in instances like `MCOverlay` (whose
trees satisfy both):

- `TreesApart`: the external tree has no identity of the base tree. With one, a
  range over a copied subtree finds its end in the base tree and cuts there.
- `PathsDiffer`: a path of the base tree names one entry. An edit in place can
  give two siblings one name; a record's cut is made again from the path of its
  slot, and then reaches the namesake's child.

`UnresolvedRecordsDoNoHarm` needs neither. Both calls take deterministic steps
from the same configuration when no record's graft is found (`NoneFoundPlan`:
the recorded plan *is* the declared one, cut for cut), so that two runs to an
end are the same run (`RunsAgree`, `AnsweredOnce`), tree or refusal.

**Publish lock** (`PublishProofs`): `LockTypeCorrect`, and
`OneWriterPerTree`: if `Slow = FALSE` (no live process holds its file longer
than `STALE_AGE`), then whatever is killed, exits, fails or was left there, as
long as no takeover came late there is one writer and the file is its own. The
invariant adds that an old file belongs to nobody who is writing
(`OldIsNobodys`): without it a nameless file could be judged stale under its
creator. `PublishUsesTheLock` is a refinement: hidden behind the variables of
the lock, the whole pipeline is a behaviour of `PublishLock`, step by step, so
what holds of the lock holds in `Publish`.

**Publish pipeline** (`PublishProofs`): `CurrentIsOfTheseSources` and
`ReadyIsOfTheseSources`, with two provisos and one exception, each needed and each
shown to be by a `.cfg` below: no edit is undone (`Reverts = FALSE`), no holder is
slower than `STALE_AGE` (`Slow = FALSE`), and no takeover came late (`late`).
`PublishInv` says that the texts of the sources do not return (`History`), what a
run knows before it writes and what its checks say of the present text
(`Prepared`), and, of the runs that hold the lock one after the other, that a run
which discovered the present text has made of nothing else what it has written so
far (`Working`): no text returns, so none of its later readings can have met
another. The payload beside a token of the present text is of that text alone and
passes the checks, unless a run is damaging it (`PayloadKept`): one that
had a failed write or had discovered another text, and that is still under way,
was killed, or could not replace or remove the token (`Damaging`). Under a readiness
record the graph is of the present text if the runs that wrote since had discovered
it (`ReadyGraph`).

**Wasm slot** (`PluginProofs`): `SlotQueueKept` and `NoArtifactIsLost`, for any
number of threads and installs. Until one serves, some artifact is queued, in a
thread's hands or recorded as failed. The one installed last is queued, in a
thread's hands, serving or recorded as failed, unless the last take met an
activation under way: with two at a time, results are recorded in another order
than they were stored. The strengthening says where a generation can be: a thread has a
candidate exactly between taking and reporting (`HeldWhileHolding`), a number
that is queued or in hand was handed out and by nobody else (`HandedOut`), and
is not serving yet (`WaitingNotServing`). `OneAtATime` follows a take that was alone
to its end: one candidate, the newest unless a newer one waits (`NewestInHand`),
which serves once it is stored (`StoredServes`).

**Process call** (`PluginProofs`): `CallTypeCorrect`, `NoProcessIsLeft` and
`AnswersStayHonest`, for any scripts, pipes, requests and attempts. The
invariant relates the loop to the child (`PhaseInv`: where the loop is says
whether there is a child to reap), its end (`EndInv`) and the pieces (`WordInv`:
until the reader speaks, what the child wrote is what the reader has and what is
in the pipe; so a frame it announces was written, and a frame it calls cut was
not, and never will be).

**Hosting** (`HostingProofs`): `WhatRunsIsWarranted` and `ReplacementsAreKept`,
for any requests, editions, policies, keys, artifacts, faults and threads. The
core is `FilesInv`: every official line of the lock, of a text a program has in
hand and of a text a fault cuts short is *covered* by a line the publisher gave or
one that slipped in: a line of a broken request, or what a cut left of one. Both
kinds are official lines that "the lock already accounts for" does not stop, and
`WhatRunsIsWarranted` names them; `OfficialIsPublished` says it without them and is
violated (below).
A program writes an official record only when a listed one accounts for it, and
a record that supersedes another carries all that the other carries, so being
covered passes from line to line (`CoveredAccounts`, `SupersedingIsCovered`).
Concatenation and truncation add no lines, and what the publisher gave only
grows. For deployments the mutex gives that the snapshot a thread holds is the
current one (`DeploymentInv`), whether or not an overlay panicked.
`WhatIsWrittenIsImported`: as long as no two writers of one lock overlapped, and no
fault or failed restore cut the entry file or hid it from its writer, nobody touches the entry file between a program's read of it and the moment the
program puts it back (`ImportInv`). `ProvenanceIsKept` is of steps: the text a
program writes is `WithRecord` of the text it read, and that text read as a lock
(`ProvenanceInv`), so the new line of a package supersedes the old one.

**Readers** (`SourceProofs`): `VerdictsHold` and `SnapshotsFollow`. A verdict the
bridge keeps is stamped before the sources are read, so as long as the files have
that stamp, and no save went unseen, the verdict says how they are or is marked
as overtaken (`VerdictInv`). When Studio rests under the stamp of the files, what
it shows is what they hold (`SnapshotInv`). A poll and an edit take
the stamp before they load; the start and an addition take it afterwards, and the
selection of a plugin takes it and loads nothing. `absorbed` excuses the save that
fell in between.

**Authoring** (`SourceProofs`): `HandTextIsKept`, for any source tree, any requests,
failed calls, failed undoing calls, torn writes and crashes: what somebody wrote by
hand is on the disk, in the trash, or was given up when the request began
(`Given`). `SourcesStayTyped` is its type part. The invariant is about the calls
that are still to come, whichever of them run: they are `Harmless` if a write
replaces a line that is kept elsewhere or writes the same line again (`Fits`), and
if a rename finds nothing at its new name, not even after the move before it
(`Clear`). Three plans are not harmless from their start and have a conjunct of
their own: a move and a rename before their first call (`Fresh`), when the
directory's files have other places than the ones the plan names, and a rename
between its two renames (`Halfway`). Any other plan is `Calm` as it begins
(`PlansAreCalm`, one lemma per request), and stays so call by call (`CalmDo`); what
a failure undoes is part of it (`CalmUndo`). A plan lists the files below a
directory with a fold over the set; `ListedLists` proves that the fold lists
exactly them, by the least number of elements for which it would not.
`CarriedKeeps` says that renaming a directory keeps every file, which needs that
nothing is there under the new name. `AuthoringAssumption` leaves out modules that
are called `registry_rule` (see below).

`RequestsAreAtomic` (`AllOrNothing`: `Authoring` implements `AtomicAuthoring`) and
`RequestsLeaveASoundTree` (`LeavesASoundTree`), in `AtomicityProofs`. The invariant,
`TreeInv`, is about what is still to come. While a request works, what is left of
its plan `Carries` the disk on to the tree that was asked for: there is a set of
pairs (calls that are left, disk) that has this pair in it, goes over to the next
pair with the next call, and whose pairs with nothing left are in order and show
`After(tree, r)`; and at each of them a call that fails, or that is followed by the
failure of its flush, either is excused (`late`, `tears`) or `Restores`. That is the
same for the calls of an undoing: a set of pairs that leads back to the files as
they were, text by text. With such a set no step of the executor needs an induction
over the plan (`DoCarries`, `FailRestores`, `UndoRestores`), and what remains is one
set for each of the twelve plans: `CreateCarries` to `RenameCarries`, put together
in `PlanCarries`. For a create, an edit, a change of kind, a delete, a deepen, a
promotion these are a handful of disks written out. A move and a rename have one
disk per child or file that is rewritten; their sets are indexed by how many have
been (`MoveMade`, `RenameMade`, `RewrittenIs`), and the undoing of a rename counts
down again (`RollbackRestores`). The other half is that the last disk shows what
was asked: the registry that `View` reads from the files is, face for face, the one
`AtomicAuthoring` computes from the registry (`MovedFaces`, `RenamedFaces`), and it
loads.

Both have a hypothesis, `Tidy(Start)`: the tree is in order when the session opens,
as the program's own writes leave one (`Authoring`). `Tidy` is part of `TreeInv`: a
request that nothing excuses leaves the tree in order again. TLC evaluates it on
the tree of `MCAuthoring` (`StartIsTidy`). The code checks little of it. Where a
face's parent line is not its directory, a delete of the module the line names
leaves the face dangling (TLC finds it when `c` of that tree names `d`); and where
a file in a module's directory has the name the module is to get, a rename
replaces it and its undoing does not bring it back, so that the files would not be
as they were. The requests that leave an unsound tree with no fault at all are
`Unsound`, and excused; they are among the deviations below.

**Trace** (`TracingProofs`): `OneOpenPath`, `OnlyFailuresCommit`,
`TracesAreReadable`, `MintedOnce` and `LiveEvidenceFits`, for any nodes and
workloads. A rollback truncates three arenas to a mark; what makes it safe is
that every mark that no reset made stale (`MarksInv`) delimits what a rollback
goes back to: the frames that are open lie below it, so do the ends of every
edge below it, and what was owed when it was taken. Ids grow along each arena
(`IdsInv`), so no counter ever returns. `LiveEvidenceFits` needs that a snapshot
is never newer than the tree and that there is one artifact at most.

**Partition** (`PartitionProofs`): `PartitionTypeCorrect` and
`UsersTextIsKept` (`UsersKept`), for any crates, interruptions, edits and
any *number of tools*; and, for one tool (`OneTool`), `WhatIsDoneIsDone`
(`DoneMeansDone`), `MountedUnderTheRemap` (`RemapWhileMounted`) and
`NothingIsStranded` (`NothingStranded`). `PartitionAssumption` says that a config
the user starts with is a file or nothing, and that the manifest lists no
generated package yet. `UsersKept` says what the code keeps, which is less than its
comments say: a flag that holds a comma comes out in pieces, and comments go when
nothing else of the user is in the config (see below). What the user has put at a
package's place survives because the places an operation has
cleared or made (`Taken`) never hold anything of the user (`UserInv`): a package
is made only at a place the same operation has cleared. With one tool, `AtWork`
says what each stage has done for the packages it has passed: on disk, in the
config and in the edit of the member list. `MountedNamed` (a mounted package is
declared, or its crate was taken out half-way or by hand) is what a revert needs
to take out the remap. `StrandInv` says that what shows on the disk or in the
member list is still named by a declaration, and that, while no operation has
changed anything without ending well, a listed crate has its package. With two tools these three fail, see below.

Only model-checked, and why:

- liveness (`LockMovesOn`, `EveryRunEnds`, `CallsAreAnswered`,
  `NobodyStaysBehind`, `EveryReplacementReturns`), which is out of the prover's
  reach.

Every other property of the passing runs is a theorem, where a hypothesis is
needed with the hypothesis.

## Deviations the models show

Each of these was found as a counterexample. `partition_config` is the one kept
as a run. The others are reproduced by a `.cfg` of their own, or by checking the
named property in place of those of the run's `.cfg`.

| Reproduce | What TLC finds, and the line it contradicts |
|---|---|
| `AcceptsWholeBatch` in `MCRegistry.cfg` | a batch with a child below a leaf of the same batch is accepted without the child ("can always make progress and cannot leave `pending` non-empty", `transaction.rs:62-63`) |
| `MCPublishLock_OneWriter.cfg` | two writers with nobody killed: a reader sees pid *p*, *p* drops and exits, a third process creates the file, and the reader, finding *p* dead, removes it ("one writer per tree", `publish_lock.rs:1`) |
| `MCPublish_CurrentIsPublished.cfg` | sources edited inside a run and edited back: token of one content beside a payload made in part of the other (`scope_view.rs:23`) |
| `MCPublish_ReadyDescribesSources.cfg` | an edit inside a run is stamped as read (`index.rs:85`) |
| `GenerationNeverRegresses` in `MCWasmSlot.cfg` | the slower load of the older generation is stored last (`slot_state.rs:61-65`) |
| `FrameOutranksExit` in `MCProcessCall.cfg` | the frame arrives and the child fails between `try_recv` and `try_wait`: the frame is dropped (`process.rs:289-291`) |
| `NoProcessEverLeft` in `MCProcessCall.cfg` | an error of `try_wait` leaves by `?` without a kill ("no call leaves a process behind", `process.rs:293-294`, `:454`) |
| `NoDanglingRule` in `MCAuthoring.cfg` | an edit that gives a face without a registry a rule of its own leaves a source that names a rule module nobody created ("in one filesystem transaction", `operations.rs:302`) |
| `MovesPassTheRule` in `MCAuthoring.cfg` | a move lands below a registry whose rule refuses the face: no registry is asked (`apply.rs:8-11`) |
| `EverySaveIsSeen` in `MCReaders.cfg` | a save between Studio's first load and its first stamp, under an addition, or before a plugin is selected (`mutations.rs:392`, `lifecycle.rs:335`), is never shown (`lifecycle.rs:132`) |
| `OfficialIsPublished` in `MCHosting.cfg` | an official line nobody published is admitted: what a cut after its mode left of a line of ten fields, which reads without its pins (`catalog.rs:255-273`), or the second line that a line end in a field makes (`mcp/plugin.rs:474`) ("an official record is admitted only when the lock already accounts for that package identity", `mcp/plugin.rs:244`) |
| `MCHosting_HostReadsWhatWasWritten.cfg` | two lock files, each with a schema header, are read as one text with two headers and refused (`admission.rs:64`, `catalog.rs:350-351`) |
| `MCTracing_ReadersAgree.cfg` | the trace of a scaffolded host, one frame under the root, is refused by Studio and accepted by the bridge (`mcp/trace.rs:8-9`, `studio/app/trace.rs:242`) |
| `RefusalLeavesTree` in `MCPartition.cfg` | a write refused by the config or the member list has removed the packages, and one refused by the member list has merged the config ("refusal must leave the tree exactly as it found it", `crate_write.rs:81`, `:645`) |
| `FlagsAreKept` in `MCPartition.cfg` | a flag with commas is split and joined again with `", "` ("exactly as they were", `crate_write_tests.rs:222`) |
| `CommentsAreKept` in `MCPartition.cfg` | a revert removes a config that has only comments of the user left ("left with nothing but headers this action added", `crate_write.rs:151-152`; "everything that is not ours", `crate_write_tests.rs:207`) |
| `ManifestStaysReadable` in `MCPartition.cfg` | a member list over several lines without a final comma is continued without one (`crate_members.rs:195-201`) |
| `RemapWhileMounted` in `MCPartition.cfg` with `Crates = {"c1"}`, `Tools = {"t", "u"}` and no faults or edits | there is no lock between the tools: a revert takes out the remap while the other writes |

Seen in the models without a property of their own, and noted under "hazards"
where they bite:

- Registry and overlay: an edit may give a face the stable name of another
  (`graft_ops.rs:113`); a full cut discards what an earlier cut of its plan put
  below (`overlay.rs:247`); full cuts that copy one subtree twice repeat its
  identities (`overlay.rs:258`); without records `overlay_recorded` refuses plans
  `overlay_static` accepts, when a cut addresses what an earlier one brought in
  (`apply.rs:134`).
- Publishing: `Drop` removes any file at the path (`publish_lock.rs:80`); without
  `/proc` a named leftover is honoured for ever (`publish_lock.rs:200`); a write
  that lands while a refresh runs starts none (`index.rs:277`); a refresh that gets no
  lock or cannot touch the token leaves the old one, and its verdict is discarded
  (`index.rs:288`); record and graph are compared by their counts (`index.rs:219`), so
  a graph without rows that could not be written passes where the counts agree; a
  run that discovered older sources and waited for the lock while another published
  writes its payload beside that one's token, until its own end replaces or removes it.
- Plugins: the success of an older activation erases the error of a newer one
  (`slot_state.rs:163`); a call during the first load is told that nothing is
  installed (`lazy_wasm.rs:143`); writers of one lock that overlap lose each other's
  lines; an entry write of the bridge that fails is not put back; a lock cut in
  the middle of a line stays unreadable or loses the pins of that line; a lock that
  cannot be read is taken for an empty one and written over (`mcp/plugin.rs:240`,
  `mutations.rs:289`); a record that gains one provenance column
  may change the value of another (`catalog.rs:500-501`).
- Authoring: a move that fails after its first rewrite only renames the directory
  back; a created file that is torn stays; a rename and a change of kind keep no
  copy of the text they render again; a rename of a nested module with children is
  always rolled back; a move with another name always fails; the lines of
  grandchildren that name the old path stay after a move; a failed
  `retire_record` or move note is not undone; a rename or kind change that also
  changes the rule writes no rule; a file that an interrupted rename left in a
  module directory is replaced, with no copy, when the module is later renamed to
  that file's name (`migration.rs:69`; the proof of `HandTextIsKept` failed there
  until `Given` said so, and three requests show it).
- Trace: `clear` or `set_mode` inside an operation leaves a stale mark (`torn`); the
  `LocalId(0)` given out while the mode is off names the first value recorded
  later (`call_trace.rs:175`); an edge to a value that was rolled back makes the
  whole artifact unreadable (`strayed`); parents that form a cycle pass
  `into_trace` and walks loop (`snapshot.rs:291`), but no program records one; an
  artifact saved after the verdict is noticed with the next snapshot only.
- Partition: undeclaring asks for the crate's own directory, so after an
  interrupted revert facade, member entries and remap may be left with nothing to
  take them back by; a write killed between a package's directory and its manifest
  leaves a directory that every later operation refuses; several subtrees given to
  one declaration are written as one entry each, refused as declared twice and
  rolled back (`mcp/crates.rs:186-214`); a package written while the published
  faces lacked its claim has no remap; the bridge and Studio refuse a revert or an
  undeclaration whose claim is not a directory any more, the command line does
  not.

## Not modelled, and why

Parsing, rendering, hashing, searching and the layout of files are data: a face
is a record, an identity a model value, a content one value. They are most of
the code (the bridge's tools and search, the syntax, the generated text, the
drawing of Studio, the gates), and a model of them would repeat them line by
line; a larger share of mapped lines is not to be had without that. The bridge
protocol and the command line handle one request at a time and reach shared
state only through the modelled operations. Macros run at compile time. The
supervisor is a developer's tool that is not installed.

In the modelled parts: the staging of an executable before the calls; a panic in a refresh thread; reuse of pids; the
text of errors and reports. `Authoring` leaves out families of requests
(`apply_family.rs`), dry runs, and a module called `registry_rule`, whose face file
would be its own rule file. `Hosting` folds framework, version, crate,
checksum and mode of a record into the package's identity, and a catalog is a
snapshot of the two files. `CallTrace` leaves out labels, kinds, source
locations, interning and queries, and its ids do not wrap. `Partition` gives each
crate one subtree and one remap for all, fixes the order of the crates, and
leaves out reachability, the refusal of a host without a library, a remap the user
keeps outside `[build]` and the text of the packages. `PluginLock` leaves out fields
with more than one line end and requests that break into two lines of one identity.

## Plan

Done, most important behaviour first: the tree and its overlay, the lock and the
pipeline, the slot and the call; then authoring with its abstract specification,
the readers of the files, hosting, tracing, and the partition.

Worth adding: families of requests as a plan of plans over `Authoring`; two tools
in `Partition` with the lock the code has not got, as a proposal.

Theorems worth proving next: that a family of requests is all or nothing once it is
modelled (`PlanCarries` is the step), and that two tools of a partition with a lock
keep what one tool keeps.
