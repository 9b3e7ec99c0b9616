------------------------------ MODULE Partition ------------------------------
(* The crates a host's declaration splits off, written and taken back:       *)
(* toolchain/src/build_method/src/{crate_write,partition_view,shape_decl}.rs *)
(* and their three front ends (cli/src/commands/crates.rs, mcp/src/crates.rs,*)
(* studio/.../app/partition.rs). A tool may fail or be killed at every file; *)
(* the user edits between two operations. A claim is the one subtree of its  *)
(* crate; fragments are self-contained and the host has a library.           *)
EXTENDS WorkspaceFiles, Sequences

CONSTANTS
  Crates, Facade,   \* the crates a declaration can name, and the facade's package
  Tools,            \* the programs at work on the project
  Configs, Manifests,   \* the files of the user an episode may start with
  MaxFaults, MaxEdits   \* bounds: interruptions, and edits by the user

ASSUME PartitionAssumption ==
  /\ Packages = Crates \cup {Facade} /\ Facade \notin Crates
  /\ Configs \subseteq Config /\ Manifests \subseteq Manifest
  /\ \A c \in Configs : c.file \/ c = NoConfig
  /\ \A m \in Manifests : m.listed = {}   \* nothing is declared yet
  /\ MaxFaults \in Nat /\ MaxEdits \in Nat

VARIABLES
  declared,    \* the crates add_crates.rs names; {}: there is no such file
  sources,     \* the claims that are a directory of the host's src
  faces,       \* the claims the last build published faces below
  disk, whole, \* what is at a package's place, and the packages with all their files
  config, manifest, workspace,   \* the workspace's two files, if there is a workspace
  work,        \* what each tool is in the middle of
  last,        \* the operation that ended well, until something else happens
  faults, edits,
  theirs,      \* places the user has put something of their own at
  mounted,     \* packages written by a plan that knew faces to mount
  halfway,     \* an operation stopped after it had changed something
  lost         \* crates taken out of the declaration then, or by hand
files == <<disk, whole, config, manifest, declared>>
ghosts == <<theirs, mounted, halfway, lost>>
outside == <<sources, faces, workspace, edits, theirs>>
partitionVars == <<files, sources, faces, workspace, work, last, faults, edits, ghosts>>

\* "folder": a directory with no marker and no manifest; "package": somebody's
\* own; "bare": a generated one that has lost its manifest and kept its lib.rs.
Marked == {"bare", "development", "release"}
WithManifest == {"package", "development", "release"}
Idle == [do |-> "nothing"]
Nobody == [do |-> "nothing", dirs |-> {}, remap |-> FALSE]

PartitionInit ==
  /\ declared = {} /\ sources = Crates /\ faces = Crates
  /\ disk = [p \in Packages |-> "absent"] /\ whole = {}
  /\ config \in Configs /\ manifest \in Manifests /\ workspace \in BOOLEAN
  /\ work = [t \in Tools |-> Idle] /\ last = Nobody
  /\ faults = 0 /\ edits = 0
  /\ theirs = {} /\ mounted = {} /\ halfway = FALSE /\ lost = {}

-----------------------------------------------------------------------------
(* Planning, which changes nothing.                                          *)

\* plan_crates refuses a claim without faces only when no claim is a module.
PlanRefused(named) == named \cap sources = {} /\ ~named \subseteq faces
\* partition_view::plan plans the release packages too, whatever is asked for.
ViewRefused(named) == PlanRefused(named) \/ ~named \subseteq sources
Planned(front, do) ==
  /\ declared # {}
  /\ IF front = "cli" /\ do # "release" THEN ~PlanRefused(declared) ELSE ~ViewRefused(declared)
Targets == declared \cup {Facade}
\* guard_shape: the command line leaves the facade out of a development write.
Guarded(front, do) == IF front = "cli" /\ do = "write" THEN declared ELSE Targets
GuardPasses(front, do) ==
  do = "revert" \/ \A p \in Guarded(front, do) :
                     disk[p] \in WithManifest => ((disk[p] = "release") = (do = "release"))

\* The order of an operation's stages.
\* Mutant: the remap is taken out before the packages are.
StagesStripFirst(do) ==
  CASE do = "write"   -> <<"clear", "config", "members", "make", "save">>
    [] do = "release" -> <<"clear", "members", "make", "save">>
    [] do = "revert"  -> <<"members", "config", "clear", "save">>
Stages(do) ==
  CASE do = "write"   -> <<"clear", "config", "members", "make", "save">>
    [] do = "release" -> <<"clear", "members", "make", "save">>
    [] do = "revert"  -> <<"members", "clear", "config", "save">>

-----------------------------------------------------------------------------
(* One operation of a front end: write, write --release or --revert.         *)

Begin(t, front, do) ==
  /\ work[t] = Idle /\ Planned(front, do) /\ GuardPasses(front, do)
  /\ work' = [work EXCEPT ![t] =
       [do |-> do, dirs |-> Targets, remap |-> declared \cap faces # {}, left |-> Stages(do),
        todo |-> Targets, file |-> "directory", edit |-> {}, changed |-> FALSE]]
  /\ last' = Nobody
  /\ UNCHANGED <<files, outside, faults, mounted, halfway, lost>>

Working(t, stage) == work[t].do \in {"write", "release", "revert"} /\ Head(work[t].left) = stage
\* The planned crates in their order, then the facade.
FirstOf(todo) == IF todo = {Facade} THEN Facade ELSE CHOOSE p \in todo \ {Facade} : TRUE
StagePassed(w) == [w EXCEPT !.left = Tail(@), !.todo = w.dirs]
Did(t, p) ==
  LET w == [work[t] EXCEPT !.todo = @ \ {p}, !.file = "directory", !.changed = TRUE]
  IN work' = [work EXCEPT ![t] = IF w.todo = {} THEN StagePassed(w) ELSE w]
\* An operation that stops early has stopped half-way if it had changed anything.
GivesUp(t) ==
  /\ work' = [work EXCEPT ![t] = Idle]
  /\ halfway' = (halfway \/ (work[t].do # "judge" /\ work[t].changed))

\* clear_generated.
ClearRefuses(t) ==
  /\ Working(t, "clear") /\ disk[FirstOf(work[t].todo)] \in {"folder", "package"}
  /\ GivesUp(t) /\ UNCHANGED <<files, outside, last, faults, mounted, lost>>
\* Mutant: whatever is there is removed.
ClearAnything(t) ==
  /\ Working(t, "clear")
  /\ LET p == FirstOf(work[t].todo)
     IN /\ disk' = [disk EXCEPT ![p] = "absent"]
        /\ whole' = whole \ {p} /\ mounted' = mounted \ {p} /\ Did(t, p)
  /\ UNCHANGED <<config, manifest, declared, outside, last, faults, halfway, lost>>
Clear(t) ==
  /\ Working(t, "clear")
  /\ LET p == FirstOf(work[t].todo)
     IN /\ disk[p] \in Marked \cup {"absent"} /\ disk' = [disk EXCEPT ![p] = "absent"]
        /\ whole' = whole \ {p} /\ mounted' = mounted \ {p}
        /\ IF disk[p] # "absent" THEN Did(t, p)
           ELSE LET w == [work[t] EXCEPT !.todo = @ \ {p}]
                IN work' = [work EXCEPT ![t] = IF w.todo = {} THEN StagePassed(w) ELSE w]
  /\ UNCHANGED <<config, manifest, declared, outside, last, faults, halfway, lost>>

MergeConfig(t) ==
  /\ Working(t, "config") /\ work[t].do = "write"
  /\ IF MergeRefused(config, work[t].remap) THEN GivesUp(t) /\ UNCHANGED config
     ELSE /\ config' = Merged(config, work[t].remap)
          /\ work' = [work EXCEPT ![t] =
               [StagePassed(work[t]) EXCEPT !.changed = @ \/ config' # config]]
          /\ UNCHANGED halfway
  /\ UNCHANGED <<disk, whole, manifest, declared, outside, last, faults, mounted, lost>>
StripConfig(t) ==
  /\ Working(t, "config") /\ work[t].do = "revert"
  /\ IF StripRefused(config, work[t].remap) THEN GivesUp(t) /\ UNCHANGED config
     ELSE /\ config' = Stripped(config, work[t].remap)
          /\ work' = [work EXCEPT ![t] =
               [StagePassed(work[t]) EXCEPT !.changed = @ \/ config' # config]]
          /\ UNCHANGED halfway
  /\ UNCHANGED <<disk, whole, manifest, declared, outside, last, faults, mounted, lost>>

\* members_edit is computed from the text of this moment and saved at the end.
\* Mutant: the facade is not listed.
EditWithoutFacade(m, w) ==
  IF w.do = "revert" THEN Removing(m, w.dirs) ELSE Adding(m, w.dirs \ {Facade})
EditFor(m, w) == IF w.do = "revert" THEN Removing(m, w.dirs) ELSE Adding(m, w.dirs)
EditRefused(m, w) == IF w.do = "revert" THEN RemoveRefused(m) ELSE AddRefused(m, w.dirs)
ComputeMembers(t) ==
  /\ Working(t, "members")
  /\ IF workspace /\ EditRefused(manifest, work[t]) THEN GivesUp(t)
     ELSE /\ work' = [work EXCEPT ![t] =
               [StagePassed(@) EXCEPT !.edit = IF workspace THEN EditFor(manifest, work[t])
                                               ELSE {}]]
          /\ UNCHANGED halfway
  /\ UNCHANGED <<files, outside, last, faults, mounted, lost>>

\* write_ghost_file: the directory, the manifest, then the other files (and
\* the copies of a release package).
Make(t) ==
  /\ Working(t, "make")
  /\ LET p == FirstOf(work[t].todo)
         shape == IF work[t].do = "write" THEN "development" ELSE "release"
     IN \/ /\ work[t].file = "directory"
           /\ disk' = [disk EXCEPT ![p] = IF @ = "absent" THEN "folder" ELSE @]
           /\ work' = [work EXCEPT ![t] = [@ EXCEPT !.file = "manifest", !.changed = TRUE]]
           /\ UNCHANGED <<whole, mounted>>
        \/ /\ work[t].file = "manifest"
           /\ disk' = [disk EXCEPT ![p] = shape]
           /\ work' = [work EXCEPT ![t] = [@ EXCEPT !.file = "rest"]]
           /\ UNCHANGED <<whole, mounted>>
        \/ /\ work[t].file = "rest"
           /\ disk' = [disk EXCEPT ![p] = IF @ \in {"absent", "folder"} THEN "bare" ELSE @]
           /\ whole' = IF disk[p] = shape THEN whole \cup {p} ELSE whole
           /\ mounted' = IF shape = "development" /\ work[t].remap
                          THEN mounted \cup ({p} \ {Facade}) ELSE mounted
           /\ Did(t, p)
  /\ UNCHANGED <<config, manifest, declared, outside, last, faults, halfway, lost>>

SaveMembers(t) ==
  /\ Working(t, "save")
  /\ manifest' = IF work[t].edit = {} THEN manifest ELSE CHOOSE m \in work[t].edit : TRUE
  /\ last' = [do |-> work[t].do, dirs |-> work[t].dirs, remap |-> work[t].remap]
  /\ work' = [work EXCEPT ![t] = Idle] /\ halfway' = FALSE
  /\ UNCHANGED <<disk, whole, config, declared, outside, faults, mounted, lost>>

\* A call fails or the tool is killed before its next file.
Stop(t) ==
  /\ work[t] # Idle /\ faults < MaxFaults /\ faults' = faults + 1
  /\ GivesUp(t) /\ UNCHANGED <<files, outside, last, mounted, lost>>
\* remove_dir_all stops with some of the files gone.
StopRemoving(t) ==
  /\ Working(t, "clear") /\ faults < MaxFaults /\ faults' = faults + 1
  /\ LET p == FirstOf(work[t].todo)
     IN /\ disk[p] \in Marked
        /\ \E rest \in {disk[p], "folder"} \cup (IF p \in whole THEN {"bare"} ELSE {}) :
             disk' = [disk EXCEPT ![p] = rest]
        /\ whole' = whole \ {p}
  /\ work' = [work EXCEPT ![t] = Idle] /\ halfway' = TRUE
  /\ UNCHANGED <<config, manifest, declared, outside, last, mounted, lost>>

-----------------------------------------------------------------------------
(* The declaration: an edit is written, and put back if no plan follows.     *)

Edited(t, named) ==
  /\ declared' = named
  /\ work' = [work EXCEPT ![t] = [do |-> "judge", before |-> declared]]
  /\ last' = Nobody
  /\ UNCHANGED <<disk, whole, config, manifest, outside, faults, mounted, halfway>>
Declare(t, n) ==
  /\ work[t] = Idle /\ n \notin declared
  /\ Edited(t, declared \cup {n}) /\ UNCHANGED lost
\* package_directory_of: a crate whose package is there is not undeclared.
\* Mutant: its package is not looked at.
GoneAnyway(n) == ~ViewRefused(declared)
Gone(n) == ~ViewRefused(declared) /\ disk[n] = "absent"
Undeclare(t, n) ==
  /\ work[t] = Idle /\ n \in declared /\ Gone(n)
  /\ Edited(t, declared \ {n})
  /\ lost' = IF halfway THEN lost \cup {n} ELSE lost
Judge(t) ==
  /\ work[t].do = "judge" /\ work' = [work EXCEPT ![t] = Idle]
  /\ declared' = IF declared # {} /\ ViewRefused(declared) THEN work[t].before ELSE declared
  /\ UNCHANGED <<disk, whole, config, manifest, outside, last, faults, ghosts>>

-----------------------------------------------------------------------------
(* The user, between two operations.                                         *)

Edits ==
  /\ \A t \in Tools : work[t] = Idle
  /\ edits < MaxEdits /\ edits' = edits + 1 /\ last' = Nobody
  /\ UNCHANGED <<work, whole, workspace, faces, faults, mounted, halfway>>
Occupy(p) ==
  /\ Edits /\ disk[p] = "absent" /\ theirs' = theirs \cup {p}
  /\ \E own \in {"folder", "package"} : disk' = [disk EXCEPT ![p] = own]
  /\ UNCHANGED <<config, manifest, declared, sources, lost>>
\* The way forward the refusal names: a leftover is removed by hand.
Tidy(p) ==
  /\ Edits /\ disk[p] \in {"folder", "package"}
  /\ disk' = [disk EXCEPT ![p] = "absent"] /\ theirs' = theirs \ {p}
  /\ UNCHANGED <<config, manifest, declared, sources, lost>>
Reformat ==
  /\ Edits
  /\ \/ /\ \E shape \in {m.shape : m \in Manifests} \ {manifest.shape} :
             manifest' = [manifest EXCEPT !.shape = shape]
        /\ UNCHANGED config
     \/ config.flags = "line" /\ config' = [config EXCEPT !.flags = "other"] /\ UNCHANGED manifest
  /\ UNCHANGED <<disk, declared, theirs, sources, lost>>
MoveSources ==
  /\ Edits /\ sources' \in SUBSET Crates /\ sources' # sources
  /\ UNCHANGED <<disk, config, manifest, declared, theirs, lost>>
HandEdit ==
  /\ Edits /\ declared' \in SUBSET Crates /\ declared' # declared
  /\ lost' = lost \cup (declared \ declared')
  /\ UNCHANGED <<disk, config, manifest, theirs, sources>>
\* A build publishes the faces it finds.
Build == faces # sources /\ faces' = sources
         /\ UNCHANGED <<files, sources, workspace, work, last, faults, edits, ghosts>>

PartitionNext ==
  \/ \E t \in Tools :
       \/ \E front \in {"cli", "view"}, do \in {"write", "release", "revert"} : Begin(t, front, do)
       \/ ClearRefuses(t) \/ Clear(t) \/ MergeConfig(t) \/ StripConfig(t) \/ ComputeMembers(t)
       \/ Make(t) \/ SaveMembers(t) \/ Stop(t) \/ StopRemoving(t)
       \/ \E n \in Crates : Declare(t, n) \/ Undeclare(t, n)
       \/ Judge(t)
  \/ \E p \in Packages : Occupy(p) \/ Tidy(p)
  \/ Reformat \/ MoveSources \/ HandEdit \/ Build

PartitionSpec == PartitionInit /\ [][PartitionNext]_partitionVars

-----------------------------------------------------------------------------
(* Properties.                                                               *)

\* What a tool may be in the middle of, and where: the types of a partition.
Operations == {"write", "release", "revert"}
Plans == [do : Operations, dirs : SUBSET Packages, remap : BOOLEAN,
          left : Seq({"clear", "config", "members", "make", "save"}),
          todo : (SUBSET Packages) \ {{}}, file : {"directory", "manifest", "rest"},
          edit : SUBSET Manifest, changed : BOOLEAN]
Rulings == [do : {"judge"}, before : SUBSET Crates]
PartitionTypeOK ==
  /\ declared \subseteq Crates /\ sources \subseteq Crates /\ faces \subseteq Crates
  /\ disk \in [Packages -> Marked \cup WithManifest \cup {"absent", "folder"}]
  /\ whole \subseteq Packages /\ config \in Config /\ manifest \in Manifest /\ workspace \in BOOLEAN
  /\ work \in [Tools -> {Idle} \cup Rulings \cup Plans]
  /\ last \in [do : Operations \cup {"nothing"}, dirs : SUBSET Packages, remap : BOOLEAN]
  /\ faults \in 0..MaxFaults /\ edits \in 0..MaxEdits
  /\ theirs \subseteq Packages /\ mounted \subseteq Crates
  /\ halfway \in BOOLEAN /\ lost \subseteq Crates

\* An operation that ended well did all of it, whatever was on disk before and
\* whatever an earlier one left: every package of the plan is there with all
\* its files, listed and under the remap, or none of that is (write_partition,
\* write_release, revert_partition).
DoneMeansDone ==
  /\ last.do \in {"write", "release"} =>
       \A p \in last.dirs : /\ disk[p] = (IF last.do = "write" THEN "development" ELSE "release")
                            /\ p \in whole /\ (workspace => p \in manifest.listed)
  /\ last.do = "write" /\ last.remap => config.remap
  /\ last.do = "revert" =>
       /\ \A p \in last.dirs :
            disk[p] = "absent" /\ (workspace => p \notin manifest.listed \ manifest.glued)
       /\ last.remap => ~config.remap

\* A package that mounts the host's files is on disk only while the remap that
\* keeps their identities is in the config, at every interruption too
\* (crate_write.rs: the config comes first on the way in and last on the way
\* out), unless its crate was taken out of the declaration half-way or by hand.
RemapWhileMounted == \A p \in mounted \ lost : disk[p] = "development" => config.remap

\* What the tools have put on disk or into the member list is named by the
\* declaration, which is all a revert can take back by: a crate is undeclared
\* only when nothing of it is left, unless an operation has stopped half-way or
\* the user edits the declaration by hand (crates.rs, partition_view.rs).
NothingStranded ==
  LET named == declared \cup lost
      taken == IF named = {} THEN {} ELSE named \cup {Facade}
  IN \A p \in Packages :
       disk[p] \in Marked \/ p \in manifest.listed \ manifest.glued => p \in taken

\* What the code does to the text of a user all the same: a flag with a comma
\* comes out of the array as two halves of one, spaced, and a file that has
\* nothing of the user but comments goes with the remap.
SplitsFlags(old, new) == old.theirs = "commas" /\ new.theirs = "split"
HasOnlyComments(old) == old.theirs = "none" /\ ~old.keeps
\* No tool removes or overwrites what the user has put at a package's place, and
\* "everything that is not ours" (crate_write_tests.rs:207) stays in the config
\* as it is, each flag, comment and line of the user, over any number of merges
\* and strips, but for these two (clear_generated, strip_workspace_config).
UsersKept ==
  [][/\ \A p \in theirs \cap theirs' : disk'[p] = disk[p]
     /\ config'.theirs = config.theirs \/ SplitsFlags(config, config')
     /\ config.comments => config'.comments \/ HasOnlyComments(config)
     /\ config.keeps => config'.keeps]_partitionVars

\* What the comments of merge_workspace_config say: a config it cannot merge
\* into is refused, so the user's file still reads as TOML.
ConfigStaysReadable == config.tables <= 1

\* What the comments of write_partition say: a refusal leaves the tree exactly
\* as it found it.
RefusalLeavesTree == halfway => faults > 0

\* The same for the manifest of the workspace, whose list may end without a comma.
ManifestStaysReadable == manifest.glued = {}

\* The test of strip_workspace_config: the maintainer's own flags are exactly
\* as they were.
FlagsAreKept == config.theirs # "split"

\* "The config keeps everything that is not ours" (the same test): comments too.
CommentsAreKept == [][config.comments => config'.comments]_partitionVars
=============================================================================
