--------------------------- MODULE WorkspaceFiles ---------------------------
(* The two files of the user that a partition edits, .cargo/config.toml and  *)
(* the workspace's Cargo.toml, as text the program reads line by line:       *)
(* toolchain/src/build_method/src/{crate_write,crate_members}.rs. A value is *)
(* what those readers and cargo tell apart.                                  *)
EXTENDS Naturals, FiniteSets

CONSTANT Packages   \* the generated packages a member entry can name

-----------------------------------------------------------------------------
(* The config: its [build] tables (2: two or more), how rustflags is         *)
(* written, whether the remap is in it, the flags the user has there, and    *)
(* whether it has comments and other lines of the user. "commas" is a flag   *)
(* with a comma in it. The remap stands in the array or nowhere.             *)
Config == [file : BOOLEAN, tables : 0..2, flags : {"none", "line", "other"}, remap : BOOLEAN,
           theirs : {"none", "plain", "commas", "split"}, comments : BOOLEAN, keeps : BOOLEAN]
NoConfig == [file |-> FALSE, tables |-> 0, flags |-> "none", remap |-> FALSE,
             theirs |-> "none", comments |-> FALSE, keeps |-> FALSE]
OwnConfig == [NoConfig EXCEPT !.file = TRUE, !.tables = 1, !.flags = "line"]

\* Both rewrites of the array split it at every comma and join it again.
Rejoined(theirs) == IF theirs = "commas" THEN "split" ELSE theirs

\* merge_workspace_config, for a plan that wants a remap or has none.
MergeRefused(c, wanted) == c.file /\ wanted /\ ~c.remap /\ c.flags = "other"
Merged(c, wanted) ==
  IF ~c.file THEN [OwnConfig EXCEPT !.remap = wanted]
  ELSE IF ~wanted \/ c.remap THEN c
  ELSE IF c.flags = "line" THEN [c EXCEPT !.remap = TRUE, !.theirs = Rejoined(@)]
  \* A table is appended, beside one without rustflags too.
  ELSE [c EXCEPT !.tables = IF @ = 0 THEN 1 ELSE 2,
                     !.flags = "line", !.remap = TRUE]

\* strip_workspace_config: an empty array goes, its table stays, and a file
\* with nothing but comments in it otherwise is removed.
StripRefused(c, wanted) == wanted /\ c.remap /\ c.flags = "other"
Stripped(c, wanted) ==
  IF ~wanted \/ ~c.remap THEN c
  ELSE IF c.theirs # "none" THEN [c EXCEPT !.remap = FALSE, !.theirs = Rejoined(@)]
  ELSE IF c.keeps THEN [c EXCEPT !.remap = FALSE, !.flags = "none"]
  ELSE NoConfig

-----------------------------------------------------------------------------
(* The member list: the entries it names, how it is written ("ragged": one   *)
(* item a line and no comma after the last; "other": not quoted strings),    *)
(* and the entry that a merge left without a comma before it.                *)
Manifest == [listed : SUBSET Packages, shape : {"list", "ragged", "other"}, glued : SUBSET Packages]

\* members_edit: no edit, or one. A missing entry is one no line contains.
Adding(m, dirs) ==
  LET missing == dirs \ m.listed
  IN IF missing = {} THEN {}
     ELSE {[listed |-> m.listed \cup dirs, shape |-> "list",
            glued |-> m.glued \cup IF m.shape = "ragged" THEN {CHOOSE d \in missing : TRUE} ELSE {}]}
AddRefused(m, dirs) == ~dirs \subseteq m.listed /\ m.shape = "other"
\* A glued entry is read as one item with the one before it.
Removing(m, dirs) ==
  LET found == (m.listed \ m.glued) \cap dirs
  IN IF found = {} THEN {}
     ELSE {[m EXCEPT !.listed = @ \ found, !.shape = "list"]}
RemoveRefused(m) == m.shape = "other"
=============================================================================
