------------------------------ MODULE Sources ------------------------------
(* The source files of a package as those see them who come back to look:    *)
(* a content, and the stamp a walk of the directory entries takes of it.     *)
EXTENDS Naturals

CONSTANTS
  MaxSaves,    \* bound: how often a file is saved
  Loadable     \* the contents whose registration faces register

Contents == 0..MaxSaves
ASSUME SourcesAssumption == MaxSaves \in Nat /\ Loadable \subseteq Contents

VARIABLES
  source,      \* what the files say; every save says something new
  mtime        \* source_stamp: how many files, and the newest modification time
sourceVars == <<source, mtime>>

SourcesInit == source = 0 /\ mtime = 0

\* A save, of the editor or of the bridge; copying with the old times, or a
\* save within the clock's grain, leaves the stamp.
Save == source < MaxSaves /\ source' = source + 1 /\ mtime' = mtime + 1
SaveUnseen == source < MaxSaves /\ source' = source + 1 /\ UNCHANGED mtime
=============================================================================
