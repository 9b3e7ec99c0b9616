--------------------------- MODULE MCPublishLock ---------------------------
(* Three processes that publish one tree; they are interchangeable, and the  *)
(* runs that check only safety use that.                                     *)
EXTENDS PublishLock, TLC
CONSTANTS r1, r2, r3
MCRuns == {r1, r2, r3}
Interchangeable == Permutations(MCRuns)
=============================================================================
