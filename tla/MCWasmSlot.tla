----------------------------- MODULE MCWasmSlot -----------------------------
(* Interchangeable threads over one slot; the safety runs use the symmetry.  *)
EXTENDS WasmSlot, TLC
CONSTANTS t1, t2, t3
TwoThreads == {t1, t2}
ThreeThreads == {t1, t2, t3}
Interchangeable == Permutations(ThreeThreads)
=============================================================================
