--------------------------- MODULE MCProcessCall ---------------------------
(* Every child of up to three steps that reads, answers and complains in any *)
(* order, with a frame of one or two pieces or one that is too long, and     *)
(* both exit codes; children that linger or leave a process behind, or talk  *)
(* on; pipes that hold one piece, a request of two.                          *)
EXTENDS ProcessCall, SequencesExt

Play(steps, frame, code) == [steps |-> steps, frame |-> frame, code |-> code]
MCScripts ==
  [steps: BoundedSeq({"in", "out", "err"}, 3), code: {0, 1}, frame: {1, 2, Over}]
  \cup
  {Play(<<"in", "in", "in", "out", "out">>, 2, 0), Play(<<"out", "err", "out", "out", "in">>, 1, 1),
   Play(<<"err", "err", "err", "out", "err">>, 1, 0),
   Play(<<"out", "linger">>, 1, 0), Play(<<"out", "linger">>, 2, 0), Play(<<"linger">>, 1, 0),
   Play(<<"fork", "out", "out">>, 2, 0), Play(<<"fork", "err">>, 1, 1), Play(<<"fork", "out">>, 2, 0),
   Play(<<"fork", "out", "linger">>, 2, 0)}
=============================================================================
