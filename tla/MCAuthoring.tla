---------------------------- MODULE MCAuthoring ----------------------------
(* A session on a small package: a registry a, a registry b with a rule of   *)
(* its own in it, a leaf c under b, and a registry d the entry hands over    *)
(* to an external implementation a record selects.                           *)
EXTENDS Authoring

Dirs == [a |-> <<"a">>, b |-> <<"a", "b">>, c |-> <<"a", "b", "c">>, d |-> <<"d">>]
Owner(parent) == Face("k1", parent, TRUE, "ANY")
MCStart ==
     FaceFile(Dirs.a) :> Owner(<<>>) @@ RuleFile(Dirs.a) :> RuleText("ANY")
  @@ FaceFile(Dirs.b) :> [Owner(Dirs.a) EXCEPT !.hand = "on b"] @@ RuleFile(Dirs.b) :> RuleText("strict")
  @@ FaceFile(Dirs.c) :> [Face("k1", Dirs.b, FALSE, "ANY") EXCEPT !.hand = "on c"]
  @@ FaceFile(Dirs.d) :> Owner(<<>>) @@ RuleFile(Dirs.d) :> RuleText("ANY")
  @@ Entry :> EntryText({[cut |-> Dirs.d, graft |-> "external"]})
  @@ Record :> [is |-> "record", slot |-> Dirs.d]
\* The session's proofs (SourceProofs) start from a tree in order.
ASSUME StartIsTidy == Tidy(Start)
=============================================================================
