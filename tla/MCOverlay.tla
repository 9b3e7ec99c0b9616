------------------------------ MODULE MCOverlay ------------------------------
(* A base tree of three slots in a row, one of which owns two more, beside   *)
(* external trees whose faces may or may not take their place.               *)
EXTENDS Overlay

Plain(id, parent, name) ==
    [id |-> id, parent |-> parent, namespace |-> "lib", kind |-> "Item",
     name |-> name, stable |-> NoStable, needs |-> FALSE,
     rule |-> {}, features |-> {"paint"}, sound |-> TRUE, replaces |-> FALSE,
     flow |-> "f", admission |-> AdmitsAll, requires |-> {}, provides |-> {}]

Build(root, faces) ==
    FoldLeft(LAMBDA t, face : Submit(t, face), EmptyRoot("fw", root, "lib"), faces)

PanelA == [Plain(1, 0, "a") EXCEPT !.needs = TRUE]
PanelB == [Plain(2, 0, "b") EXCEPT !.needs = TRUE, !.rule = {"paint"}]
Pin == Plain(3, 1, "pin")
Knob == Plain(4, 2, "a")
Base == Build(0, <<PanelA, PanelB, Pin, Knob>>)
BaseNeedy == Build(0, <<PanelA, [PanelB EXCEPT !.needs = FALSE],
                       [Pin EXCEPT !.requires = {<<"ink", "Fast">>}]>>)

Out(id, parent, name, kind) == [Plain(id, parent, name) EXCEPT !.namespace = "graft", !.kind = kind]
Fast == [Out(6, 5, "fast", "Fast") EXCEPT !.needs = TRUE, !.provides = {"ink"}]
FastPin == [Out(7, 6, "pin", "Item") EXCEPT !.needs = TRUE]
FastTip == Out(8, 7, "tip", "Item")
Bare == [Out(9, 5, "bare", "Bare") EXCEPT !.features = {}]
Other == [Out(10, 5, "other", "Other") EXCEPT !.flow = "g"]
Strict == [Out(11, 5, "strict", "Strict") EXCEPT !.needs = TRUE, !.rule = {"glass"}]
External == Build(5, <<Fast, FastPin, FastTip, Bare, Other, Strict>>)

Id(n) == <<"id", n>>
Path(p) == <<"path", p>>
Word(w) == <<"word", w>>
One(cut, with, full) == [cut |-> cut, end |-> NoEnd, graft |-> with, full |-> full]
Sweep(cut, end, with, full) == [cut |-> cut, end |-> end, graft |-> with, full |-> full]
MCDeclarations ==
    {One(Path(<<"a">>), Word("Fast"), TRUE), One(Id(1), Id(6), FALSE),
     One(Path(<<"a", "pin">>), Word("Bare"), FALSE), One(Id(3), Id(6), FALSE),
     One(Path(<<"b">>), Word("Strict"), FALSE), One(Path(<<"b", "a">>), Word("Other"), FALSE),
     One(Id(2), Id(9), TRUE), One(Id(4), Id(9), FALSE), One(Path(<<"a", "pin", "tip">>), Word("Bare"), FALSE),
     Sweep(Path(<<"a">>), Path(<<"b">>), Word("Fast"), TRUE),
     Sweep(Path(<<"a">>), Path(<<"b">>), Word("Item"), FALSE),
     Sweep(Path(<<"b">>), Path(<<"a">>), Word("Fast"), FALSE)}
Found(target, path, with, full) ==
    [dir |-> Word(with), target |-> target, path |-> path, graft |-> Word(with), full |-> full]
MCRecords ==
    {Found(1, <<"a">>, "Fast", TRUE), Found(2, <<"b">>, "Bare", TRUE),
     Found(12, <<"b">>, "fast", FALSE), Found(3, <<"b">>, "strict", FALSE),
     Found(12, <<"tip">>, "other", FALSE), Found(3, <<"a", "pin">>, "Item", FALSE),
     \* A plan edited to another graft, and one in a renamed directory.
     [Found(1, <<"a">>, "Bare", TRUE) EXCEPT !.dir = Word("Fast")],
     [Found(3, <<"a", "pin">>, "Item", FALSE) EXCEPT !.dir = Word("pin")]}
Ranks == [n \in Names |-> CASE n = "a" -> 1 [] n = "b" -> 2 [] n = "bare" -> 3
            [] n = "fast" -> 4 [] n = "other" -> 5 [] n = "pin" -> 6 [] n = "strict" -> 7
            [] OTHER -> 8]
MCBases == {Base, BaseNeedy}
MCExternals == {External}
=============================================================================
