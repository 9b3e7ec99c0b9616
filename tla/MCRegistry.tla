------------------------------ MODULE MCRegistry ------------------------------
(* A library of declarations small enough for TLC: a shelf that owns a     *)
(* registry, a box in it that owns another, faces that need the shelf, and *)
(* the declarations that collide with them.                                *)
EXTENDS Registry

Plain(id, parent, name) ==
    [id |-> id, parent |-> parent, namespace |-> "lib", kind |-> "Item",
     name |-> name, stable |-> NoStable, needs |-> FALSE,
     rule |-> {}, features |-> {}, sound |-> TRUE, replaces |-> FALSE,
     flow |-> NoFlow, admission |-> AdmitsAll, requires |-> {}, provides |-> {}]

\* Identities are hashes, so a parent may well order after its child.
Shelf == [Plain(5, 0, "shelf") EXCEPT !.needs = TRUE, !.kind = "Owner",
                                      !.provides = {"ink"}]
Box == [Plain(2, 5, "box") EXCEPT !.needs = TRUE, !.features = {"paint"}]
Pin == [Plain(3, 2, "pin") EXCEPT !.requires = {<<"ink", "Owner">>}]
Tile == [Plain(4, 5, "tile") EXCEPT !.stable = "tile"]
\* Its parent, the tile, declares no registry.
Stray == Plain(1, 4, "pin")
\* A second provider, under the shelf's name and at the same level.
Twin == [Shelf EXCEPT !.id = 6, !.stable = "tile"]
\* The box's identity again, at the root.
Copy == [Plain(2, 0, "tile") EXCEPT !.needs = TRUE]
\* Two declarations that name each other as their parent.
Knot == {[Plain(7, 6, "box") EXCEPT !.needs = TRUE],
         [Plain(6, 7, "box") EXCEPT !.needs = TRUE]}
Foreign == [Plain(6, 0, "box") EXCEPT !.namespace = "other"]
Unsound == [Plain(6, 5, "pin") EXCEPT !.sound = FALSE]

MCSubmissions ==
    {Shelf, Box, Pin, Tile, Stray, Twin, Copy, Foreign, Unsound} \cup Knot

MCEdits ==
    {Shelf, [Shelf EXCEPT !.name = "rack"],
     [Shelf EXCEPT !.rule = {"paint"}],
     [Shelf EXCEPT !.provides = {}],
     [Shelf EXCEPT !.needs = FALSE],
     [Box EXCEPT !.name = "tile"],
     [Box EXCEPT !.admission = [allowed |-> {<<"rack">>}, denied |-> {}]],
     Copy,
     [Tile EXCEPT !.needs = TRUE],
     [Twin EXCEPT !.name = "rack"],
     [Box EXCEPT !.stable = "tile"]}
=============================================================================
