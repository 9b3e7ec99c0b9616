--------------------------- MODULE AtomicAuthoring ---------------------------
(* What an authoring request promises, with no word about files: the source  *)
(* tree becomes the tree the request describes, or it stays as it was.       *)
(* `excused` is raised for good by an event after which nothing is promised; *)
(* the module that implements this one says which events those are.          *)
EXTENDS Naturals, Sequences, SequencesExt

CONSTANTS
  Names,    \* module names
  Kinds     \* kinds a face may declare

VARIABLES
  tree,     \* [faces, rules, entry, record, plugin, strays]
  excused

\* A face file's text: whether it spells out or derives a registry rule beside
\* it (names), whether its struct holds a layer (deep), and the lines somebody
\* added by hand, which no template renders.
Written(kind, parent, owns, rule) ==
  [is |-> "face", kind |-> kind, parent |-> parent,
   alias |-> IF parent = <<>> THEN "root" ELSE Last(parent),
   owns |-> owns, names |-> owns \/ rule # "ANY", deep |-> FALSE, hand |-> "none"]

\* Faces are keyed by their module directory, <<>> is the package root. A rule
\* that is not ANY admits one kind of child.
Rules == {"ANY", "strict"}
Rebased(from, to, dir) ==
  IF IsPrefix(from, dir) THEN to \o SubSeq(dir, Len(from) + 1, Len(dir)) ELSE dir
Rekeyed(f, from, to) ==
  [d \in {Rebased(from, to, e) : e \in DOMAIN f} |->
     f[CHOOSE e \in DOMAIN f : Rebased(from, to, e) = d]]
Without(f, dir) == [d \in {e \in DOMAIN f : ~IsPrefix(dir, e)} |-> f[d]]
With(f, key, value) == [k \in DOMAIN f \cup {key} |-> IF k = key THEN value ELSE f[k]]

Requests(t) ==
  LET faces == DOMAIN t.faces
      asked == [kind : Kinds, owns : BOOLEAN, rule : Rules]
  IN [op : {"create"}, dir : {Append(d, n) : d \in faces \cup {<<>>}, n \in Names},
      face : asked]
     \cup (UNION {[op : {"edit"}, dir : {d}, name : Names \cup {Last(d)}, face : asked] : d \in faces})
     \cup [op : {"promote"}, dir : faces, face : asked]
     \cup [op : {"delete", "deepen", "cut", "graft", "retire"}, dir : faces]
     \cup (UNION {[op : {"move"}, dir : {d}, to : faces \cup {<<>>}, name : Names \cup {Last(d)}]
                     : d \in faces})
     \cup [op : {"plugin"}, dir : {<<>>}]

\* What a face becomes when it is rewritten from its fields.
Edited(t, r) ==
  [Written(r.face.kind, t.faces[r.dir].parent, r.face.owns, r.face.rule)
     EXCEPT !.alias = t.faces[r.dir].alias]
Renamed(t, r) ==
  LET to == Append(Front(r.dir), r.name)
      follow(text) == [text EXCEPT !.parent = Rebased(r.dir, to, @),
                         !.alias = IF Len(r.dir) = 1 /\ @ = Last(r.dir) THEN r.name ELSE @]
      inside == [d \in DOMAIN t.faces |->
                   IF d = r.dir THEN follow(Edited(t, r))
                   ELSE IF IsPrefix(r.dir, d) THEN follow(t.faces[d]) ELSE t.faces[d]]
  IN [t EXCEPT !.faces = Rekeyed(inside, r.dir, to), !.rules = Rekeyed(@, r.dir, to)]
Replaced(t, r) ==
  IF t.faces[r.dir].kind # r.face.kind
  THEN [t EXCEPT !.faces[r.dir] = Edited(t, r)]
  ELSE [t EXCEPT !.faces[r.dir] = Edited(t, r),
          !.rules = IF r.face.owns THEN With(@, r.dir, r.face.rule)
                    ELSE [d \in DOMAIN @ \ {r.dir} |-> @[d]]]
Moved(t, r) ==
  LET to == Append(r.to, r.name)
      carried == [d \in DOMAIN t.faces |->
        LET text == t.faces[d] IN
        IF d = r.dir
        THEN [text EXCEPT !.parent = r.to, !.alias = IF r.to = <<>> THEN "root" ELSE Last(r.to)]
        ELSE IF text.parent = r.dir THEN [text EXCEPT !.parent = to] ELSE text]
  IN [t EXCEPT !.faces = Rekeyed(carried, r.dir, to), !.rules = Rekeyed(@, r.dir, to)]

After(t, r) ==
  CASE r.op = "create" ->
         [t EXCEPT !.faces = With(@, r.dir, Written(r.face.kind, Front(r.dir), r.face.owns, r.face.rule)),
                   !.rules = IF r.face.owns THEN With(@, r.dir, r.face.rule) ELSE @]
    [] r.op = "edit" /\ r.name # Last(r.dir) -> Renamed(t, r)
    [] r.op = "edit" /\ r.name = Last(r.dir) -> Replaced(t, r)
    [] r.op = "promote" -> [Replaced(t, r) EXCEPT
                              !.entry = {[cut |-> c.cut, graft |-> IF c.cut = r.dir THEN "itself" ELSE c.graft]
                                           : c \in @},
                              !.record = {}]
    [] r.op = "delete" -> [t EXCEPT !.faces = Without(@, r.dir), !.rules = Without(@, r.dir)]
    [] r.op = "deepen" -> [t EXCEPT !.faces[r.dir].deep = TRUE]
    [] r.op = "move" -> Moved(t, r)
    [] r.op = "cut" -> [t EXCEPT !.entry = @ \cup {[cut |-> r.dir, graft |-> "external"]}]
    [] r.op = "graft" -> [t EXCEPT !.record = {r.dir}]
    [] r.op = "retire" -> [t EXCEPT !.record = {}]
    [] r.op = "plugin" -> [t EXCEPT !.plugin = {"anchor", "lock"}]

Fulfil == /\ tree' # tree /\ UNCHANGED excused
          /\ \E r \in Requests(tree) : tree' = After(tree, r)
\* From here on nothing is promised.
Excuse == excused' = TRUE

AtomicInit == excused = FALSE /\ tree.strays = {}
AtomicNext == Excuse \/ Fulfil
AtomicSpec == AtomicInit /\ [][AtomicNext]_<<tree, excused>>
=============================================================================
