--------------------------- MODULE RegistryProofs ---------------------------
(* Theorems about the live Registry, for every library of declarations, and  *)
(* about graft overlays, for every base, external tree, plan and record.     *)
EXTENDS Registry, Overlay, TLAPS, SequenceTheorems, FiniteSetTheorems, WellFoundedInduction

-----------------------------------------------------------------------------
(* Prefixes and slots.                                                      *)

LEMMA PrefixPointwise ==
    ASSUME NEW S, NEW s \in Seq(S), NEW t \in Seq(S)
    PROVE  IsPrefix(s, t) <=> Len(s) <= Len(t) /\ \A i \in 1..Len(s) : s[i] = t[i]
  <1>1. SubSeq(s, 1, Len(s)) = s
    BY SubSeqFull
  <1>2. CASE Len(s) <= Len(t)
    <2>1. /\ SubSeq(t, 1, Len(s)) \in Seq(S)
          /\ Len(SubSeq(t, 1, Len(s))) = Len(s)
          /\ \A i \in 1..Len(s) : SubSeq(t, 1, Len(s))[i] = t[i]
      BY <1>2
    <2>2. ASSUME \A i \in 1..Len(s) : s[i] = t[i]
          PROVE  s = SubSeq(t, 1, Len(s))
      BY <2>1, <2>2, SeqEqual
    <2> QED BY <1>1, <1>2, <2>1, <2>2 DEF IsPrefix
  <1>3. CASE ~(Len(s) <= Len(t))
    BY <1>3 DEF IsPrefix
  <1> QED BY <1>2, <1>3

LEMMA AppendSlot ==
    ASSUME NEW r \in Slots, NEW id \in NodeIds
    PROVE  /\ Append(r, id) \in Slots
           /\ Append(r, id) # <<>>
           /\ Owner(Append(r, id)) = r
           /\ Last(Append(r, id)) = id
           /\ ~IsPrefix(Append(r, id), r)
  BY DEF Slots, Owner, Front, Last, IsPrefix

LEMMA SlotParts ==
    ASSUME NEW s \in Slots, s # <<>>
    PROVE  /\ Owner(s) \in Slots
           /\ Len(s) \in Nat \ {0} /\ Len(Owner(s)) = Len(s) - 1
           /\ \A i \in 1..(Len(s) - 1) : Owner(s)[i] = s[i]
           /\ Last(s) \in NodeIds
           /\ s = Append(Owner(s), Last(s))
  <1>1. Len(s) \in Nat \ {0}
    BY EmptySeq DEF Slots
  <1>2. \A i \in 1..(Len(s) - 1) : s[i] \in NodeIds
    BY <1>1 DEF Slots
  <1>3. /\ Owner(s) \in Slots
        /\ Len(Owner(s)) = Len(s) - 1
        /\ \A i \in 1..(Len(s) - 1) : Owner(s)[i] = s[i]
    <2> DEFINE n == Len(s) - 1
    <2>1. n \in Int /\ 1 \in Int /\ \A i \in 1..n : s[i] \in NodeIds
      BY <1>1, <1>2
    <2>2. /\ SubSeq(s, 1, n) \in Seq(NodeIds)
          /\ Len(SubSeq(s, 1, n)) = IF 1 <= n THEN n - 1 + 1 ELSE 0
          /\ \A i \in 1..(n - 1 + 1) : SubSeq(s, 1, n)[i] = s[1 + i - 1]
      <3> HIDE DEF n
      <3> QED BY <2>1, SubSeqProperties
    <2>3. Owner(s) = SubSeq(s, 1, n)
      BY DEF Owner, Front
    <2>4. n \in Nat
      BY <1>1
    <2> HIDE DEF n
    <2>5. /\ (IF 1 <= n THEN n - 1 + 1 ELSE 0) = n
          /\ \A i \in 1..n : i \in 1..(n - 1 + 1) /\ 1 + i - 1 = i
      BY <2>4
    <2>6. Owner(s) \in Slots /\ Len(Owner(s)) = n /\ \A i \in 1..n : Owner(s)[i] = s[i]
      BY <2>2, <2>3, <2>5 DEF Slots
    <2> QED BY <2>6 DEF n
  <1>4. Last(s) \in NodeIds /\ s = Append(Owner(s), Last(s))
    BY <1>1 DEF Slots, Owner, Front, Last
  <1> QED BY <1>1, <1>3, <1>4

LEMMA BelowOwner ==
    ASSUME NEW s \in Slots, NEW p \in Slots, p # <<>>, IsPrefix(s, Owner(p))
    PROVE  IsPrefix(s, p)
  <1>1. Len(s) <= Len(Owner(p)) /\ \A i \in 1..Len(s) : s[i] = Owner(p)[i]
    BY SlotParts, PrefixPointwise DEF Slots
  <1>2. Len(s) <= Len(p) /\ \A i \in 1..Len(s) : s[i] = p[i]
    BY <1>1, SlotParts DEF Slots
  <1> QED BY <1>2, PrefixPointwise DEF Slots

LEMMA RootNotBelow ==
    ASSUME NEW s \in Slots, s # <<>>
    PROVE  ~IsPrefix(s, <<>>)
  BY DEF Slots, IsPrefix

-----------------------------------------------------------------------------
(* What every tree the transactions handle has: identities name one face,  *)
(* faces hang where they say, and a registry is owned by the face it names. *)

Unique(t) ==
    \A s, p \in DOMAIN t.faces :
        /\ t.faces[s].id = t.faces[p].id => s = p
        /\ t.faces[s].id # RootId

Owned(t) ==
    /\ DOMAIN t.regs = {<<>>} \cup {s \in DOMAIN t.faces : t.faces[s].needs}
    /\ t.regs[<<>>].id = RootId
    /\ \A s \in DOMAIN t.regs \ {<<>>} : t.regs[s].id = t.faces[s].id

Sound(t) == IsTree(t) /\ Unique(t) /\ Linked(t) /\ Owned(t)

LEMMA EmptyRootSound == Sound(None)
  BY InputsAssumption DEF Sound, IsTree, Unique, Linked, Owned, None, EmptyRoot,
     Headers, AdmitsAll, Admissions, Slots, Paths

(* A lookup by identity finds the one registry, or the one face, there is.  *)
LEMMA RegistryFound ==
    ASSUME NEW t, Sound(t), NEW r \in DOMAIN t.regs
    PROVE  /\ HasRegistry(t, t.regs[r].id)
           /\ RegistrySlot(t, t.regs[r].id) = r
  <1>1. RegistriesOf(t, t.regs[r].id) = {r}
    BY DEF Sound, Unique, Owned, IsTree, RegistriesOf
  <1> QED BY <1>1 DEF HasRegistry, RegistrySlot

LEMMA RegistryAnswer ==
    ASSUME NEW t, Sound(t), NEW id, HasRegistry(t, id)
    PROVE  /\ RegistrySlot(t, id) \in DOMAIN t.regs
           /\ t.regs[RegistrySlot(t, id)].id = id
  <1>1. PICK r \in DOMAIN t.regs : t.regs[r].id = id
    BY DEF HasRegistry, RegistriesOf
  <1> QED BY <1>1, RegistryFound

LEMMA FaceAnswer ==
    ASSUME NEW t, Sound(t), NEW id, HasFace(t, id)
    PROVE  /\ FaceSlot(t, id) \in DOMAIN t.faces
           /\ t.faces[FaceSlot(t, id)].id = id
           /\ HasRegistry(t, FaceById(t, id).parent)
           /\ FaceSlot(t, id) = Append(RegistrySlot(t, FaceById(t, id).parent), id)
  <1>1. PICK s \in DOMAIN t.faces : t.faces[s].id = id
    BY DEF HasFace, FacesOf
  <1>2. FacesOf(t, id) = {s}
    BY <1>1 DEF Sound, Unique, FacesOf
  <1>3. FaceSlot(t, id) = s
    BY <1>2 DEF FaceSlot
  <1>4. Owner(s) \in DOMAIN t.regs /\ t.regs[Owner(s)].id = t.faces[s].parent /\ Last(s) = id
    BY <1>1 DEF Sound, Linked
  <1>5. s = Append(Owner(s), id)
    BY <1>4, SlotParts DEF Sound, IsTree
  <1> QED BY <1>1, <1>3, <1>4, <1>5, RegistryFound DEF FaceById

-----------------------------------------------------------------------------
(* The edits keep a tree sound.                                             *)

LEMMA WithoutSound ==
    ASSUME NEW t, Sound(t), NEW s \in Slots, s # <<>>
    PROVE  /\ Sound(Without(t, s))
           /\ DOMAIN Without(t, s).faces = {p \in DOMAIN t.faces : ~IsPrefix(s, p)}
           /\ DOMAIN Without(t, s).regs = {p \in DOMAIN t.regs : ~IsPrefix(s, p)}
           /\ \A p \in DOMAIN Without(t, s).faces : Without(t, s).faces[p] = t.faces[p]
           /\ \A p \in DOMAIN Without(t, s).regs : Without(t, s).regs[p] = t.regs[p]
           /\ \A id : HasFace(Without(t, s), id) => HasFace(t, id)
  <1> DEFINE u == Without(t, s)
  <1>1. /\ u.framework = t.framework
        /\ DOMAIN u.faces = {p \in DOMAIN t.faces : ~IsPrefix(s, p)}
        /\ DOMAIN u.regs = {p \in DOMAIN t.regs : ~IsPrefix(s, p)}
        /\ \A p \in DOMAIN u.faces : u.faces[p] = t.faces[p]
        /\ \A p \in DOMAIN u.regs : u.regs[p] = t.regs[p]
    BY DEF Without
  <1> HIDE DEF u
  <1>2. <<>> \in DOMAIN u.regs
    BY <1>1, RootNotBelow DEF Sound, IsTree
  <1>3. IsTree(u)
    BY <1>1, <1>2 DEF Sound, IsTree
  <1>4. Unique(u) /\ Owned(u)
    BY <1>1, <1>2 DEF Sound, Unique, Owned
  <1>5. Linked(u)
    BY <1>1, BelowOwner DEF Sound, IsTree, Linked
  <1>6. \A id : HasFace(u, id) => HasFace(t, id)
    BY <1>1 DEF HasFace, FacesOf
  <1> QED BY <1>1, <1>3, <1>4, <1>5, <1>6 DEF Sound, u

LEMMA StoreSound ==
    ASSUME NEW t, Sound(t), NEW face \in Faces, face.id # RootId,
           NEW r \in DOMAIN t.regs, t.regs[r].id = face.parent,
           NEW path \in Paths, ~HasFace(t, face.id)
    PROVE  Sound(Store(t, Append(r, face.id), face, path))
  <1> DEFINE s == Append(r, face.id)
             u == Store(t, s, face, path)
  <1>1. s \in Slots /\ s # <<>> /\ Owner(s) = r /\ Last(s) = face.id /\ s # r
    <2>1. r \in Slots /\ face.id \in NodeIds
      BY DEF Sound, IsTree, Faces
    <2> QED BY <2>1, AppendSlot
  <1>2. s \notin DOMAIN t.faces /\ s \notin DOMAIN t.regs
    BY <1>1 DEF Sound, Linked, Owned, HasFace, FacesOf
  <1> HIDE DEF s
  <1>3. /\ u.framework = t.framework
        /\ DOMAIN u.faces = DOMAIN t.faces \cup {s}
        /\ DOMAIN u.regs = DOMAIN t.regs \cup IF face.needs THEN {s} ELSE {}
        /\ u.faces[s] = face
        /\ \A p \in DOMAIN t.faces : u.faces[p] = t.faces[p]
        /\ face.needs => u.regs[s] = Header(face, path)
        /\ \A p \in DOMAIN t.regs : u.regs[p] = t.regs[p]
    BY <1>2 DEF Store
  <1> HIDE DEF u
  <1>4. Header(face, path) \in Headers /\ Header(face, path).id = face.id
    BY DEF Header, Headers, Faces
  <1>5. face.needs \in BOOLEAN
    BY DEF Faces
  <1>6. IsTree(u)
    BY <1>1, <1>3, <1>4, <1>5 DEF Sound, IsTree
  <1>7. Unique(u)
    BY <1>2, <1>3 DEF Sound, Unique, HasFace, FacesOf
  <1>8. Linked(u)
    BY <1>1, <1>2, <1>3 DEF Sound, Linked
  <1>9. Owned(u)
    BY <1>1, <1>2, <1>3, <1>4, <1>5 DEF Sound, IsTree, Owned
  <1> QED BY <1>6, <1>7, <1>8, <1>9 DEF Sound, s, u

LEMMA SubmitSound ==
    ASSUME NEW t, Sound(t), NEW face \in Faces, face.id # RootId,
           HasRegistry(t, face.parent), ~HasFace(t, face.id)
    PROVE  /\ Sound(Submit(t, face))
           /\ \A id : HasFace(Submit(t, face), id) => HasFace(t, id) \/ id = face.id
  <1> DEFINE r == RegistrySlot(t, face.parent)
             s == Append(r, face.id)
             rest == Without(t, s)
             path == Append(t.regs[r].path, face.name)
  <1>1. r \in DOMAIN t.regs /\ t.regs[r].id = face.parent
    BY RegistryAnswer
  <1>2. s \in Slots /\ s # <<>> /\ ~IsPrefix(s, r)
    <2>1. r \in Slots /\ face.id \in NodeIds
      BY <1>1 DEF Sound, IsTree, Faces
    <2> QED BY <2>1, AppendSlot
  <1>3. path \in Paths
    BY <1>1 DEF Sound, IsTree, Headers, Faces, Paths
  <1>4. Submit(t, face) = Store(rest, s, face, path)
    BY DEF Submit, EntrySlot
  <1> HIDE DEF s, path, r
  <1>5. /\ Sound(rest) /\ r \in DOMAIN rest.regs /\ rest.regs[r].id = face.parent
        /\ \A id : HasFace(rest, id) => HasFace(t, id)
    BY <1>1, <1>2, WithoutSound
  <1> HIDE DEF rest
  <1>6. Sound(Store(rest, s, face, path))
    BY <1>3, <1>5, StoreSound DEF s
  <1>7. \A id : HasFace(Store(rest, s, face, path), id) => HasFace(rest, id) \/ id = face.id
    <2> DEFINE u == Store(rest, s, face, path)
    <2>1. /\ DOMAIN u.faces = DOMAIN rest.faces \cup {s}
          /\ \A p \in DOMAIN u.faces : u.faces[p] = IF p = s THEN face ELSE rest.faces[p]
      BY DEF Store
    <2> HIDE DEF u
    <2>2. \A id : HasFace(u, id) => HasFace(rest, id) \/ id = face.id
      BY <2>1 DEF HasFace, FacesOf
    <2> QED BY <2>2 DEF u
  <1> QED BY <1>4, <1>5, <1>6, <1>7

LEMMA TakeEntrySound ==
    ASSUME NEW t, Sound(t), NEW id, HasFace(t, id)
    PROVE  Sound(TakeEntry(t, id))
  <1>1. TakeEntry(t, id) = Without(t, FaceSlot(t, id))
    BY FaceAnswer DEF TakeEntry
  <1>2. FaceSlot(t, id) \in Slots /\ FaceSlot(t, id) # <<>>
    BY FaceAnswer DEF Sound, IsTree
  <1> QED BY <1>1, <1>2, WithoutSound

LEMMA RebasePath ==
    ASSUME NEW path \in Paths, NEW old \in Paths, NEW new \in Paths
    PROVE  Rebase(path, old, new) \in Paths
  <1> DEFINE tail == SubSeq(path, Len(old) + 1, Len(path))
  <1>1. tail \in Seq(Names)
    <2>1. /\ Len(old) + 1 \in Int /\ Len(path) \in Int
          /\ \A i \in (Len(old) + 1)..Len(path) : path[i] \in Names
      BY DEF Paths
    <2> QED BY <2>1, SubSeqProperties
  <1> HIDE DEF tail
  <1>2. new \o tail \in Paths
    BY <1>1 DEF Paths
  <1> QED BY <1>2 DEF Rebase, tail

(* A face replaced where it is: same identity, same parent.                 *)
LEMMA ReplaceInfoSound ==
    ASSUME NEW t, Sound(t), NEW id, NEW face \in Faces, CanReplaceInfo(t, id, face),
           face.id = id, face.parent = FaceById(t, id).parent
    PROVE  Sound(ReplaceInfo(t, id, face))
  <1> DEFINE s == FaceSlot(t, id)
             path == Append(t.regs[Owner(s)].path, face.name)
             u == Overwrite(t, s, face)
  <1>1. s \in DOMAIN t.faces /\ t.faces[s].id = id /\ t.faces[s].parent = face.parent
    BY FaceAnswer DEF CanReplaceInfo, FaceById
  <1>2. s \in Slots /\ s # <<>>
    BY <1>1 DEF Sound, IsTree
  <1>3. /\ Owner(s) \in DOMAIN t.regs /\ t.regs[Owner(s)].id = face.parent
        /\ s = Append(Owner(s), id) /\ Last(s) = id
    BY <1>1, <1>2, SlotParts DEF Sound, Linked
  <1>4. ReplaceInfo(t, id, face) = u
    BY FaceAnswer DEF ReplaceInfo, CanReplaceInfo
  <1>5. face.needs \/ Entries(t, s) = {}
    BY FaceAnswer DEF CanReplaceInfo
  <1>6. path \in Paths
    BY <1>3 DEF Sound, IsTree, Headers, Faces, Paths
  <1>7. Header(face, path) \in Headers /\ Header(face, path).id = id
    BY <1>6 DEF Header, Headers, Faces
  <1> HIDE DEF path
  <1>8. CASE s \in DOMAIN t.regs /\ face.needs
    <2>1. /\ u.framework = t.framework
          /\ DOMAIN u.faces = DOMAIN t.faces /\ DOMAIN u.regs = DOMAIN t.regs
          /\ u.faces[s] = face
          /\ \A p \in DOMAIN t.faces \ {s} : u.faces[p] = t.faces[p]
          /\ u.regs[s] = Header(face, path)
          /\ \A p \in DOMAIN t.regs \ {s} :
                \/ u.regs[p] = t.regs[p]
                \/ u.regs[p] = [t.regs[p] EXCEPT !.path = Rebase(@, t.regs[s].path, path)]
      BY <1>1, <1>8 DEF Overwrite, path
    <2> HIDE DEF u, s
    <2>2. \A p \in DOMAIN t.regs : t.regs[p] \in Headers /\ t.regs[p].path \in Paths
      BY DEF Sound, IsTree, Headers
    <2>3. \A p \in DOMAIN u.regs \ {s} : u.regs[p] \in Headers /\ u.regs[p].id = t.regs[p].id
      <3> SUFFICES ASSUME NEW p \in DOMAIN t.regs \ {s}
                   PROVE  u.regs[p] \in Headers /\ u.regs[p].id = t.regs[p].id
        BY <2>1
      <3>1. Rebase(t.regs[p].path, t.regs[s].path, path) \in Paths
        BY <1>6, <1>8, <2>2, RebasePath
      <3> QED BY <2>1, <2>2, <3>1 DEF Headers
    <2>4. IsTree(u)
      BY <1>7, <2>1, <2>3 DEF Sound, IsTree
    <2>5. Unique(u)
      BY <1>1, <2>1 DEF Sound, Unique
    <2>6. u.regs[s].id = t.regs[s].id
      BY <1>1, <1>2, <1>7, <1>8, <2>1 DEF Sound, Owned
    <2>7. Linked(u)
      BY <1>1, <1>3, <2>1, <2>3, <2>6 DEF Sound, Linked
    <2>8. Owned(u)
      BY <1>1, <1>2, <1>8, <2>1, <2>3, <2>6 DEF Sound, IsTree, Owned
    <2> QED BY <1>4, <2>4, <2>5, <2>7, <2>8 DEF Sound
  <1>9. CASE ~(s \in DOMAIN t.regs /\ face.needs)
    <2> DEFINE rest == Without(t, s)
    <2>1. u = Store(rest, s, face, path)
      BY <1>9 DEF Overwrite, path
    <2>2. ~IsPrefix(s, Owner(s))
      <3> HIDE DEF s
      <3>1. Owner(s) \in Slots /\ id \in NodeIds
        BY <1>2, <1>3, SlotParts
      <3> QED BY <1>3, <3>1, AppendSlot
    <2>3. /\ Sound(rest) /\ Owner(s) \in DOMAIN rest.regs
          /\ rest.regs[Owner(s)].id = face.parent
      BY <1>2, <1>3, <2>2, WithoutSound
    <2>4. DOMAIN rest.faces = {p \in DOMAIN t.faces : ~IsPrefix(s, p)}
      BY <1>2, WithoutSound
    <2>5. ~HasFace(rest, id)
      BY <1>1, <1>2, <2>4, WithoutSound DEF HasFace, FacesOf, Sound, Unique, IsPrefix
    <2>6. face.id # RootId
      BY <1>1 DEF Sound, Unique
    <2>7. Sound(u)
      <3> HIDE DEF rest, u, s
      <3> QED BY <1>3, <1>6, <2>1, <2>3, <2>5, <2>6, StoreSound
    <2> QED BY <1>4, <2>7
  <1> QED BY <1>8, <1>9

-----------------------------------------------------------------------------
(* Stems: the slots met on the way down to a slot.                          *)

Stem(p, i) == SubSeq(p, 1, i)

LEMMA StemOf ==
    ASSUME NEW p \in Slots, NEW i \in 0..Len(p)
    PROVE  /\ Stem(p, i) \in Slots /\ Len(Stem(p, i)) = i
           /\ \A j \in 1..i : Stem(p, i)[j] = p[j]
  <1>1. Len(p) \in Nat /\ \A j \in 1..Len(p) : p[j] \in NodeIds
    BY DEF Slots
  <1>2. 1 \in Int /\ i \in Int /\ \A j \in 1..i : p[j] \in NodeIds
    BY <1>1
  <1>3. /\ SubSeq(p, 1, i) \in Seq(NodeIds)
        /\ Len(SubSeq(p, 1, i)) = IF 1 <= i THEN i - 1 + 1 ELSE 0
        /\ \A j \in 1..(i - 1 + 1) : SubSeq(p, 1, i)[j] = p[1 + j - 1]
    BY <1>2, SubSeqProperties
  <1>4. /\ (IF 1 <= i THEN i - 1 + 1 ELSE 0) = i
        /\ \A j \in 1..i : j \in 1..(i - 1 + 1) /\ 1 + j - 1 = j
    BY <1>1
  <1> QED BY <1>3, <1>4 DEF Stem, Slots

LEMMA SlotEqual ==
    ASSUME NEW p \in Slots, NEW q \in Slots, Len(p) = Len(q),
           \A j \in 1..Len(p) : p[j] = q[j]
    PROVE  p = q
  BY SeqEqual DEF Slots

LEMMA StemFull == ASSUME NEW p \in Slots PROVE Stem(p, Len(p)) = p
  <1>1. Len(p) \in Nat /\ Len(p) \in 0..Len(p)
    BY DEF Slots
  <1> QED BY <1>1, StemOf, SlotEqual

LEMMA StemOfStem ==
    ASSUME NEW p \in Slots, NEW i \in 0..Len(p), NEW j \in 0..i
    PROVE  Stem(Stem(p, i), j) = Stem(p, j)
  <1>1. Len(p) \in Nat
    BY DEF Slots
  <1>2. j \in 0..Len(p) /\ Stem(p, i) \in Slots /\ Len(Stem(p, i)) = i
    BY <1>1, StemOf
  <1>3. /\ Stem(Stem(p, i), j) \in Slots /\ Stem(p, j) \in Slots
        /\ Len(Stem(Stem(p, i), j)) = j /\ Len(Stem(p, j)) = j
        /\ \A k \in 1..j : Stem(Stem(p, i), j)[k] = Stem(p, i)[k] /\ Stem(p, j)[k] = p[k]
    BY <1>2, StemOf
  <1>4. \A k \in 1..j : k \in 1..i /\ Stem(p, i)[k] = p[k]
    BY <1>1, StemOf
  <1> QED BY <1>3, <1>4, SlotEqual

LEMMA StemOwner ==
    ASSUME NEW p \in Slots, p # <<>>
    PROVE  Len(p) - 1 \in 0..Len(p) /\ Stem(p, Len(p) - 1) = Owner(p)
  BY SlotParts DEF Stem, Owner, Front

LEMMA StemOfOwner ==
    ASSUME NEW p \in Slots, p # <<>>, NEW i \in 0..(Len(p) - 1)
    PROVE  Stem(Owner(p), i) = Stem(p, i)
  BY StemOwner, StemOfStem

(* A slot is below another exactly when the other is one of its stems.      *)
LEMMA BelowIsStem ==
    ASSUME NEW s \in Slots, NEW p \in Slots
    PROVE  IsPrefix(s, p) <=> Len(s) <= Len(p) /\ Stem(p, Len(s)) = s
  <1>1. Len(s) \in Nat /\ Len(p) \in Nat
    BY DEF Slots
  <1>2. CASE Len(s) <= Len(p)
    <2>1. /\ Len(s) \in 0..Len(p)
          /\ Stem(p, Len(s)) \in Slots /\ Len(Stem(p, Len(s))) = Len(s)
          /\ \A j \in 1..Len(s) : Stem(p, Len(s))[j] = p[j]
      BY <1>1, <1>2, StemOf
    <2>2. IsPrefix(s, p) <=> \A j \in 1..Len(s) : s[j] = p[j]
      BY <1>2, PrefixPointwise DEF Slots
    <2>3. (\A j \in 1..Len(s) : s[j] = p[j]) => Stem(p, Len(s)) = s
      BY <2>1, SlotEqual
    <2>4. Stem(p, Len(s)) = s => \A j \in 1..Len(s) : s[j] = p[j]
      BY <2>1
    <2> QED BY <1>2, <2>2, <2>3, <2>4
  <1>3. CASE ~(Len(s) <= Len(p))
    BY <1>3, PrefixPointwise DEF Slots
  <1> QED BY <1>2, <1>3

LEMMA StemBelow ==
    ASSUME NEW s \in Slots, NEW p \in Slots, NEW i \in 0..Len(p)
    PROVE  IsPrefix(s, Stem(p, i)) <=> IsPrefix(s, p) /\ Len(s) <= i
  <1>1. Len(p) \in Nat /\ Len(s) \in Nat /\ Stem(p, i) \in Slots /\ Len(Stem(p, i)) = i
    BY StemOf DEF Slots
  <1>2. Len(s) <= i => Stem(Stem(p, i), Len(s)) = Stem(p, Len(s))
    BY <1>1, StemOfStem
  <1> QED BY <1>1, <1>2, BelowIsStem

-----------------------------------------------------------------------------
(* What else the trees keep: the stems of a slot own registries, a header   *)
(* repeats its face and spells the names from the root down to it, and      *)
(* every face obeys the rule above it.                                      *)

Rooted(t) ==
    \A p \in DOMAIN t.faces : \A i \in 1..(Len(p) - 1) : Stem(p, i) \in DOMAIN t.regs

Repeats(t) ==
    \A s \in DOMAIN t.regs \ {<<>>} : t.regs[s] = Header(t.faces[s], t.regs[s].path)

Spelled(t) ==
    \A p \in DOMAIN t.regs :
        /\ Len(t.regs[p].path) = Len(p)
        /\ \A i \in 1..Len(p) : t.regs[p].path[i] = t.faces[Stem(p, i)].name

Obedient(t) ==
    \A s \in DOMAIN t.faces : Obeys(t.faces[s], t.regs[Owner(s)].rule)

Whole(t) == Sound(t) /\ Rooted(t) /\ Repeats(t) /\ Spelled(t) /\ Obedient(t)

LEMMA EmptyRootWhole == Whole(None)
  BY EmptyRootSound DEF Whole, Rooted, Repeats, Spelled, Obedient, None, EmptyRoot

LEMMA TypedSlots ==
    ASSUME NEW t, Sound(t), NEW s \in DOMAIN t.faces
    PROVE  s \in Slots /\ s # <<>> /\ Len(s) \in Nat \ {0} /\ Owner(s) \in Slots
           /\ Owner(s) \in DOMAIN t.regs /\ Len(Owner(s)) = Len(s) - 1
  <1>1. s \in Slots /\ s # <<>> /\ Owner(s) \in DOMAIN t.regs
    BY DEF Sound, IsTree, Linked
  <1> QED BY <1>1, SlotParts

LEMMA RegistryIsFace ==
    ASSUME NEW t, Sound(t), NEW p \in DOMAIN t.regs
    PROVE  p \in Slots /\ (p # <<>> => p \in DOMAIN t.faces /\ t.faces[p].needs)
  BY DEF Sound, IsTree, Owned

(* Every stem of a registry but the root is a face.                         *)
LEMMA StemIsFace ==
    ASSUME NEW t, Sound(t), Rooted(t), NEW p \in DOMAIN t.regs, NEW i \in 1..Len(p)
    PROVE  Stem(p, i) \in DOMAIN t.faces
  <1>1. p \in Slots /\ Len(p) \in Nat /\ p # <<>>
    BY RegistryIsFace DEF Slots
  <1>2. p \in DOMAIN t.faces
    BY <1>1, RegistryIsFace
  <1>3. CASE i = Len(p)
    BY <1>1, <1>2, <1>3, StemFull
  <1>4. CASE i # Len(p)
    <2>1. i \in 1..(Len(p) - 1) /\ i \in 0..Len(p)
      BY <1>1, <1>4
    <2>2. Stem(p, i) \in DOMAIN t.regs /\ Len(Stem(p, i)) = i
      BY <1>1, <1>2, <2>1, StemOf DEF Rooted
    <2>3. Stem(p, i) # <<>>
      BY <2>1, <2>2
    <2> QED BY <2>2, <2>3, RegistryIsFace
  <1> QED BY <1>3, <1>4

LEMMA HeadersRepeatFaces == ASSUME NEW t, Whole(t) PROVE Mirrored(t)
  <1>1. DOMAIN t.regs = {<<>>} \cup {s \in DOMAIN t.faces : t.faces[s].needs}
    BY DEF Whole, Sound, Owned
  <1>2. ASSUME NEW s \in DOMAIN t.regs \ {<<>>}
        PROVE  t.regs[s] = Header(t.faces[s], SlotPath(t, s))
    <2>1. s \in DOMAIN t.faces /\ s \in Slots /\ s # <<>>
      BY RegistryIsFace DEF Whole
    <2>2. Owner(s) \in DOMAIN t.regs /\ Len(Owner(s)) = Len(s) - 1 /\ Len(s) \in Nat \ {0}
      BY <2>1, TypedSlots DEF Whole
    <2>3. t.faces[s].name \in Names /\ t.regs[s].path \in Seq(Names)
          /\ t.regs[Owner(s)].path \in Seq(Names)
      BY <2>1, <2>2 DEF Whole, Sound, IsTree, Faces, Headers, Paths
    <2> DEFINE a == t.regs[s].path  b == t.regs[Owner(s)].path  c == Append(b, t.faces[s].name)
    <2>4. Len(a) = Len(s) /\ Len(b) = Len(s) - 1
      BY <2>1, <2>2 DEF Whole, Spelled
    <2>5. \A i \in 1..(Len(s) - 1) : a[i] = b[i]
      <3> SUFFICES ASSUME NEW i \in 1..(Len(s) - 1) PROVE a[i] = b[i]
        OBVIOUS
      <3>1. i \in 1..Len(s) /\ i \in 1..Len(Owner(s)) /\ i \in 0..(Len(s) - 1)
        BY <2>2
      <3>2. Stem(Owner(s), i) = Stem(s, i)
        BY <2>1, <3>1, StemOfOwner
      <3>3. a[i] = t.faces[Stem(s, i)].name /\ b[i] = t.faces[Stem(Owner(s), i)].name
        BY <2>2, <3>1 DEF Whole, Spelled
      <3> QED BY <3>2, <3>3
    <2>6. a[Len(s)] = t.faces[s].name
      <3>1. Len(s) \in 1..Len(s) /\ Stem(s, Len(s)) = s
        BY <2>1, <2>2, StemFull
      <3> QED BY <3>1 DEF Whole, Spelled
    <2>7. a \in Seq(Names) /\ b \in Seq(Names) /\ t.faces[s].name \in Names
      BY <2>3
    <2> HIDE DEF a, b
    <2>8. c \in Seq(Names) /\ Len(c) = Len(s) /\ c[Len(s)] = t.faces[s].name
          /\ \A i \in 1..(Len(s) - 1) : c[i] = b[i]
      BY <2>2, <2>4, <2>7
    <2> HIDE DEF c
    <2>9. \A i \in 1..Len(a) : a[i] = c[i]
      <3> SUFFICES ASSUME NEW i \in 1..Len(a) PROVE a[i] = c[i]
        OBVIOUS
      <3>1. i = Len(s) \/ i \in 1..(Len(s) - 1)
        BY <2>2, <2>4
      <3> QED BY <3>1, <2>5, <2>6, <2>8
    <2>10. a = c
      BY <2>4, <2>7, <2>8, <2>9, SeqEqual
    <2>11. t.regs[s] = Header(t.faces[s], a)
      BY DEF Whole, Repeats, a
    <2> QED BY <2>10, <2>11 DEF SlotPath, a, b, c
  <1> QED BY <1>1, <1>2 DEF Mirrored

LEMMA WithoutWhole ==
    ASSUME NEW t, Whole(t), NEW s \in Slots, s # <<>>
    PROVE  Whole(Without(t, s))
  <1> DEFINE u == Without(t, s)
  <1>1. /\ Sound(t) /\ Sound(u)
        /\ DOMAIN u.faces = {p \in DOMAIN t.faces : ~IsPrefix(s, p)}
        /\ DOMAIN u.regs = {p \in DOMAIN t.regs : ~IsPrefix(s, p)}
        /\ \A p \in DOMAIN u.faces : u.faces[p] = t.faces[p]
        /\ \A p \in DOMAIN u.regs : u.regs[p] = t.regs[p]
    BY WithoutSound DEF Whole
  <1> HIDE DEF u
  <1>2. ASSUME NEW p \in DOMAIN u.faces, NEW i \in 1..(Len(p) - 1)
        PROVE  Stem(p, i) \in DOMAIN u.regs
    <2>1. p \in DOMAIN t.faces /\ p \in Slots /\ ~IsPrefix(s, p) /\ Len(p) \in Nat
      BY <1>1, TypedSlots
    <2>2. Stem(p, i) \in DOMAIN t.regs /\ i \in 0..Len(p)
      BY <2>1 DEF Whole, Rooted
    <2> QED BY <1>1, <2>1, <2>2, StemBelow
  <1>3. Repeats(u)
    BY <1>1, RegistryIsFace DEF Whole, Repeats
  <1>4. ASSUME NEW p \in DOMAIN u.regs
        PROVE  /\ Len(u.regs[p].path) = Len(p)
               /\ \A i \in 1..Len(p) : u.regs[p].path[i] = u.faces[Stem(p, i)].name
    <2>1. p \in DOMAIN t.regs /\ p \in Slots /\ ~IsPrefix(s, p) /\ Len(p) \in Nat
      BY <1>1, RegistryIsFace DEF Slots
    <2>2. ASSUME NEW i \in 1..Len(p)
          PROVE  u.regs[p].path[i] = u.faces[Stem(p, i)].name
      <3>1. Stem(p, i) \in DOMAIN t.faces /\ i \in 0..Len(p)
        BY <2>1, StemIsFace DEF Whole
      <3>2. Stem(p, i) \in DOMAIN u.faces
        BY <1>1, <2>1, <3>1, StemBelow
      <3> QED BY <1>1, <2>1, <3>2 DEF Whole, Spelled
    <2> QED BY <1>1, <2>1, <2>2 DEF Whole, Spelled
  <1>5. Obedient(u)
    BY <1>1, TypedSlots DEF Whole, Obedient
  <1> QED BY <1>1, <1>2, <1>3, <1>4, <1>5 DEF Whole, Rooted, Spelled, u

(* Below a slot that owns no registry there is nothing.                     *)
LEMMA NothingBelow ==
    ASSUME NEW t, Whole(t), NEW s \in Slots, s # <<>>, s \notin DOMAIN t.regs
    PROVE  /\ \A p \in DOMAIN t.faces : IsPrefix(s, p) => p = s
           /\ \A p \in DOMAIN t.regs : ~IsPrefix(s, p)
  <1>1. ASSUME NEW p \in DOMAIN t.faces, IsPrefix(s, p) PROVE p = s
    <2>1. p \in Slots /\ Len(p) \in Nat /\ Len(s) \in Nat \ {0}
      BY TypedSlots, SlotParts DEF Whole
    <2>2. Len(s) <= Len(p) /\ Stem(p, Len(s)) = s
      BY <1>1, <2>1, BelowIsStem
    <2>3. CASE Len(s) = Len(p)
      BY <2>1, <2>2, <2>3, StemFull
    <2>4. CASE Len(s) # Len(p)
      <3>1. Len(s) \in 1..(Len(p) - 1)
        BY <2>1, <2>2, <2>4
      <3> QED BY <2>2, <3>1 DEF Whole, Rooted
    <2> QED BY <2>3, <2>4
  <1>2. ASSUME NEW p \in DOMAIN t.regs, IsPrefix(s, p) PROVE FALSE
    <2>1. p # <<>>
      BY <1>2, RootNotBelow
    <2>2. p \in DOMAIN t.faces
      BY <2>1, RegistryIsFace DEF Whole
    <2> QED BY <1>1, <1>2, <2>2
  <1> QED BY <1>1, <1>2

LEMMA StoreWhole ==
    ASSUME NEW t, Whole(t), NEW face \in Faces, face.id # RootId,
           NEW r \in DOMAIN t.regs, t.regs[r].id = face.parent,
           ~HasFace(t, face.id), Obeys(face, t.regs[r].rule)
    PROVE  Whole(Store(t, Append(r, face.id), face, Append(t.regs[r].path, face.name)))
  <1> DEFINE s == Append(r, face.id)
             path == Append(t.regs[r].path, face.name)
             u == Store(t, s, face, path)
  <1>1. /\ r \in Slots /\ Len(r) \in Nat /\ s \in Slots /\ s # <<>> /\ Owner(s) = r
        /\ Last(s) = face.id /\ s # r /\ Len(s) = Len(r) + 1
    <2>1. r \in Slots /\ face.id \in NodeIds
      BY RegistryIsFace DEF Whole, Faces
    <2> QED BY <2>1, AppendSlot, SlotParts DEF Slots
  <1>2. s \notin DOMAIN t.faces /\ s \notin DOMAIN t.regs
    <2>1. s \notin DOMAIN t.faces
      BY <1>1 DEF Whole, Sound, Linked, HasFace, FacesOf
    <2> QED BY <1>1, <2>1, RegistryIsFace DEF Whole
  <1>3. t.regs[r].path \in Seq(Names) /\ face.name \in Names /\ Len(t.regs[r].path) = Len(r)
    BY DEF Whole, Sound, IsTree, Spelled, Headers, Paths, Faces
  <1>4. /\ path \in Paths /\ Len(path) = Len(s) /\ path[Len(s)] = face.name
        /\ \A i \in 1..Len(r) : path[i] = t.regs[r].path[i]
    BY <1>1, <1>3 DEF Paths
  <1>5. Sound(u)
    BY <1>4, StoreSound DEF Whole
  <1> HIDE DEF s, path
  <1>6. /\ DOMAIN u.faces = DOMAIN t.faces \cup {s}
        /\ DOMAIN u.regs = DOMAIN t.regs \cup IF face.needs THEN {s} ELSE {}
        /\ u.faces[s] = face
        /\ \A p \in DOMAIN t.faces : u.faces[p] = t.faces[p]
        /\ face.needs => u.regs[s] = Header(face, path)
        /\ \A p \in DOMAIN t.regs : u.regs[p] = t.regs[p]
    BY <1>2 DEF Store
  <1> HIDE DEF u
  <1>7. Header(face, path).path = path
    BY DEF Header
  <1>8. \A i \in 0..Len(r) : Stem(s, i) = Stem(r, i)
    BY <1>1, StemOfOwner
  <1>9. Rooted(u)
    <2>1. ASSUME NEW i \in 1..(Len(s) - 1) PROVE Stem(s, i) \in DOMAIN t.regs
      <3>1. i \in 1..Len(r) /\ Stem(s, i) = Stem(r, i)
        BY <1>1, <1>8
      <3>2. CASE i = Len(r)
        BY <1>1, <3>1, <3>2, StemFull
      <3>3. CASE i # Len(r)
        <4>1. r # <<>> /\ i \in 1..(Len(r) - 1)
          BY <1>1, <3>1, <3>3
        <4> QED BY <3>1, <4>1, RegistryIsFace DEF Whole, Rooted
      <3> QED BY <3>2, <3>3
    <2> QED BY <1>6, <2>1 DEF Whole, Rooted
  <1>10. Repeats(u)
    <2>1. \A p \in DOMAIN t.regs \ {<<>>} : p \in DOMAIN t.faces
      BY RegistryIsFace DEF Whole
    <2>2. Header(face, path) = Header(face, Header(face, path).path)
      BY <1>7
    <2>3. ASSUME NEW p \in DOMAIN u.regs \ {<<>>}
          PROVE  u.regs[p] = Header(u.faces[p], u.regs[p].path)
      <3>1. CASE p \in DOMAIN t.regs
        BY <1>6, <2>1, <3>1 DEF Whole, Repeats
      <3>2. CASE p \notin DOMAIN t.regs
        <4>1. face.needs /\ p = s
          BY <1>6, <3>2
        <4> QED BY <1>6, <1>7, <4>1
      <3> QED BY <3>1, <3>2
    <2> QED BY <2>3 DEF Repeats
  <1>11. ASSUME NEW p \in DOMAIN u.regs
         PROVE  /\ Len(u.regs[p].path) = Len(p)
                /\ \A i \in 1..Len(p) : u.regs[p].path[i] = u.faces[Stem(p, i)].name
    <2>1. \A q \in DOMAIN t.regs : \A i \in 1..Len(q) :
             t.regs[q].path[i] = u.faces[Stem(q, i)].name
      BY <1>6, StemIsFace DEF Whole, Spelled
    <2>2. CASE p \in DOMAIN t.regs
      BY <1>6, <2>1, <2>2 DEF Whole, Spelled
    <2>3. CASE p \notin DOMAIN t.regs
      <3>1. p = s /\ u.regs[p].path = path
        BY <1>6, <1>7, <2>3
      <3>2. ASSUME NEW i \in 1..Len(s) PROVE path[i] = u.faces[Stem(s, i)].name
        <4>1. CASE i = Len(s)
          BY <1>1, <1>4, <1>6, <4>1, StemFull
        <4>2. CASE i # Len(s)
          <5>1. i \in 1..Len(r) /\ i \in 0..Len(r)
            BY <1>1, <4>2
          <5> QED BY <1>4, <1>8, <2>1, <5>1
        <4> QED BY <4>1, <4>2
      <3> QED BY <1>4, <3>1, <3>2
    <2> QED BY <2>2, <2>3
  <1>12. Obedient(u)
    <2>1. \A p \in DOMAIN t.faces : Owner(p) \in DOMAIN t.regs
      BY TypedSlots DEF Whole
    <2> QED BY <1>1, <1>6, <2>1 DEF Whole, Obedient
  <1>13. Whole(u)
    BY <1>5, <1>9, <1>10, <1>11, <1>12 DEF Whole, Spelled, u
  <1> QED BY <1>13 DEF u, s, path

(* A submission with a new identity finds its slot free: it adds one face   *)
(* and disturbs no other.                                                   *)
LEMMA SubmitWhole ==
    ASSUME NEW t, Whole(t), NEW face \in Faces, face.id # RootId,
           HasRegistry(t, face.parent), ~HasFace(t, face.id), Submittable(t, face)
    PROVE  /\ Whole(Submit(t, face))
           /\ \E s \in DOMAIN Submit(t, face).faces : Submit(t, face).faces[s] = face
           /\ \A s \in DOMAIN t.faces :
                 s \in DOMAIN Submit(t, face).faces /\ Submit(t, face).faces[s] = t.faces[s]
           /\ \A s \in DOMAIN t.regs :
                 s \in DOMAIN Submit(t, face).regs /\ Submit(t, face).regs[s] = t.regs[s]
  <1> DEFINE r == RegistrySlot(t, face.parent)
             s == Append(r, face.id)
             rest == Without(t, s)
             path == Append(t.regs[r].path, face.name)
             u == Store(rest, s, face, path)
  <1>1. r \in DOMAIN t.regs /\ t.regs[r].id = face.parent
    BY RegistryAnswer DEF Whole
  <1>2. Obeys(face, t.regs[r].rule)
    BY DEF Submittable
  <1>3. Submit(t, face) = u
    BY DEF Submit, EntrySlot
  <1> HIDE DEF r
  <1>4. s \in Slots /\ s # <<>> /\ Last(s) = face.id
    <2>1. r \in Slots /\ face.id \in NodeIds
      BY <1>1, RegistryIsFace DEF Whole, Faces
    <2> QED BY <2>1, AppendSlot
  <1>5. s \notin DOMAIN t.faces /\ s \notin DOMAIN t.regs
    <2>1. s \notin DOMAIN t.faces
      BY <1>4 DEF Whole, Sound, Linked, HasFace, FacesOf
    <2> QED BY <1>4, <2>1, RegistryIsFace DEF Whole
  <1>6. \A p \in DOMAIN t.faces \cup DOMAIN t.regs : ~IsPrefix(s, p)
    <2> HIDE DEF s
    <2> QED BY <1>4, <1>5, NothingBelow
  <1>7. /\ DOMAIN rest.faces = DOMAIN t.faces /\ DOMAIN rest.regs = DOMAIN t.regs
        /\ \A p \in DOMAIN t.faces : rest.faces[p] = t.faces[p]
        /\ \A p \in DOMAIN t.regs : rest.regs[p] = t.regs[p]
        /\ Whole(rest)
    <2> HIDE DEF s
    <2>1. /\ Sound(t) /\ Whole(rest)
          /\ DOMAIN rest.faces = {p \in DOMAIN t.faces : ~IsPrefix(s, p)}
          /\ DOMAIN rest.regs = {p \in DOMAIN t.regs : ~IsPrefix(s, p)}
      BY <1>4, WithoutSound, WithoutWhole DEF Whole
    <2>2. DOMAIN rest.faces = DOMAIN t.faces /\ DOMAIN rest.regs = DOMAIN t.regs
      BY <1>6, <2>1
    <2> QED BY <1>4, <2>1, <2>2, WithoutSound
  <1>8. ~HasFace(rest, face.id)
    BY <1>7 DEF HasFace, FacesOf
  <1> HIDE DEF rest
  <1>9. Whole(Store(rest, Append(r, face.id), face, Append(rest.regs[r].path, face.name)))
    BY <1>1, <1>2, <1>7, <1>8, StoreWhole
  <1>10. rest.regs[r].path = t.regs[r].path
    BY <1>1, <1>7
  <1>11. Whole(u)
    BY <1>9, <1>10
  <1> HIDE DEF s, path
  <1>12. /\ s \in DOMAIN u.faces /\ u.faces[s] = face
         /\ \A p \in DOMAIN t.faces : p \in DOMAIN u.faces /\ u.faces[p] = t.faces[p]
         /\ \A p \in DOMAIN t.regs : p \in DOMAIN u.regs /\ u.regs[p] = t.regs[p]
    BY <1>5, <1>7 DEF Store
  <1> HIDE DEF u
  <1> QED BY <1>3, <1>11, <1>12

LEMMA TakeEntryWhole ==
    ASSUME NEW t, Whole(t), NEW id, HasFace(t, id)
    PROVE  Whole(TakeEntry(t, id))
  <1>1. Sound(t)
    BY DEF Whole
  <1>2. TakeEntry(t, id) = Without(t, FaceSlot(t, id))
    BY <1>1, FaceAnswer DEF TakeEntry
  <1>3. FaceSlot(t, id) \in Slots /\ FaceSlot(t, id) # <<>>
    BY <1>1, FaceAnswer DEF Sound, IsTree
  <1> QED BY <1>2, <1>3, WithoutWhole

(* Below a registry without entries there is nothing either.                *)
LEMMA EmptyBelow ==
    ASSUME NEW t, Whole(t), NEW s \in Slots, s # <<>>, Entries(t, s) = {}
    PROVE  \A p \in DOMAIN t.faces : IsPrefix(s, p) => p = s
  <1> SUFFICES ASSUME NEW p \in DOMAIN t.faces, IsPrefix(s, p), p # s
               PROVE  FALSE
    OBVIOUS
  <1>1. p \in Slots /\ p # <<>> /\ Len(p) \in Nat /\ Len(s) \in Nat \ {0}
    BY TypedSlots, SlotParts DEF Whole
  <1>2. Len(s) <= Len(p) /\ Stem(p, Len(s)) = s
    BY <1>1, BelowIsStem
  <1>3. Len(s) # Len(p)
    BY <1>1, <1>2, StemFull
  <1> DEFINE n == Len(s) + 1  q == Stem(p, n)
  <1>4. n \in 0..Len(p) /\ n - 1 = Len(s) /\ Len(s) \in 0..n
    BY <1>1, <1>2, <1>3
  <1>5. q \in Slots /\ Len(q) = n /\ q # <<>>
    BY <1>1, <1>4, StemOf
  <1>6. Owner(q) = s
    <2>1. Owner(q) = Stem(q, Len(q) - 1)
      BY <1>5, StemOwner
    <2>2. Stem(q, Len(s)) = Stem(p, Len(s))
      BY <1>1, <1>4, StemOfStem
    <2> HIDE DEF q, n
    <2> QED BY <1>2, <1>4, <1>5, <2>1, <2>2
  <1>7. q \in DOMAIN t.faces
    <2>1. CASE n = Len(p)
      BY <1>1, <2>1, StemFull
    <2>2. CASE n # Len(p)
      <3>1. n \in 1..(Len(p) - 1)
        BY <1>1, <1>4, <2>2
      <3>2. q \in DOMAIN t.regs
        BY <3>1 DEF Whole, Rooted
      <3> QED BY <1>5, <3>2, RegistryIsFace DEF Whole
    <2> QED BY <2>1, <2>2
  <1> QED BY <1>6, <1>7 DEF Entries

(* Rebasing a path onto one of the length of its old beginning.             *)
LEMMA RebasePointwise ==
    ASSUME NEW path \in Paths, NEW old \in Paths, NEW new \in Paths,
           Len(new) = Len(old), Len(old) <= Len(path),
           \A i \in 1..Len(old) : old[i] = path[i]
    PROVE  /\ Len(Rebase(path, old, new)) = Len(path)
           /\ \A i \in 1..Len(old) : Rebase(path, old, new)[i] = new[i]
           /\ \A i \in (Len(old) + 1)..Len(path) : Rebase(path, old, new)[i] = path[i]
  <1> DEFINE k == Len(old)  n == Len(path)  tail == SubSeq(path, k + 1, n)
  <1>1. k \in Nat /\ n \in Nat /\ k <= n /\ \A i \in 1..n : path[i] \in Names
    BY DEF Paths
  <1>2. IsPrefix(old, path)
    BY PrefixPointwise DEF Paths
  <1>3. Rebase(path, old, new) = new \o tail
    BY <1>2 DEF Rebase
  <1>4. /\ tail \in Seq(Names)
        /\ Len(tail) = IF k + 1 <= n THEN n - (k + 1) + 1 ELSE 0
        /\ \A i \in 1..(n - (k + 1) + 1) : tail[i] = path[k + 1 + i - 1]
    <2>1. k + 1 \in Int /\ n \in Int /\ \A i \in (k + 1)..n : path[i] \in Names
      BY <1>1
    <2> HIDE DEF k, n
    <2> QED BY <2>1, SubSeqProperties
  <1> HIDE DEF tail, k, n
  <1>5. Len(tail) = n - k /\ \A i \in 1..(n - k) : tail[i] = path[k + i]
    <2>1. /\ (IF k + 1 <= n THEN n - (k + 1) + 1 ELSE 0) = n - k
          /\ n - (k + 1) + 1 = n - k
          /\ \A i \in 1..(n - k) : k + 1 + i - 1 = k + i
      BY <1>1
    <2> QED BY <1>4, <2>1
  <1>6. /\ new \in Seq(Names) /\ Len(new) = k
    BY DEF Paths, k
  <1>7. /\ Len(new \o tail) = Len(new) + Len(tail)
        /\ \A i \in 1..(Len(new) + Len(tail)) :
              (new \o tail)[i] = IF i <= Len(new) THEN new[i] ELSE tail[i - Len(new)]
    <2>1. new \in Seq(Names) /\ tail \in Seq(Names)
      BY <1>4, <1>6
    <2> QED BY <2>1, ConcatProperties, Zenon
  <1>8. Len(new \o tail) = n
    BY <1>1, <1>5, <1>6, <1>7
  <1>9. \A i \in 1..k : (new \o tail)[i] = new[i]
    BY <1>1, <1>5, <1>6, <1>7
  <1>10. \A i \in (k + 1)..n : (new \o tail)[i] = path[i]
    <2> SUFFICES ASSUME NEW i \in (k + 1)..n PROVE (new \o tail)[i] = path[i]
      OBVIOUS
    <2>1. i \in 1..n /\ ~(i <= k) /\ i - k \in 1..(n - k) /\ k + (i - k) = i
      BY <1>1
    <2>2. (new \o tail)[i] = tail[i - k]
      BY <1>1, <1>5, <1>6, <1>7, <2>1
    <2>3. tail[i - k] = path[k + (i - k)]
      BY <1>5, <2>1
    <2> QED BY <2>1, <2>2, <2>3
  <1> QED BY <1>3, <1>8, <1>9, <1>10 DEF k, n

(* A face replaced where it is keeps every face there was, and the paths    *)
(* and rules below it: a rename is carried down to every nested header.     *)
LEMMA ReplaceInfoWhole ==
    ASSUME NEW t, Whole(t), NEW id, NEW face \in Faces, CanReplaceInfo(t, id, face),
           face.id = id, face.parent = FaceById(t, id).parent,
           Obeys(face, t.regs[RegistrySlot(t, face.parent)].rule),
           ~(HasRegistry(t, id) /\ ChildViolating(t, id, face.rule))
    PROVE  /\ Whole(ReplaceInfo(t, id, face))
           /\ \A other : HasFace(t, other) => HasFace(ReplaceInfo(t, id, face), other)
  <1> DEFINE s == FaceSlot(t, id)
             r == Owner(s)
             old == t.regs[s].path
             path == Append(t.regs[r].path, face.name)
             u == Overwrite(t, s, face)
  <1>1. Sound(t) /\ Sound(ReplaceInfo(t, id, face))
    BY ReplaceInfoSound DEF Whole
  <1>2. /\ s \in DOMAIN t.faces /\ t.faces[s].id = id /\ t.faces[s].parent = face.parent
        /\ ReplaceInfo(t, id, face) = u /\ (face.needs \/ Entries(t, s) = {})
    BY <1>1, FaceAnswer DEF CanReplaceInfo, FaceById, ReplaceInfo
  <1>3. /\ s \in Slots /\ s # <<>> /\ Len(s) \in Nat \ {0}
        /\ r \in DOMAIN t.regs /\ Len(r) = Len(s) - 1
        /\ t.regs[r].id = face.parent /\ s = Append(r, id) /\ r # s
    <2>1. s \in Slots /\ s # <<>> /\ Len(s) \in Nat \ {0} /\ r \in DOMAIN t.regs
          /\ Len(r) = Len(s) - 1
      BY <1>1, <1>2, TypedSlots
    <2>2. t.regs[r].id = face.parent /\ s = Append(r, id)
      BY <1>1, <1>2, <2>1, SlotParts DEF Sound, Linked
    <2> QED BY <2>1, <2>2
  <1>4. RegistrySlot(t, face.parent) = r
    BY <1>1, <1>3, RegistryFound
  <1>5. Obeys(face, t.regs[r].rule)
    BY <1>4
  <1> HIDE DEF s, r
  <1>6. ~IsPrefix(s, r)
    <2>1. r \in Slots
      BY <1>1, <1>3, RegistryIsFace
    <2>2. ~(Len(s) <= Len(r))
      BY <1>3
    <2> QED BY <1>3, <2>1, <2>2, BelowIsStem
  <1>7. t.regs[r].path \in Seq(Names) /\ face.name \in Names /\ Len(t.regs[r].path) = Len(s) - 1
    BY <1>1, <1>3 DEF Whole, Sound, IsTree, Spelled, Headers, Paths, Faces
  <1>8. /\ path \in Paths /\ Len(path) = Len(s) /\ path[Len(s)] = face.name
        /\ \A i \in 1..(Len(s) - 1) : path[i] = t.regs[r].path[i]
    BY <1>3, <1>7 DEF Paths
  <1> HIDE DEF path
  <1>9. CASE s \in DOMAIN t.regs /\ face.needs
    <2>1. /\ DOMAIN u.faces = DOMAIN t.faces /\ DOMAIN u.regs = DOMAIN t.regs
          /\ u.faces[s] = face
          /\ \A p \in DOMAIN t.faces \ {s} : u.faces[p] = t.faces[p]
          /\ u.regs[s] = Header(face, path)
          /\ \A p \in DOMAIN t.regs \ {s} :
                u.regs[p] = IF IsPrefix(s, p)
                            THEN [t.regs[p] EXCEPT !.path = Rebase(t.regs[p].path, old, path)]
                            ELSE t.regs[p]
      BY <1>2, <1>9 DEF Overwrite, path, r
    <2>2. Sound(u)
      BY <1>1, <1>2
    <2> HIDE DEF u
    <2>3. \A p \in DOMAIN t.regs : t.regs[p] \in Headers /\ t.regs[p].path \in Paths
      BY <1>1 DEF Sound, IsTree, Headers
    <2>4. old \in Paths /\ Len(old) = Len(s)
      BY <1>9, <2>3 DEF Whole, Spelled
    <2>5. Rooted(u)
      BY <2>1 DEF Whole, Rooted
    <2>6. \A p \in DOMAIN t.regs \ {s} :
             /\ u.regs[p].rule = t.regs[p].rule
             /\ u.regs[p] = [t.regs[p] EXCEPT !.path = u.regs[p].path]
      BY <2>1, <2>3 DEF Headers
    <2>7. Repeats(u)
      <3>1. Header(face, path) = Header(face, Header(face, path).path)
        BY DEF Header
      <3>2. ASSUME NEW p \in DOMAIN t.regs \ {<<>>, s}
            PROVE  u.regs[p] = Header(t.faces[p], u.regs[p].path)
        <4> DEFINE q == u.regs[p].path
        <4>1. u.regs[p] = [t.regs[p] EXCEPT !.path = q]
          BY <2>6
        <4> HIDE DEF q
        <4>2. t.regs[p] = Header(t.faces[p], t.regs[p].path)
          BY DEF Whole, Repeats
        <4>3. u.regs[p] = Header(t.faces[p], q)
          BY <4>1, <4>2 DEF Header
        <4> QED BY <4>3 DEF q
      <3>3. \A p \in DOMAIN t.regs \ {<<>>, s} : p \in DOMAIN t.faces \ {s}
        BY <1>1, RegistryIsFace
      <3> QED BY <2>1, <3>1, <3>2, <3>3 DEF Repeats
    <2>8. ASSUME NEW q \in Slots, q \in DOMAIN t.faces, NEW rule, rule = u.regs[Owner(q)].rule
          PROVE  Obeys(u.faces[q], rule)
      <3>1. Owner(q) \in DOMAIN t.regs /\ t.regs[Owner(q)].id = t.faces[q].parent
        BY <1>1, <2>8 DEF Sound, Linked
      <3>2. CASE q = s
        <4>1. rule = t.regs[r].rule
          BY <1>3, <2>6, <2>8, <3>2 DEF r
        <4> QED BY <1>5, <2>1, <3>2, <4>1
      <3>3. CASE q # s /\ Owner(q) = s
        <4>1. rule = face.rule
          BY <2>1, <2>8, <3>3 DEF Header
        <4>2. t.regs[s].id = id
          BY <1>1, <1>2, <1>3, <1>9 DEF Sound, Owned
        <4>3. HasRegistry(t, id) /\ t.faces[q].parent = id
          BY <1>9, <3>1, <3>3, <4>2 DEF HasRegistry, RegistriesOf
        <4>4. Obeys(t.faces[q], face.rule)
          BY <2>8, <4>3 DEF ChildViolating
        <4> QED BY <2>1, <2>8, <3>3, <4>1, <4>4
      <3>4. CASE q # s /\ Owner(q) # s
        <4>1. rule = t.regs[Owner(q)].rule
          BY <2>6, <2>8, <3>1, <3>4
        <4> QED BY <2>1, <2>8, <3>4, <4>1 DEF Whole, Obedient
      <3> QED BY <3>2, <3>3, <3>4
    <2>9. Obedient(u)
      BY <1>1, <2>1, <2>8, TypedSlots DEF Obedient
    <2>10. ASSUME NEW p \in DOMAIN t.regs, NEW i \in 1..Len(p)
           PROVE  /\ Stem(p, i) \in DOMAIN t.faces
                  /\ i # Len(s) => u.faces[Stem(p, i)] = t.faces[Stem(p, i)]
                  /\ ~IsPrefix(s, p) => u.faces[Stem(p, i)] = t.faces[Stem(p, i)]
      <3>1. p \in Slots /\ i \in 0..Len(p) /\ Len(p) \in Nat
        BY <1>1, RegistryIsFace DEF Slots
      <3>2. Stem(p, i) \in DOMAIN t.faces /\ Len(Stem(p, i)) = i
        BY <1>1, <3>1, StemIsFace, StemOf DEF Whole
      <3>3. Stem(p, i) = s => i = Len(s) /\ IsPrefix(s, p)
        <4>1. ASSUME Stem(p, i) = s PROVE i = Len(s) /\ Len(s) <= Len(p)
          BY <3>1, <3>2, <4>1
        <4> QED BY <1>3, <3>1, <4>1, BelowIsStem
      <3> QED BY <2>1, <3>2, <3>3
    <2>11. \A i \in 1..Len(s) : path[i] = u.faces[Stem(s, i)].name
      <3> SUFFICES ASSUME NEW i \in 1..Len(s) PROVE path[i] = u.faces[Stem(s, i)].name
        OBVIOUS
      <3>1. CASE i = Len(s)
        BY <1>3, <1>8, <2>1, <3>1, StemFull
      <3>2. CASE i # Len(s)
        <4>1. i \in 1..(Len(s) - 1) /\ i \in 0..(Len(s) - 1) /\ i \in 1..Len(r)
          BY <1>3, <3>2
        <4>2. Stem(r, i) = Stem(s, i)
          BY <1>3, <4>1, StemOfOwner DEF r
        <4>3. path[i] = t.faces[Stem(s, i)].name
          BY <1>3, <1>8, <4>1, <4>2 DEF Whole, Spelled
        <4> QED BY <1>9, <2>10, <3>2, <4>3
      <3> QED BY <3>1, <3>2
    <2>12. ASSUME NEW p \in DOMAIN t.regs
           PROVE  /\ Len(u.regs[p].path) = Len(p)
                  /\ \A i \in 1..Len(p) : u.regs[p].path[i] = u.faces[Stem(p, i)].name
      <3>1. p \in Slots /\ Len(p) \in Nat /\ Len(t.regs[p].path) = Len(p)
        BY <1>1, RegistryIsFace DEF Slots, Whole, Spelled
      <3>2. \A i \in 1..Len(p) : t.regs[p].path[i] = t.faces[Stem(p, i)].name
        BY DEF Whole, Spelled
      <3>3. CASE p = s
        <4>1. u.regs[p].path = path
          BY <2>1, <3>3 DEF Header
        <4> QED BY <1>8, <2>11, <3>3, <4>1
      <3>4. CASE p # s /\ ~IsPrefix(s, p)
        <4>1. u.regs[p] = t.regs[p]
          BY <2>1, <3>4
        <4> QED BY <2>10, <3>1, <3>2, <3>4, <4>1
      <3>5. CASE p # s /\ IsPrefix(s, p)
        <4>1. Len(s) <= Len(p) /\ Stem(p, Len(s)) = s /\ Len(s) \in 0..Len(p)
          <5>1. p \in Slots /\ s \in Slots /\ IsPrefix(s, p)
            BY <1>3, <3>1, <3>5
          <5>2. Len(s) <= Len(p) /\ Stem(p, Len(s)) = s
            BY <5>1, BelowIsStem
          <5> QED BY <1>3, <3>1, <5>2
        <4>2. ASSUME NEW i \in 1..Len(s) PROVE Stem(s, i) = Stem(p, i) /\ i \in 1..Len(p)
          <5>1. i \in 0..Len(s) /\ i \in 1..Len(p)
            BY <1>3, <3>1, <4>1
          <5>2. Stem(Stem(p, Len(s)), i) = Stem(p, i)
            BY <3>1, <4>1, <5>1, StemOfStem
          <5> QED BY <4>1, <5>1, <5>2
        <4> DEFINE q == t.regs[p].path  new == Rebase(q, old, path)
        <4>3. \A i \in 1..Len(s) : old[i] = q[i]
          BY <1>9, <3>2, <4>2 DEF Whole, Spelled
        <4>4. q \in Paths /\ old \in Paths /\ Len(path) = Len(old) /\ Len(old) = Len(s)
              /\ Len(q) = Len(p)
          BY <1>8, <2>3, <2>4, <3>1
        <4>5. u.regs[p].path = new
          BY <2>1, <2>3, <3>5 DEF Headers
        <4> HIDE DEF q, old
        <4>6. /\ Len(new) = Len(p)
              /\ \A i \in 1..Len(s) : new[i] = path[i]
              /\ \A i \in (Len(s) + 1)..Len(p) : new[i] = q[i]
          <5>1. path \in Paths /\ Len(path) = Len(old) /\ Len(old) <= Len(q)
            BY <1>8, <4>1, <4>4
          <5>2. \A i \in 1..Len(old) : old[i] = q[i]
            BY <4>3, <4>4
          <5>3. /\ Len(new) = Len(q)
                /\ \A i \in 1..Len(old) : new[i] = path[i]
                /\ \A i \in (Len(old) + 1)..Len(q) : new[i] = q[i]
            BY <4>4, <5>1, <5>2, RebasePointwise
          <5> QED BY <4>4, <5>3
        <4> HIDE DEF new
        <4>7. ASSUME NEW i \in 1..Len(p) PROVE new[i] = u.faces[Stem(p, i)].name
          <5>1. CASE i \in 1..Len(s)
            BY <2>11, <4>2, <4>6, <5>1
          <5>2. CASE i \notin 1..Len(s)
            <6>1. i \in (Len(s) + 1)..Len(p) /\ i # Len(s)
              BY <1>3, <3>1, <5>2
            <6> QED BY <2>10, <3>2, <4>6, <6>1 DEF q
          <5> QED BY <5>1, <5>2
        <4> QED BY <4>5, <4>6, <4>7
      <3> QED BY <3>3, <3>4, <3>5
    <2>13. Whole(u)
      BY <2>1, <2>2, <2>5, <2>7, <2>9, <2>12 DEF Whole, Spelled
    <2>14. \A other : HasFace(t, other) => HasFace(u, other)
      BY <1>2, <2>1 DEF HasFace, FacesOf
    <2> QED BY <1>2, <2>13, <2>14
  <1>10. CASE ~(s \in DOMAIN t.regs /\ face.needs)
    <2> DEFINE rest == Without(t, s)
    <2>1. u = Store(rest, s, face, path)
      BY <1>10 DEF Overwrite, path, r
    <2>2. \A p \in DOMAIN t.faces : IsPrefix(s, p) => p = s
      <3>1. CASE s \notin DOMAIN t.regs
        BY <1>3, <3>1, NothingBelow
      <3>2. CASE s \in DOMAIN t.regs
        BY <1>2, <1>3, <1>10, <3>2, EmptyBelow
      <3> QED BY <3>1, <3>2
    <2>3. IsPrefix(s, s)
      BY <1>3, StemFull, BelowIsStem
    <2>20. /\ DOMAIN rest.faces = {p \in DOMAIN t.faces : ~IsPrefix(s, p)}
           /\ DOMAIN rest.regs = {p \in DOMAIN t.regs : ~IsPrefix(s, p)}
           /\ \A p \in DOMAIN rest.faces : rest.faces[p] = t.faces[p]
           /\ \A p \in DOMAIN rest.regs : rest.regs[p] = t.regs[p]
      BY DEF Without
    <2>4. /\ DOMAIN rest.faces = DOMAIN t.faces \ {s}
          /\ \A p \in DOMAIN t.faces \ {s} : rest.faces[p] = t.faces[p]
      BY <1>2, <2>2, <2>3, <2>20
    <2>5. r \in DOMAIN rest.regs /\ rest.regs[r] = t.regs[r]
      BY <1>3, <1>6, <2>20
    <2>6. Whole(rest)
      BY <1>3, WithoutWhole
    <2>7. ~HasFace(rest, id) /\ face.id # RootId
      BY <1>1, <1>2, <2>4 DEF HasFace, FacesOf, Sound, Unique
    <2> HIDE DEF rest
    <2>8. Whole(Store(rest, Append(r, face.id), face, Append(rest.regs[r].path, face.name)))
      BY <1>3, <1>5, <2>5, <2>6, <2>7, StoreWhole
    <2>9. Whole(u)
      BY <1>3, <2>1, <2>5, <2>8 DEF path
    <2>10. DOMAIN u.faces = DOMAIN t.faces /\ u.faces[s] = face
           /\ \A p \in DOMAIN t.faces \ {s} : u.faces[p] = t.faces[p]
      BY <1>2, <2>1, <2>4 DEF Store
    <2>11. \A other : HasFace(t, other) => HasFace(u, other)
      BY <1>2, <2>10 DEF HasFace, FacesOf
    <2> QED BY <1>2, <2>9, <2>11
  <1> QED BY <1>9, <1>10

-----------------------------------------------------------------------------
(* The inductive invariant: both trees are sound, and what has not been     *)
(* submitted yet is in neither of them, so every submission finds its slot  *)
(* free.  The planner checked that once, before the loop began.             *)

BatchOK ==
    /\ batch \subseteq Submissions
    /\ pending \subseteq batch /\ waiting \subseteq batch /\ failures \subseteq batch
    /\ pending \cap waiting = {}
    /\ \A face \in batch : \A other \in batch \ {face} : other.id # face.id
    /\ \A face \in pending \cup waiting : ~HasFace(staged, face.id)

FlagsOK ==
    /\ call \in {"none", "register", "migrate"}
    /\ progressed \in BOOLEAN
    /\ answer \in {"none", "ok", "refused"}

IInv == Sound(tree) /\ Sound(staged) /\ BatchOK /\ FlagsOK

LEMMA InitInv == Init => IInv
  BY EmptyRootSound DEF Init, IInv, BatchOK, FlagsOK

LEMMA StageInv ==
    ASSUME IInv, NEW kind \in {"register", "migrate"}, NEW t, Sound(t),
           NEW submissions \in SUBSET Submissions, PlanBatch(t, submissions),
           Stage(kind, t, submissions)
    PROVE  IInv'
  BY DEF IInv, BatchOK, FlagsOK, Stage, PlanBatch, FreshIdentity

LEMMA RefuseInv == ASSUME IInv, Refuse PROVE IInv'
  BY DEF IInv, BatchOK, FlagsOK, Refuse, staging

LEMMA CloseInv ==
    ASSUME IInv, NEW verdict \in {"ok", "refused"}, Close(verdict), Sound(tree)'
    PROVE  IInv'
  BY EmptyRootSound DEF IInv, BatchOK, FlagsOK, Close

LEMMA SubmitInv ==
    ASSUME IInv, NEW face \in Submissions, SubmitSnapshot(face)
    PROVE  IInv'
  <1>1. face \in pending /\ face \in batch /\ face \in Faces /\ face.id # RootId
    BY InputsAssumption, RootAssumption DEF SubmitSnapshot, FirstPending, IInv, BatchOK
  <1>2. ~HasFace(staged, face.id)
    BY <1>1 DEF IInv, BatchOK
  <1>3. UNCHANGED <<tree, call, batch, answer>> /\ pending' = pending \ {face}
    BY DEF SubmitSnapshot
  <1>4. CASE /\ HasRegistry(staged, face.parent)
             /\ staged' = Submit(staged, face) /\ progressed' = TRUE
             /\ UNCHANGED <<waiting, failures>>
    <2>1. /\ Sound(staged')
          /\ \A id : HasFace(staged', id) => HasFace(staged, id) \/ id = face.id
      BY <1>1, <1>2, <1>4, SubmitSound DEF IInv
    <2>2. \A other \in pending' \cup waiting' : other # face /\ other \in batch
      BY <1>1, <1>3, <1>4 DEF IInv, BatchOK
    <2>3. \A other \in pending' \cup waiting' : ~HasFace(staged', other.id)
      BY <1>1, <1>3, <1>4, <2>1, <2>2 DEF IInv, BatchOK
    <2> QED BY <1>3, <1>4, <2>1, <2>3 DEF IInv, BatchOK, FlagsOK
  <1>5. CASE failures' = failures \cup {face} /\ UNCHANGED <<staged, progressed, waiting>>
    BY <1>1, <1>3, <1>5 DEF IInv, BatchOK, FlagsOK
  <1>6. CASE waiting' = waiting \cup {face} /\ UNCHANGED <<staged, progressed, failures>>
    BY <1>1, <1>2, <1>3, <1>6 DEF IInv, BatchOK, FlagsOK
  <1> QED BY <1>4, <1>5, <1>6 DEF SubmitSnapshot

LEMMA ReplaceInv ==
    ASSUME IInv, NEW id \in NodeIds, NEW face \in Edits, ApplySnapshotReplacement(id, face)
    PROVE  IInv'
  <1>1. CASE /\ ReplacementValid(id, face)
             /\ tree' = ReplaceInfo(tree, id, face) /\ answer' = "ok" /\ UNCHANGED staging
    <2>1. face \in Faces
      BY InputsAssumption
    <2>2. Sound(tree')
      BY <1>1, <2>1, ReplaceInfoSound DEF ReplacementValid, SamePlace, IInv
    <2> QED BY <1>1, <2>2 DEF IInv, BatchOK, FlagsOK, staging
  <1>2. CASE Refuse
    BY <1>2, RefuseInv
  <1> QED BY <1>1, <1>2 DEF ApplySnapshotReplacement

LEMMA NextInv == IInv /\ [Next]_vars => IInv'
  <1> SUFFICES ASSUME IInv, [Next]_vars PROVE IInv'
    OBVIOUS
  <1>1. ASSUME NEW b \in Batches, RegisterSnapshotBatch(b) PROVE IInv'
    <2>1. b \in SUBSET Submissions
      BY DEF Batches
    <2> QED BY <1>1, <2>1, StageInv, RefuseInv DEF RegisterSnapshotBatch, IInv
  <1>2. ASSUME NEW face \in Submissions, SubmitSnapshot(face) PROVE IInv'
    BY <1>2, SubmitInv
  <1>3. CASE NextPass
    BY <1>3 DEF NextPass, IInv, BatchOK, FlagsOK
  <1>4. CASE CommitBatch
    BY <1>4, CloseInv DEF CommitBatch, IInv
  <1>5. CASE AcceptMigration
    BY <1>5, CloseInv DEF AcceptMigration, IInv
  <1>6. CASE RejectBatch
    BY <1>6, CloseInv DEF RejectBatch, IInv
  <1>7. ASSUME NEW id \in NodeIds, NEW b \in Batches, ValidateSnapshotMigration(id, b)
        PROVE  IInv'
    <2>1. b \in SUBSET Submissions /\ Sound(TakeEntry(tree, id))
      BY <1>7, TakeEntrySound DEF Batches, ValidateSnapshotMigration, IInv
    <2> QED BY <1>7, <2>1, StageInv, RefuseInv DEF ValidateSnapshotMigration
  <1>8. ASSUME NEW id \in NodeIds, NEW face \in Edits, ApplySnapshotReplacement(id, face)
        PROVE  IInv'
    BY <1>8, ReplaceInv
  <1>9. CASE UNCHANGED vars
    BY <1>9 DEF vars, staging, IInv, BatchOK, FlagsOK
  <1> QED BY <1>1, <1>2, <1>3, <1>4, <1>5, <1>6, <1>7, <1>8, <1>9 DEF Next

LEMMA Inductive == Spec => []IInv
  BY InitInv, NextInv, PTL DEF Spec

\* Whatever the library of declarations, the bound on a batch and the order of
\* transactions, the variables keep their types (the state of transaction.rs).
THEOREM TypeCorrect == Spec => []TypeOK
  <1>1. IInv => TypeOK
    BY DEF IInv, Sound, BatchOK, FlagsOK, TypeOK
  <1> QED BY <1>1, Inductive, PTL

\* One identity names one face of the live tree: plan_batch's check, made once
\* against the receiver, is enough for the whole loop and for every later edit.
THEOREM UniqueIdentities == Spec => []IdentitiesUnique
  <1>1. IInv => IdentitiesUnique
    BY DEF IInv, Sound, Unique, IdentitiesUnique
  <1> QED BY <1>1, Inductive, PTL

\* Every face of the live tree hangs below the registry its declaration names.
THEOREM FacesLinked == Spec => []TreeLinked
  <1>1. IInv => TreeLinked
    BY DEF IInv, Sound, TreeLinked
  <1> QED BY <1>1, Inductive, PTL

-----------------------------------------------------------------------------
(* What the rules, the headers and the loop keep.  While a batch is staged  *)
(* the clone has everything the receiver has, every snapshot of the batch   *)
(* is still to come, waiting, refused or stored, and in a pass that placed  *)
(* nothing whatever waits has no registry to go to.                         *)

Grown(t, u) ==
    /\ \A s \in DOMAIN t.faces : s \in DOMAIN u.faces /\ u.faces[s] = t.faces[s]
    /\ \A s \in DOMAIN t.regs : s \in DOMAIN u.regs /\ u.regs[s] = t.regs[s]

Stored(t, face) == \E s \in DOMAIN t.faces : t.faces[s] = face

LoopOK ==
    call = "register" =>
        /\ Grown(tree, staged)
        /\ \A face \in batch :
              face \in pending \cup waiting \cup failures \/ Stored(staged, face)
        /\ ~progressed => \A face \in waiting : ~HasRegistry(staged, face.parent)
        /\ \A face \in batch :
              BatchParent(batch, face.parent) \/ HasRegistry(tree, face.parent)

WholeInv == IInv /\ Whole(tree) /\ Whole(staged) /\ Connected(tree, None) /\ LoopOK

LEMMA GrownKeeps ==
    ASSUME NEW t, NEW u, Grown(t, u)
    PROVE  \A id : /\ HasFace(t, id) => HasFace(u, id)
                   /\ HasRegistry(t, id) => HasRegistry(u, id)
  BY DEF Grown, HasFace, FacesOf, HasRegistry, RegistriesOf

LEMMA WholeInit == Init => WholeInv
  <1> SUFFICES ASSUME Init PROVE WholeInv
    OBVIOUS
  <1>1. Connected(None, None)
    BY DEF Connected, None, EmptyRoot
  <1> QED BY <1>1, InitInv, EmptyRootWhole DEF Init, WholeInv, LoopOK

LEMMA StageWhole ==
    ASSUME WholeInv, IInv', NEW kind \in {"register", "migrate"}, NEW t, Whole(t),
           kind = "register" => t = tree,
           NEW submissions \in SUBSET Submissions, PlanBatch(t, submissions),
           Stage(kind, t, submissions)
    PROVE  WholeInv'
  <1>1. /\ call' = kind /\ staged' = t /\ batch' = submissions /\ pending' = submissions
        /\ waiting' = {} /\ tree' = tree
    BY DEF Stage
  <1>2. \A face \in submissions :
           BatchParent(submissions, face.parent) \/ HasRegistry(t, face.parent)
    BY DEF PlanBatch, Grounded
  <1>3. LoopOK'
    BY <1>1, <1>2 DEF LoopOK, Grown
  <1> QED BY <1>1, <1>3 DEF WholeInv

LEMMA RefuseWhole == ASSUME WholeInv, IInv', Refuse PROVE WholeInv'
  BY DEF WholeInv, LoopOK, Refuse, staging

LEMMA CloseWhole ==
    ASSUME WholeInv, IInv', NEW verdict, Close(verdict),
           Whole(tree'), Connected(tree', None)
    PROVE  WholeInv'
  <1>1. call' = "none" /\ staged' = None
    BY DEF Close
  <1> QED BY <1>1, EmptyRootWhole DEF WholeInv, LoopOK

LEMMA SubmitLoop ==
    ASSUME WholeInv, IInv', NEW face \in Submissions, SubmitSnapshot(face)
    PROVE  WholeInv'
  <1>1. face \in pending /\ face \in batch /\ face \in Faces /\ face.id # RootId
    BY InputsAssumption, RootAssumption
       DEF SubmitSnapshot, FirstPending, WholeInv, IInv, BatchOK
  <1>2. ~HasFace(staged, face.id)
    BY <1>1 DEF WholeInv, IInv, BatchOK
  <1>3. UNCHANGED <<tree, call, batch, answer>> /\ pending' = pending \ {face}
    BY DEF SubmitSnapshot
  <1>4. CASE /\ HasRegistry(staged, face.parent) /\ Submittable(staged, face)
             /\ staged' = Submit(staged, face) /\ progressed' = TRUE
             /\ UNCHANGED <<waiting, failures>>
    <2>1. Whole(staged') /\ Stored(staged', face) /\ Grown(staged, staged')
      BY <1>1, <1>2, <1>4, SubmitWhole DEF WholeInv, Stored, Grown
    <2>2. \A other : Stored(staged, other) => Stored(staged', other)
      BY <2>1 DEF Stored, Grown
    <2>3. Grown(tree, staged) => Grown(tree', staged')
      BY <1>3, <2>1 DEF Grown
    <2>4. LoopOK'
      BY <1>3, <1>4, <2>1, <2>2, <2>3 DEF WholeInv, LoopOK
    <2> QED BY <1>3, <2>1, <2>4 DEF WholeInv
  <1>5. CASE failures' = failures \cup {face} /\ UNCHANGED <<staged, progressed, waiting>>
    <2>1. LoopOK'
      BY <1>3, <1>5 DEF WholeInv, LoopOK
    <2> QED BY <1>3, <1>5, <2>1 DEF WholeInv
  <1>6. CASE /\ ~HasRegistry(staged, face.parent)
             /\ waiting' = waiting \cup {face} /\ UNCHANGED <<staged, progressed, failures>>
    <2>1. LoopOK'
      BY <1>3, <1>6 DEF WholeInv, LoopOK
    <2> QED BY <1>3, <1>6, <2>1 DEF WholeInv
  <1> QED BY <1>4, <1>5, <1>6 DEF SubmitSnapshot

LEMMA ReplaceWhole ==
    ASSUME WholeInv, IInv', NEW id \in NodeIds, NEW face \in Edits,
           ApplySnapshotReplacement(id, face)
    PROVE  WholeInv' /\ \A other : HasFace(tree, other) => HasFace(tree', other)
  <1>1. CASE /\ ReplacementValid(id, face)
             /\ tree' = ReplaceInfo(tree, id, face) /\ UNCHANGED staging
    <2>1. face \in Faces
      BY InputsAssumption
    <2>2. /\ CanReplaceInfo(tree, id, face) /\ face.id = id
          /\ face.parent = FaceById(tree, id).parent
          /\ Obeys(face, tree.regs[RegistrySlot(tree, face.parent)].rule)
          /\ ~(HasRegistry(tree, id) /\ ChildViolating(tree, id, face.rule))
          /\ Connected(ReplaceInfo(tree, id, face), None)
      BY <1>1 DEF ReplacementValid, SamePlace
    <2>3. Whole(tree') /\ \A other : HasFace(tree, other) => HasFace(tree', other)
      BY <1>1, <2>1, <2>2, ReplaceInfoWhole DEF WholeInv
    <2>4. call = "none" /\ call' = call /\ staged' = staged
      BY <1>1 DEF ApplySnapshotReplacement, staging
    <2> QED BY <1>1, <2>2, <2>3, <2>4 DEF WholeInv, LoopOK
  <1>2. CASE Refuse
    <2>1. tree' = tree
      BY <1>2 DEF Refuse
    <2> QED BY <1>2, <2>1, RefuseWhole
  <1> QED BY <1>1, <1>2 DEF ApplySnapshotReplacement

LEMMA WholeNext == WholeInv /\ [Next]_vars => WholeInv'
  <1> SUFFICES ASSUME WholeInv, [Next]_vars PROVE WholeInv'
    OBVIOUS
  <1>0. IInv'
    BY NextInv DEF WholeInv
  <1>1. ASSUME NEW b \in Batches, RegisterSnapshotBatch(b) PROVE WholeInv'
    <2>1. b \in SUBSET Submissions
      BY DEF Batches
    <2> QED BY <1>0, <1>1, <2>1, StageWhole, RefuseWhole DEF RegisterSnapshotBatch, WholeInv
  <1>2. ASSUME NEW face \in Submissions, SubmitSnapshot(face) PROVE WholeInv'
    BY <1>0, <1>2, SubmitLoop
  <1>3. CASE NextPass
    <2>1. LoopOK'
      BY <1>3 DEF NextPass, WholeInv, LoopOK
    <2> QED BY <1>0, <1>3, <2>1 DEF NextPass, WholeInv
  <1>4. CASE CommitBatch
    BY <1>0, <1>4, CloseWhole DEF CommitBatch, Acceptable, WholeInv
  <1>5. CASE AcceptMigration
    BY <1>0, <1>5, CloseWhole DEF AcceptMigration, WholeInv
  <1>6. CASE RejectBatch
    BY <1>0, <1>6, CloseWhole DEF RejectBatch, WholeInv
  <1>7. ASSUME NEW id \in NodeIds, NEW b \in Batches, ValidateSnapshotMigration(id, b)
        PROVE  WholeInv'
    <2>1. b \in SUBSET Submissions /\ Whole(TakeEntry(tree, id))
      BY <1>7, TakeEntryWhole DEF Batches, ValidateSnapshotMigration, WholeInv
    <2> QED BY <1>0, <1>7, <2>1, StageWhole, RefuseWhole DEF ValidateSnapshotMigration
  <1>8. ASSUME NEW id \in NodeIds, NEW face \in Edits, ApplySnapshotReplacement(id, face)
        PROVE  WholeInv'
    BY <1>0, <1>8, ReplaceWhole
  <1>9. CASE UNCHANGED vars
    BY <1>0, <1>9 DEF vars, staging, WholeInv, LoopOK
  <1> QED BY <1>1, <1>2, <1>3, <1>4, <1>5, <1>6, <1>7, <1>8, <1>9 DEF Next

LEMMA WholeInductive == Spec => []WholeInv
  BY WholeInit, WholeNext, PTL DEF Spec

\* A face owns a registry exactly when it declares one, and the header repeats
\* it with the path of its slot: rebase_paths carries a rename down to every
\* header below, however deep (apply_snapshot_replacement).
THEOREM HeadersMirror == Spec => []HeadersMirrorFaces
  <1>1. WholeInv => HeadersMirrorFaces
    BY HeadersRepeatFaces DEF WholeInv, HeadersMirrorFaces
  <1> QED BY <1>1, WholeInductive, PTL

\* Every face of the live tree obeys the rule of the registry that holds it:
\* submit_snapshot_at asks it of the newcomer and child_violating of the faces
\* already below a rule that is tightened.
THEOREM RulesKept == Spec => []RulesHold
  <1>1. WholeInv => RulesHold
    BY DEF WholeInv, Whole, Obedient, RulesHold
  <1> QED BY <1>1, WholeInductive, PTL

(* A path of a whole tree spells the names of its faces.                     *)
LEMMA PathSpells ==
    ASSUME NEW t, Whole(t)
    PROVE  /\ \A s \in DOMAIN t.faces : SlotPath(t, s) = Spelling(t, s)
           /\ \A r \in DOMAIN t.regs \ {<<>>} : t.regs[r].path = Spelling(t, r)
  <1>1. ASSUME NEW r \in DOMAIN t.regs \ {<<>>} PROVE t.regs[r].path = Spelling(t, r)
    <2> DEFINE a == t.regs[r].path  b == Spelling(t, r)
    <2>1. r \in Slots /\ r \in DOMAIN t.faces /\ Len(r) \in Nat
      BY RegistryIsFace DEF Whole, Slots
    <2>2. a \in Seq(Names) /\ Len(a) = Len(r)
          /\ \A i \in 1..Len(r) : a[i] = t.faces[Stem(r, i)].name
      BY DEF Whole, Sound, IsTree, Headers, Paths, Spelled
    <2>3. \A i \in 1..Len(r) : b[i] = t.faces[Stem(r, i)].name /\ b[i] = a[i]
      BY <2>2 DEF Spelling, Stem
    <2> HIDE DEF a
    <2>4. \A i \in 1..Len(r) : a[i] \in Names
      BY <2>2
    <2>5. b = [i \in 1..Len(r) |-> a[i]]
      BY <2>3 DEF Spelling
    <2> HIDE DEF b
    <2>6. b \in Seq(Names) /\ Len(b) = Len(r)
      BY <2>1, <2>4, <2>5
    <2>7. a = b
      BY <2>2, <2>3, <2>6, SeqEqual
    <2> QED BY <2>7 DEF a, b
  <1>2. ASSUME NEW s \in DOMAIN t.faces PROVE SlotPath(t, s) = Spelling(t, s)
    <2> DEFINE a == t.regs[Owner(s)].path  n == t.faces[s].name  b == Spelling(t, s)
    <2>1. s \in Slots /\ s # <<>> /\ Len(s) \in Nat \ {0} /\ Owner(s) \in DOMAIN t.regs
          /\ Len(Owner(s)) = Len(s) - 1
      BY TypedSlots DEF Whole
    <2>2. a \in Seq(Names) /\ n \in Names /\ Len(a) = Len(s) - 1
          /\ \A i \in 1..(Len(s) - 1) : a[i] = t.faces[Stem(Owner(s), i)].name
      BY <2>1 DEF Whole, Sound, IsTree, Headers, Faces, Paths, Spelled
    <2>3. \A i \in 1..(Len(s) - 1) : Stem(Owner(s), i) = Stem(s, i)
      BY <2>1, StemOfOwner
    <2>4. Stem(s, Len(s)) = s
      BY <2>1, StemFull
    <2>5. /\ \A i \in 1..(Len(s) - 1) : b[i] = a[i]
          /\ b[Len(s)] = n /\ b = [i \in 1..Len(s) |-> b[i]]
      <3>1. b = [i \in 1..Len(s) |-> t.faces[Stem(s, i)].name]
        BY DEF Spelling, Stem
      <3> HIDE DEF b
      <3>2. \A i \in 1..Len(s) : b[i] = t.faces[Stem(s, i)].name
        BY <3>1
      <3>3. b = [i \in 1..Len(s) |-> b[i]]
        BY <3>1
      <3>4. Len(s) \in 1..Len(s) /\ \A i \in 1..(Len(s) - 1) : i \in 1..Len(s)
        BY <2>1
      <3> QED BY <2>2, <2>3, <2>4, <3>2, <3>3, <3>4
    <2> HIDE DEF a, n, b
    <2> DEFINE c == Append(a, n)
    <2>6. c \in Seq(Names) /\ Len(c) = Len(s) /\ c[Len(s)] = n
          /\ \A i \in 1..(Len(s) - 1) : c[i] = a[i]
      BY <2>1, <2>2
    <2> HIDE DEF c
    <2>7. \A i \in 1..Len(s) : c[i] = b[i] /\ b[i] \in Names
      <3> SUFFICES ASSUME NEW i \in 1..Len(s) PROVE c[i] = b[i] /\ b[i] \in Names
        OBVIOUS
      <3>1. i = Len(s) \/ i \in 1..(Len(s) - 1)
        BY <2>1
      <3>2. c[i] = b[i]
        BY <2>5, <2>6, <3>1
      <3> QED BY <2>6, <3>2
    <2>8. b \in Seq(Names) /\ Len(b) = Len(s)
      BY <2>1, <2>5, <2>7
    <2>9. c = b
      BY <2>6, <2>7, <2>8, SeqEqual
    <2> QED BY <2>9 DEF SlotPath, a, n, b, c
  <1> QED BY <1>1, <1>2

(* The connector finds by identity what stands above a face.                 *)
LEMMA AncestorsAbove ==
    ASSUME NEW t, Whole(t), NEW s \in DOMAIN t.faces
    PROVE  /\ HasRegistry(t, t.faces[s].parent) /\ RegistrySlot(t, t.faces[s].parent) = Owner(s)
           /\ AncestorSlots(t, t.faces[s].parent) = {p \in DOMAIN t.faces : IsPrefix(p, Owner(s))}
  <1> DEFINE r == Owner(s)  id == t.faces[s].parent  ends == RegistriesOf(t, id) \ {<<>>}
  <1>1. Sound(t) /\ r \in DOMAIN t.regs /\ t.regs[r].id = id
    BY DEF Whole, Sound, Linked
  <1>2. HasRegistry(t, id) /\ RegistrySlot(t, id) = r
    BY <1>1, RegistryFound
  <1>3. RegistriesOf(t, id) = {r}
    BY <1>1 DEF Sound, Unique, Owned, IsTree, RegistriesOf
  <1>4. CASE r = <<>>
    <2>1. ends = {}
      BY <1>3, <1>4
    <2>2. ASSUME NEW p \in DOMAIN t.faces PROVE ~IsPrefix(p, r)
      <3>1. p \in Slots /\ p # <<>>
        BY <1>1, TypedSlots
      <3> QED BY <1>4, <3>1, RootNotBelow
    <2>3. AncestorSlots(t, id) = {}
      BY <2>1 DEF AncestorSlots
    <2> QED BY <1>2, <2>2, <2>3
  <1>5. CASE r # <<>>
    <2>1. ends = {r}
      BY <1>3, <1>5
    <2> HIDE DEF r
    <2>2. (CHOOSE e \in {r} : \A other \in {r} \ {e} : DeepFirst(e, other)) = r
      OBVIOUS
    <2>3. AncestorSlots(t, id) = {p \in DOMAIN t.faces : IsPrefix(p, r)}
      BY <2>1, <2>2 DEF AncestorSlots
    <2> QED BY <1>2, <2>3 DEF r
  <1> QED BY <1>4, <1>5

(* What the connector has let pass reads the same off the faces.             *)
LEMMA ConnectedReachable ==
    ASSUME Whole(tree), Connected(tree, None)
    PROVE  InputsReachable
  <1> SUFFICES ASSUME NEW s \in DOMAIN tree.faces, NEW requirement \in tree.faces[s].requires
               PROVE  LET offers == {p \in DOMAIN tree.faces : Provides(tree.faces[p], requirement)}
                          above == {p \in offers : IsPrefix(p, Owner(s))}
                          candidates == IF above # {} THEN above ELSE offers
                      IN  /\ Cardinality(candidates) = 1
                          /\ Owner(s) # <<>> => \A p \in candidates :
                                \/ IsStrictPrefix(Spelling(tree, Owner(s)), Spelling(tree, p))
                                \/ Accepts(tree.faces[Owner(s)].admission, Spelling(tree, p))
    BY DEF InputsReachable
  <1> DEFINE offers == {p \in DOMAIN tree.faces : Provides(tree.faces[p], requirement)}
             above == {p \in offers : IsPrefix(p, Owner(s))}
             candidates == IF above # {} THEN above ELSE offers
             owner == tree.faces[s].parent
  <1>1. /\ HasRegistry(tree, owner) /\ RegistrySlot(tree, owner) = Owner(s)
        /\ AncestorSlots(tree, owner) = {p \in DOMAIN tree.faces : IsPrefix(p, Owner(s))}
    BY AncestorsAbove
  <1>2. {p \in AncestorSlots(tree, owner) : Provides(tree.faces[p], requirement)} = above
    BY <1>1
  <1>3. ProviderSlots(tree, owner, requirement) = candidates
    BY <1>2 DEF ProviderSlots
  <1>4. ProviderSlots(None, owner, requirement) = {}
    <2>1. DOMAIN None.faces = {}
      BY DEF None, EmptyRoot
    <2>2. AncestorSlots(None, owner) = {}
      BY <2>1 DEF AncestorSlots
    <2> QED BY <2>1, <2>2 DEF ProviderSlots
  <1>5. Cardinality({}) = 0
    BY FS_EmptySet
  <1>6. /\ Cardinality(candidates) = 1
        /\ \A p \in candidates :
              GateAdmits(tree, owner, ProviderPath(tree, None, tree.faces[p].id))
    <2>1. Attaches(tree, None, tree.faces[s], requirement)
      BY DEF Connected
    <2> HIDE DEF candidates
    <2> QED BY <1>3, <1>4, <1>5, <2>1 DEF Attaches
  <1>7. candidates \subseteq DOMAIN tree.faces
    OBVIOUS
  <1>8. ASSUME Owner(s) # <<>>, NEW p \in candidates
        PROVE  \/ IsStrictPrefix(Spelling(tree, Owner(s)), Spelling(tree, p))
               \/ Accepts(tree.faces[Owner(s)].admission, Spelling(tree, p))
    <2>1. p \in DOMAIN tree.faces
      BY <1>7
    <2>2. ProviderPath(tree, None, tree.faces[p].id) = Spelling(tree, p)
      <3>1. FacesOf(tree, tree.faces[p].id) = {p}
        BY <2>1 DEF Whole, Sound, Unique, FacesOf
      <3>2. HasFace(tree, tree.faces[p].id) /\ FaceSlot(tree, tree.faces[p].id) = p
        BY <3>1 DEF HasFace, FaceSlot
      <3> QED BY <2>1, <3>2, PathSpells DEF ProviderPath, PathFor
    <2>3. Owner(s) \in DOMAIN tree.regs
      BY TypedSlots DEF Whole
    <2>4. tree.regs[Owner(s)] = Header(tree.faces[Owner(s)], tree.regs[Owner(s)].path)
          /\ tree.regs[Owner(s)].path = Spelling(tree, Owner(s))
      BY <1>8, <2>3, PathSpells DEF Whole, Repeats
    <2>5. tree.regs[Owner(s)].admission = tree.faces[Owner(s)].admission
      BY <2>4 DEF Header
    <2>6. GateAdmits(tree, owner, Spelling(tree, p))
      BY <1>6, <1>8, <2>2
    <2> QED BY <1>1, <2>4, <2>5, <2>6 DEF GateAdmits
  <1> HIDE DEF offers, candidates
  <1>9. /\ Cardinality(candidates) = 1
        /\ Owner(s) # <<>> => \A p \in candidates :
              \/ IsStrictPrefix(Spelling(tree, Owner(s)), Spelling(tree, p))
              \/ Accepts(tree.faces[Owner(s)].admission, Spelling(tree, p))
    BY <1>6, <1>8
  <1> QED BY <1>9 DEF offers, candidates

\* An input of a live face has one nearest provider that the gate above the
\* face admits, read off the faces: the connector, which looks registries up by
\* identity and reads paths and gates from headers, cannot have been misled by
\* an earlier rename, move of a gate or batch.
THEOREM InputsStayReachable == Spec => []InputsReachable
  <1>1. WholeInv => InputsReachable
    BY ConnectedReachable DEF WholeInv
  <1> QED BY <1>1, WholeInductive, PTL

\* A transaction answers once and all at once, and no face the live tree had is
\* lost by a batch or an edit, nor anything at all by a rehearsed migration.
THEOREM NoFaceIsLost == Spec => NothingLost
  <1> DEFINE Keeps ==
        /\ tree' # tree => call' = "none" /\ answer' = "ok"
        /\ \A id \in NodeIds : HasFace(tree, id) => HasFace(tree', id)
  <1>1. WholeInv /\ [Next]_vars => [Keeps]_vars
    <2> SUFFICES ASSUME WholeInv, Next PROVE Keeps
      OBVIOUS
    <2>1. CASE CommitBatch
      <3>1. tree' = staged /\ call' = "none" /\ answer' = "ok" /\ call = "register"
        BY <2>1 DEF CommitBatch, Close
      <3>2. Grown(tree, staged)
        BY <3>1 DEF WholeInv, LoopOK
      <3> QED BY <3>1, <3>2, GrownKeeps
    <2>2. ASSUME NEW id \in NodeIds, NEW face \in Edits, ApplySnapshotReplacement(id, face)
          PROVE  Keeps
      <3>1. \A other : HasFace(tree, other) => HasFace(tree', other)
        BY <2>2, NextInv, ReplaceWhole DEF WholeInv, Next
      <3>2. tree' # tree => call' = "none" /\ answer' = "ok"
        BY <2>2 DEF ApplySnapshotReplacement, Refuse, staging
      <3> QED BY <3>1, <3>2
    <2>3. ASSUME tree' = tree PROVE Keeps
      BY <2>3
    <2>4. \/ tree' = tree \/ CommitBatch
          \/ \E id \in NodeIds, face \in Edits : ApplySnapshotReplacement(id, face)
      BY DEF Next, RegisterSnapshotBatch, Refuse, Stage, SubmitSnapshot, NextPass,
             AcceptMigration, RejectBatch, ValidateSnapshotMigration
    <2> QED BY <2>1, <2>2, <2>3, <2>4
  <1> QED BY <1>1, WholeInductive, PTL DEF Spec, NothingLost

\* A snapshot left over by an accepted batch waits below a snapshot of the same
\* batch that declares no registry: the loop of register_snapshot_batch gives up
\* on nothing else, in whatever order NodeIds make it walk.
THEOREM OnlyBelowLeaves == Spec => OnlyBelowLeavesDropped
  <1> DEFINE Left ==
        call = "register" /\ call' = "none" /\ answer' = "ok" =>
          \A face \in batch : HasFace(tree', face.id) \/
              \E above \in batch :
                  /\ above.id = face.parent
                  /\ above.needs => ~HasFace(tree', above.id)
  <1>1. WholeInv /\ [Next]_vars => [Left]_vars
    <2> SUFFICES ASSUME WholeInv, Next, call = "register", call' = "none", answer' = "ok",
                        NEW face \in batch, ~HasFace(tree', face.id)
                 PROVE  \E above \in batch :
                           /\ above.id = face.parent
                           /\ above.needs => ~HasFace(tree', above.id)
      OBVIOUS
    <2>1. CommitBatch
      BY DEF Next, RegisterSnapshotBatch, Refuse, Stage, SubmitSnapshot, NextPass, staging,
             AcceptMigration, RejectBatch, Close, ValidateSnapshotMigration,
             ApplySnapshotReplacement
    <2>2. /\ tree' = staged /\ pending = {} /\ failures = {}
          /\ waiting = {} \/ ~progressed
      BY <2>1 DEF CommitBatch, Finished, Acceptable
    <2>3. \A other \in batch : Stored(staged, other) => HasFace(staged, other.id)
      BY DEF Stored, HasFace, FacesOf
    <2>4. face \in waiting /\ ~HasRegistry(staged, face.parent)
      BY <2>2, <2>3 DEF WholeInv, LoopOK
    <2>5. PICK above \in batch : above.id = face.parent
      <3>1. ~HasRegistry(tree, face.parent)
        BY <2>4, GrownKeeps DEF WholeInv, LoopOK
      <3> QED BY <3>1 DEF WholeInv, LoopOK, BatchParent
    <2>6. ASSUME above.needs, HasFace(staged, above.id) PROVE FALSE
      <3>1. above \notin waiting
        BY <2>6 DEF WholeInv, IInv, BatchOK
      <3>2. PICK s \in DOMAIN staged.faces : staged.faces[s] = above
        BY <2>2, <3>1 DEF WholeInv, LoopOK, Stored
      <3>3. s \in DOMAIN staged.regs /\ staged.regs[s].id = above.id
        <4>1. s # <<>> /\ s \in DOMAIN staged.regs
          BY <2>6, <3>2, TypedSlots DEF WholeInv, IInv, Sound, Owned
        <4> QED BY <3>2, <4>1 DEF WholeInv, IInv, Sound, Owned
      <3> QED BY <2>4, <2>5, <3>3 DEF HasRegistry, RegistriesOf
    <2> QED BY <2>2, <2>5, <2>6
  <1> QED BY <1>1, WholeInductive, PTL DEF Spec, OnlyBelowLeavesDropped



-----------------------------------------------------------------------------
(* The two orders in which a registry answers a lookup are both lexical.  A  *)
(* key gives every position of a slot a number, 0 beyond its end.            *)

Keys == [Nat \ {0} -> Nat]

Lex(f, g) ==
    \E k \in Nat \ {0} : f[k] < g[k] /\ \A i \in 1..(k - 1) : f[i] = g[i]

LEMMA LeastNat ==
    ASSUME NEW T \in SUBSET Nat, T # {}
    PROVE  \E n \in T : \A m \in T : n <= m
  <1> DEFINE R == OpToRel(<, Nat)
  <1>1. \E n \in T : \A m \in T : ~(<<m, n>> \in R)
    <2>1. IsWellFoundedOn(R, Nat)
      BY NatLessThanWellFounded
    <2> HIDE DEF R
    <2> QED BY <2>1, WFMin
  <1>2. \A m, n \in Nat : <<m, n>> \in R <=> m < n
    BY DEF OpToRel
  <1> HIDE DEF R
  <1>3. PICK n \in T : \A m \in T : ~(<<m, n>> \in R)
    BY <1>1
  <1>4. ASSUME NEW m \in T PROVE n <= m
    <2>1. m \in Nat /\ n \in Nat
      OBVIOUS
    <2>2. ~(m < n)
      BY <1>2, <1>3, <2>1
    <2> QED BY <2>1, <2>2
  <1> QED BY <1>4

LEMMA LexTotal ==
    ASSUME NEW f \in Keys, NEW g \in Keys, f # g
    PROVE  Lex(f, g) \/ Lex(g, f)
  <1> DEFINE T == {k \in Nat \ {0} : f[k] # g[k]}
  <1>1. T # {} /\ T \in SUBSET Nat
    <2>1. \E k \in Nat \ {0} : f[k] # g[k]
      BY DEF Keys
    <2> QED BY <2>1
  <1>2. PICK k \in T : \A m \in T : k <= m
    <2> HIDE DEF T
    <2> QED BY <1>1, LeastNat
  <1>3. k \in Nat \ {0} /\ f[k] # g[k] /\ f[k] \in Nat /\ g[k] \in Nat
    BY DEF Keys
  <1>4. \A i \in 1..(k - 1) : f[i] = g[i]
    <2> SUFFICES ASSUME NEW i \in 1..(k - 1), f[i] # g[i] PROVE FALSE
      OBVIOUS
    <2>1. i \in Nat \ {0} /\ i < k
      BY <1>3
    <2>2. i \in T
      BY <2>1
    <2> QED BY <1>2, <1>3, <2>1, <2>2
  <1>5. f[k] < g[k] \/ g[k] < f[k]
    BY <1>3
  <1>6. \A i \in 1..(k - 1) : g[i] = f[i]
    BY <1>4
  <1> QED BY <1>3, <1>4, <1>5, <1>6 DEF Lex

LEMMA LexTrans ==
    ASSUME NEW f \in Keys, NEW g \in Keys, NEW h \in Keys, Lex(f, g), Lex(g, h)
    PROVE  Lex(f, h)
  <1>1. PICK k \in Nat \ {0} : f[k] < g[k] /\ \A i \in 1..(k - 1) : f[i] = g[i]
    BY DEF Lex
  <1>2. PICK l \in Nat \ {0} : g[l] < h[l] /\ \A i \in 1..(l - 1) : g[i] = h[i]
    BY DEF Lex
  <1>3. f[k] \in Nat /\ g[k] \in Nat /\ h[k] \in Nat /\ f[l] \in Nat /\ g[l] \in Nat /\ h[l] \in Nat
    BY DEF Keys
  <1>4. CASE k <= l
    <2>1. g[k] <= h[k]
      <3>1. k = l \/ k \in 1..(l - 1)
        BY <1>4
      <3> QED BY <1>2, <1>3, <3>1
    <2>2. \A i \in 1..(k - 1) : f[i] = h[i]
      <3>1. \A i \in 1..(k - 1) : i \in 1..(l - 1)
        BY <1>4
      <3> QED BY <1>1, <1>2, <3>1
    <2>3. f[k] < h[k]
      BY <1>1, <1>3, <2>1
    <2> QED BY <2>2, <2>3 DEF Lex
  <1>5. CASE l < k
    <2>1. l \in 1..(k - 1)
      BY <1>5
    <2>2. f[l] < h[l]
      BY <1>1, <1>2, <1>3, <2>1
    <2>3. \A i \in 1..(l - 1) : f[i] = h[i]
      <3>1. \A i \in 1..(l - 1) : i \in 1..(k - 1)
        BY <1>5
      <3> QED BY <1>1, <1>2, <3>1
    <2> QED BY <2>2, <2>3 DEF Lex
  <1> QED BY <1>4, <1>5

LEMMA LexAsym ==
    ASSUME NEW f \in Keys, NEW g \in Keys, Lex(f, g)
    PROVE  ~Lex(g, f)
  <1>1. Lex(f, f) => FALSE
    <2> SUFFICES ASSUME NEW k \in Nat \ {0}, f[k] < f[k] PROVE FALSE
      BY DEF Lex
    <2>1. f[k] \in Nat
      BY DEF Keys
    <2> QED BY <2>1
  <1> QED BY <1>1, LexTrans

(* A finite set has a first element, whatever key tells its elements apart.  *)
LEMMA LexFirst ==
    ASSUME NEW S, IsFiniteSet(S), S # {}, NEW key \in [S -> Keys],
           \A s, p \in S : key[s] = key[p] => s = p
    PROVE  \E s \in S : \A p \in S \ {s} : Lex(key[s], key[p])
  <1> DEFINE First(T) == \E s \in T : \A p \in T \ {s} : Lex(key[s], key[p])
             Bad == {n \in Nat : \E T \in SUBSET S : T # {} /\ Cardinality(T) = n /\ ~First(T)}
  <1>1. SUFFICES ASSUME ~First(S) PROVE FALSE
    OBVIOUS
  <1>2. \A T \in SUBSET S : IsFiniteSet(T) /\ Cardinality(T) \in Nat
    BY FS_Subset, FS_CardinalityType
  <1>3. Bad # {} /\ Bad \in SUBSET Nat
    <2>1. Cardinality(S) \in Bad
      BY <1>1, <1>2
    <2> QED BY <2>1
  <1>4. PICK n \in Bad : \A m \in Bad : n <= m
    <2> HIDE DEF Bad
    <2> QED BY <1>3, LeastNat
  <1>5. PICK T \in SUBSET S : T # {} /\ Cardinality(T) = n /\ ~First(T)
    OBVIOUS
  <1>6. PICK x \in T : TRUE
    BY <1>5
  <1> DEFINE U == T \ {x}
  <1>7. IsFiniteSet(U) /\ Cardinality(U) = n - 1 /\ n \in Nat
    BY <1>2, <1>5, FS_RemoveElement
  <1>8. U # {}
    <2> SUFFICES ASSUME U = {} PROVE FALSE
      OBVIOUS
    <2>1. T \ {x} = {}
      OBVIOUS
    <2>2. \A p \in T \ {x} : Lex(key[x], key[p])
      BY <2>1
    <2> QED BY <1>5, <2>2
  <1>9. First(U)
    <2> SUFFICES ASSUME ~First(U) PROVE FALSE
      OBVIOUS
    <2>1. U \in SUBSET S /\ Cardinality(U) \in Nat
      BY <1>2
    <2>2. n - 1 \in Bad
      BY <1>7, <1>8, <2>1
    <2> HIDE DEF Bad, U
    <2> QED BY <1>4, <1>7, <2>2
  <1>10. PICK m \in U : \A p \in U \ {m} : Lex(key[m], key[p])
    BY <1>9
  <1>11. x \in S /\ m \in S /\ x # m /\ T \subseteq S /\ U \subseteq S
    OBVIOUS
  <1>12. \A s \in S : key[s] \in Keys
    OBVIOUS
  <1>13. key[x] # key[m]
    BY <1>11
  <1>14. CASE Lex(key[m], key[x])
    <2>1. \A p \in T \ {m} : Lex(key[m], key[p])
      BY <1>10, <1>14
    <2> QED BY <1>5, <2>1
  <1>15. CASE Lex(key[x], key[m])
    <2>1. ASSUME NEW p \in T \ {x} PROVE Lex(key[x], key[p])
      <3>1. CASE p = m
        BY <1>15, <3>1
      <3>2. CASE p # m
        <4>1. Lex(key[m], key[p])
          BY <1>10, <3>2
        <4> QED BY <1>11, <1>12, <1>15, <4>1, LexTrans
      <3> QED BY <3>1, <3>2
    <2> QED BY <1>5, <2>1
  <1> QED BY <1>11, <1>12, <1>13, <1>14, <1>15, LexTotal

PreKey(s) == [k \in Nat \ {0} |-> IF k <= Len(s) THEN s[k] + 1 ELSE 0]
LevelKey(s) == [k \in Nat \ {0} |-> IF k < Len(s) THEN s[k] + 2
                                    ELSE IF k = Len(s) THEN 1 ELSE 0]

LEMMA SlotNumbers ==
    ASSUME NEW s \in Slots
    PROVE  /\ Len(s) \in Nat /\ DOMAIN s = 1..Len(s)
           /\ \A k \in 1..Len(s) : s[k] \in NodeIds /\ s[k] \in Nat
           /\ PreKey(s) \in Keys /\ LevelKey(s) \in Keys
  <1>1. Len(s) \in Nat /\ DOMAIN s = 1..Len(s) /\ \A k \in 1..Len(s) : s[k] \in NodeIds
    BY DEF Slots
  <1>2. \A k \in 1..Len(s) : s[k] \in Nat
    BY <1>1, NodeIdsAssumption
  <1>3. ASSUME NEW k \in Nat \ {0}
        PROVE  (k <= Len(s) => s[k] + 1 \in Nat) /\ (k < Len(s) => s[k] + 2 \in Nat)
    <2>1. k <= Len(s) => k \in 1..Len(s)
      BY <1>1
    <2>2. k <= Len(s) => s[k] \in Nat
      BY <1>2, <2>1
    <2>3. k < Len(s) => k <= Len(s)
      BY <1>1
    <2> QED BY <2>2, <2>3
  <1>4. PreKey(s) \in Keys /\ LevelKey(s) \in Keys
    BY <1>3 DEF PreKey, LevelKey, Keys
  <1> QED BY <1>1, <1>2, <1>4

LEMMA LastOf ==
    ASSUME NEW s \in Slots, s # <<>>
    PROVE  Len(s) \in Nat \ {0} /\ Last(s) = s[Len(s)]
  BY SlotParts DEF Last

(* Slots are told apart by either key, siblings by their last identity.      *)
LEMMA KeysDiffer ==
    ASSUME NEW p \in Slots, NEW q \in Slots
    PROVE  /\ PreKey(p) = PreKey(q) => p = q
           /\ p # <<>> /\ q # <<>> /\ Last(p) = Last(q) /\ LevelKey(p) = LevelKey(q) => p = q
  <1>1. ASSUME PreKey(p) = PreKey(q) PROVE p = q
    <2>1. \A k \in Nat \ {0} : (IF k <= Len(p) THEN p[k] + 1 ELSE 0)
                                = (IF k <= Len(q) THEN q[k] + 1 ELSE 0)
      <3> SUFFICES ASSUME NEW k \in Nat \ {0}
                   PROVE  (IF k <= Len(p) THEN p[k] + 1 ELSE 0)
                            = (IF k <= Len(q) THEN q[k] + 1 ELSE 0)
        OBVIOUS
      <3>1. PreKey(p)[k] = PreKey(q)[k]
        BY <1>1
      <3> QED BY <3>1 DEF PreKey
    <2>2. \A k \in Nat \ {0} : (k <= Len(p) <=> k <= Len(q))
      <3> SUFFICES ASSUME NEW k \in Nat \ {0} PROVE k <= Len(p) <=> k <= Len(q)
        OBVIOUS
      <3>1. (k <= Len(p) => k \in 1..Len(p)) /\ (k <= Len(q) => k \in 1..Len(q))
        BY SlotNumbers
      <3>2. (k <= Len(p) => p[k] \in Nat) /\ (k <= Len(q) => q[k] \in Nat)
        BY <3>1, SlotNumbers
      <3> QED BY <2>1, <3>2
    <2>3. Len(p) = Len(q)
      <3>1. Len(p) \in Nat /\ Len(q) \in Nat
        BY SlotNumbers
      <3>2. CASE Len(p) < Len(q)
        <4>1. Len(q) \in Nat \ {0}
          BY <3>1, <3>2
        <4> QED BY <2>2, <3>1, <3>2, <4>1
      <3>3. CASE Len(q) < Len(p)
        <4>1. Len(p) \in Nat \ {0}
          BY <3>1, <3>3
        <4> QED BY <2>2, <3>1, <3>3, <4>1
      <3> QED BY <3>1, <3>2, <3>3
    <2>4. ASSUME NEW k \in 1..Len(p) PROVE p[k] = q[k]
      <3>1. k \in Nat \ {0} /\ k <= Len(p) /\ k <= Len(q) /\ p[k] \in Nat /\ q[k] \in Nat
        BY <2>3, SlotNumbers
      <3> QED BY <2>1, <3>1
    <2> QED BY <2>3, <2>4, SlotEqual
  <1>2. ASSUME p # <<>>, q # <<>>, Last(p) = Last(q), LevelKey(p) = LevelKey(q) PROVE p = q
    <2>1. Len(p) \in Nat \ {0} /\ Len(q) \in Nat \ {0} /\ p[Len(p)] = q[Len(q)]
      BY <1>2, LastOf
    <2>2. ASSUME NEW k \in Nat \ {0}
          PROVE  (IF k < Len(p) THEN p[k] + 2 ELSE IF k = Len(p) THEN 1 ELSE 0)
                   = (IF k < Len(q) THEN q[k] + 2 ELSE IF k = Len(q) THEN 1 ELSE 0)
      <3>1. LevelKey(p)[k] = LevelKey(q)[k]
        BY <1>2
      <3> QED BY <3>1 DEF LevelKey
    <2>3. /\ Len(p) < Len(q) => q[Len(p)] \in Nat
          /\ Len(q) < Len(p) => p[Len(q)] \in Nat
      <3>1. (Len(p) < Len(q) => Len(p) \in 1..Len(q)) /\ (Len(q) < Len(p) => Len(q) \in 1..Len(p))
        BY <2>1
      <3> QED BY <3>1, SlotNumbers
    <2>4. Len(p) = Len(q)
      BY <2>1, <2>2, <2>3
    <2>5. ASSUME NEW k \in 1..Len(p) PROVE p[k] = q[k]
      <3>1. k \in Nat \ {0} /\ p[k] \in Nat /\ q[k] \in Nat /\ (k < Len(p) \/ k = Len(p))
        BY <2>4, SlotNumbers
      <3>2. k < Len(p) => p[k] = q[k]
        BY <2>1, <2>2, <2>4, <3>1
      <3> QED BY <2>1, <2>4, <3>1, <3>2
    <2> QED BY <2>4, <2>5, SlotEqual
  <1> QED BY <1>1, <1>2

LEMMA PreOrderLex ==
    ASSUME NEW p \in Slots, NEW q \in Slots
    PROVE  PreOrder(p, q) <=> Lex(PreKey(p), PreKey(q))
  <1>1. /\ Len(p) \in Nat /\ Len(q) \in Nat /\ DOMAIN p = 1..Len(p) /\ DOMAIN q = 1..Len(q)
        /\ \A k \in 1..Len(p) : p[k] \in Nat
        /\ \A k \in 1..Len(q) : q[k] \in Nat
    BY SlotNumbers
  <1>0. Len(p) \in Nat /\ Len(q) \in Nat
    BY <1>1
  <1>2. /\ \A k \in Nat \ {0} : PreKey(p)[k] = IF k <= Len(p) THEN p[k] + 1 ELSE 0
        /\ \A k \in Nat \ {0} : PreKey(q)[k] = IF k <= Len(q) THEN q[k] + 1 ELSE 0
    BY DEF PreKey
  <1>3. IsPrefix(p, q) <=> Len(p) <= Len(q) /\ \A i \in 1..Len(p) : p[i] = q[i]
    BY PrefixPointwise DEF Slots
  <1>4. ASSUME IsStrictPrefix(p, q) PROVE Lex(PreKey(p), PreKey(q))
    <2> DEFINE k == Len(p) + 1
    <2>1. Len(p) < Len(q)
      <3>1. IsPrefix(p, q) /\ p # q
        BY <1>4 DEF IsStrictPrefix
      <3>2. Len(p) # Len(q)
        BY <1>3, <3>1, SlotEqual
      <3>3. Len(p) <= Len(q)
        BY <1>3, <3>1
      <3> QED BY <1>0, <3>2, <3>3
    <2>2. k \in Nat \ {0} /\ k \in 1..Len(q) /\ ~(k <= Len(p)) /\ k - 1 = Len(p)
      BY <1>1, <2>1
    <2>3. PreKey(p)[k] < PreKey(q)[k]
      <3> HIDE DEF k
      <3> QED BY <1>1, <1>2, <2>2
    <2>4. ASSUME NEW i \in 1..Len(p) PROVE PreKey(p)[i] = PreKey(q)[i]
      <3>1. i \in Nat \ {0} /\ i <= Len(p) /\ i <= Len(q) /\ p[i] = q[i]
        BY <1>1, <1>3, <1>4, <2>1 DEF IsStrictPrefix
      <3> QED BY <1>2, <3>1
    <2> HIDE DEF k
    <2> QED BY <2>2, <2>3, <2>4 DEF Lex
  <1>5. ASSUME NEW k \in DOMAIN p, DivergeAt(p, q, k), p[k] < q[k]
        PROVE  Lex(PreKey(p), PreKey(q))
    <2>1. /\ k \in Nat \ {0} /\ k <= Len(p) /\ k <= Len(q)
          /\ p[k] \in Nat /\ q[k] \in Nat /\ \A i \in 1..(k - 1) : p[i] = q[i]
      BY <1>1, <1>5 DEF DivergeAt
    <2>2. PreKey(p)[k] < PreKey(q)[k]
      BY <1>2, <1>5, <2>1
    <2>3. ASSUME NEW i \in 1..(k - 1) PROVE PreKey(p)[i] = PreKey(q)[i]
      <3>1. i \in Nat \ {0} /\ i <= Len(p) /\ i <= Len(q) /\ p[i] = q[i]
        BY <1>1, <2>1
      <3> QED BY <1>2, <3>1
    <2> QED BY <2>1, <2>2, <2>3 DEF Lex
  <1>6. ASSUME Lex(PreKey(p), PreKey(q)) PROVE PreOrder(p, q)
    <2>1. PICK k \in Nat \ {0} : /\ PreKey(p)[k] < PreKey(q)[k]
                                /\ \A i \in 1..(k - 1) : PreKey(p)[i] = PreKey(q)[i]
      BY <1>6 DEF Lex
    <2>2. k <= Len(p) => k \in 1..Len(p) /\ p[k] \in Nat
      BY <1>1
    <2>3. k <= Len(q) => k \in 1..Len(q) /\ q[k] \in Nat
      BY <1>1
    <2>4. k <= Len(q)
      BY <1>2, <2>1, <2>2
    <2>5. ASSUME NEW i \in 1..(k - 1)
          PROVE  i <= Len(p) /\ p[i] = q[i]
      <3>1. i \in Nat \ {0} /\ i \in 1..Len(q) /\ i <= Len(q)
        BY <1>1, <2>4
      <3>2. q[i] \in Nat /\ PreKey(p)[i] = PreKey(q)[i]
        BY <1>1, <2>1, <3>1
      <3>3. i <= Len(p) => p[i] \in Nat
        BY <1>1, <3>1
      <3> QED BY <1>2, <3>1, <3>2, <3>3
    <2>6. CASE k <= Len(p)
      <3>1. p[k] < q[k]
        BY <1>2, <2>1, <2>2, <2>3, <2>4, <2>6
      <3>2. DivergeAt(p, q, k)
        BY <1>1, <2>2, <2>3, <2>4, <2>5, <2>6, <3>1 DEF DivergeAt
      <3> QED BY <1>1, <2>2, <2>6, <3>1, <3>2 DEF PreOrder
    <2>7. CASE ~(k <= Len(p))
      <3>1. k = Len(p) + 1
        <4>1. CASE Len(p) + 1 < k
          <5>1. Len(p) + 1 \in 1..(k - 1)
            BY <1>1, <4>1
          <5>2. Len(p) + 1 <= Len(p)
            BY <2>5, <5>1
          <5> QED BY <1>1, <5>2
        <4> QED BY <1>1, <2>7, <4>1
      <3>2. IsPrefix(p, q)
        <4>1. \A i \in 1..Len(p) : i \in 1..(k - 1)
          BY <1>1, <3>1
        <4> QED BY <1>1, <1>3, <2>4, <2>5, <3>1, <4>1
      <3>3. p # q
        BY <1>1, <2>4, <3>1
      <3> QED BY <3>2, <3>3 DEF PreOrder, IsStrictPrefix
    <2> QED BY <2>6, <2>7
  <1> QED BY <1>4, <1>5, <1>6 DEF PreOrder

LEMMA LevelLex ==
    ASSUME NEW p \in Slots, NEW q \in Slots, p # <<>>, q # <<>>, Last(p) = Last(q), p # q
    PROVE  LevelFirst(p, q) <=> Lex(LevelKey(p), LevelKey(q))
  <1>1. /\ Len(p) \in Nat \ {0} /\ Len(q) \in Nat \ {0}
        /\ DOMAIN p = 1..Len(p) /\ DOMAIN q = 1..Len(q)
        /\ \A k \in 1..Len(p) : p[k] \in Nat
        /\ \A k \in 1..Len(q) : q[k] \in Nat
        /\ p[Len(p)] = q[Len(q)]
    BY SlotNumbers, LastOf
  <1>0. Len(p) \in Nat /\ Len(q) \in Nat /\ Len(p) >= 1 /\ Len(q) >= 1
    <2>1. Len(p) \in Nat \ {0} /\ Len(q) \in Nat \ {0}
      BY <1>1
    <2> QED BY <2>1
  <1>2. /\ \A k \in Nat \ {0} : LevelKey(p)[k] = IF k < Len(p) THEN p[k] + 2
                                                   ELSE IF k = Len(p) THEN 1 ELSE 0
        /\ \A k \in Nat \ {0} : LevelKey(q)[k] = IF k < Len(q) THEN q[k] + 2
                                                   ELSE IF k = Len(q) THEN 1 ELSE 0
    BY DEF LevelKey
  <1>3. IsPrefix(p, q) <=> Len(p) <= Len(q) /\ \A i \in 1..Len(p) : p[i] = q[i]
    BY PrefixPointwise DEF Slots
  <1>4. ASSUME NEW k \in Nat \ {0}, k <= Len(p), k < Len(q), k = Len(p) \/ p[k] < q[k],
               \A i \in 1..(k - 1) : p[i] = q[i]
        PROVE  Lex(LevelKey(p), LevelKey(q))
    <2>1. p[k] \in Nat /\ q[k] \in Nat
      <3>1. k \in 1..Len(p) /\ k \in 1..Len(q)
        BY <1>0, <1>4
      <3> QED BY <1>1, <3>1
    <2>2. LevelKey(p)[k] < LevelKey(q)[k]
      <3>1. LevelKey(p)[k] = IF k < Len(p) THEN p[k] + 2 ELSE IF k = Len(p) THEN 1 ELSE 0
        BY <1>2
      <3>2. LevelKey(q)[k] = q[k] + 2
        BY <1>2, <1>4
      <3> QED BY <1>0, <1>4, <2>1, <3>1, <3>2
    <2>3. ASSUME NEW i \in 1..(k - 1) PROVE LevelKey(p)[i] = LevelKey(q)[i]
      <3>1. i \in Nat \ {0} /\ i < Len(p) /\ i < Len(q) /\ p[i] = q[i]
        BY <1>0, <1>4
      <3> QED BY <1>2, <3>1
    <2> QED BY <2>2, <2>3 DEF Lex
  <1>5. ASSUME LevelFirst(p, q) PROVE Lex(LevelKey(p), LevelKey(q))
    <2>1. CASE IsStrictPrefix(p, q)
      <3>1. IsPrefix(p, q)
        BY <2>1 DEF IsStrictPrefix
      <3>2. Len(p) # Len(q)
        BY <1>3, <3>1, SlotEqual
      <3>5. Len(p) <= Len(q)
        BY <1>3, <3>1
      <3>3. Len(p) <= Len(p) /\ Len(p) < Len(q)
        BY <1>0, <3>2, <3>5
      <3>4. \A i \in 1..(Len(p) - 1) : i \in 1..Len(p)
        BY <1>1
      <3> QED BY <1>1, <1>3, <1>4, <3>1, <3>3, <3>4
    <2>2. CASE ~IsStrictPrefix(p, q)
      <3>1. PICK k \in DOMAIN p : /\ DivergeAt(p, q, k)
                                  /\ IF k = Len(p) THEN TRUE ELSE k # Len(q) /\ p[k] < q[k]
        BY <1>5, <2>2 DEF LevelFirst
      <3>2. /\ k \in Nat \ {0} /\ k <= Len(p) /\ k <= Len(q) /\ p[k] # q[k]
            /\ \A i \in 1..(k - 1) : p[i] = q[i]
        BY <1>1, <3>1 DEF DivergeAt
      <3>3. k < Len(q)
        <4>1. k # Len(q)
          BY <1>1, <3>1, <3>2
        <4> QED BY <1>1, <3>2, <4>1
      <3>4. k = Len(p) \/ p[k] < q[k]
        BY <3>1
      <3> QED BY <1>4, <3>2, <3>3, <3>4
    <2> QED BY <2>1, <2>2
  <1>6. ASSUME Lex(LevelKey(p), LevelKey(q)) PROVE LevelFirst(p, q)
    <2>1. PICK k \in Nat \ {0} : /\ LevelKey(p)[k] < LevelKey(q)[k]
                                /\ \A i \in 1..(k - 1) : LevelKey(p)[i] = LevelKey(q)[i]
      BY <1>6 DEF Lex
    <2>2. k <= Len(p) => k \in 1..Len(p) /\ p[k] \in Nat
      BY <1>1
    <2>3. k <= Len(q) => k \in 1..Len(q) /\ q[k] \in Nat
      BY <1>1
    <2>0. /\ LevelKey(p)[k] = IF k < Len(p) THEN p[k] + 2 ELSE IF k = Len(p) THEN 1 ELSE 0
          /\ LevelKey(q)[k] = IF k < Len(q) THEN q[k] + 2 ELSE IF k = Len(q) THEN 1 ELSE 0
          /\ LevelKey(p)[k] < LevelKey(q)[k]
      BY <1>2, <2>1
    <2>4. k <= Len(q)
      BY <1>0, <2>0, <2>2
    <2>5. k <= Len(p)
      <3> SUFFICES ASSUME Len(p) < k PROVE FALSE
        BY <1>1
      <3>1. PICK n \in Nat \ {0} : n = Len(p)
        BY <1>0
      <3>2. n \in 1..(k - 1) /\ n < Len(q) /\ n \in 1..Len(q) /\ ~(n < Len(p))
        BY <1>0, <2>4, <3>1
      <3>3. LevelKey(p)[n] = LevelKey(q)[n] /\ q[n] \in Nat
        BY <1>1, <2>1, <3>2
      <3>4. LevelKey(p)[n] = 1 /\ LevelKey(q)[n] = q[n] + 2
        BY <1>2, <3>1, <3>2
      <3>5. q[n] + 2 # 1
        BY <3>3
      <3> QED BY <3>3, <3>4, <3>5
    <2>6. k < Len(q)
      BY <1>0, <2>0, <2>2, <2>4, <2>5
    <2>7. ASSUME NEW i \in 1..(k - 1) PROVE p[i] = q[i]
      <3>1. i \in Nat \ {0} /\ i < Len(p) /\ i < Len(q) /\ i \in 1..Len(p) /\ i \in 1..Len(q)
        BY <1>0, <2>5, <2>6
      <3>2. p[i] \in Nat /\ q[i] \in Nat /\ LevelKey(p)[i] = LevelKey(q)[i]
        BY <1>1, <2>1, <3>1
      <3> QED BY <1>2, <3>1, <3>2
    <2>8. CASE k = Len(p)
      <3>1. CASE p[k] = q[k]
        <4>1. \A i \in 1..Len(p) : i = k \/ i \in 1..(k - 1)
          BY <1>0, <2>8
        <4>2. IsPrefix(p, q)
          BY <1>1, <1>3, <2>4, <2>7, <2>8, <3>1, <4>1
        <4> QED BY <4>2 DEF LevelFirst, IsStrictPrefix
      <3>2. CASE p[k] # q[k]
        <4>1. DivergeAt(p, q, k)
          BY <1>1, <2>2, <2>3, <2>4, <2>5, <2>7, <3>2 DEF DivergeAt
        <4> QED BY <1>1, <2>2, <2>5, <2>8, <4>1 DEF LevelFirst
      <3> QED BY <3>1, <3>2
    <2>9. CASE k # Len(p)
      <3>1. k < Len(p)
        BY <1>0, <2>5, <2>9
      <3>2. p[k] < q[k]
        BY <2>0, <2>2, <2>3, <2>4, <2>5, <2>6, <3>1
      <3>3. k # Len(q) /\ p[k] # q[k]
        BY <1>0, <2>2, <2>3, <2>4, <2>5, <2>6, <3>2
      <3>4. DivergeAt(p, q, k)
        BY <1>1, <2>2, <2>3, <2>4, <2>5, <2>7, <3>3 DEF DivergeAt
      <3> QED BY <1>1, <2>2, <2>5, <2>9, <3>2, <3>3, <3>4 DEF LevelFirst
    <2> QED BY <2>8, <2>9
  <1> QED BY <1>5, <1>6

-----------------------------------------------------------------------------
(* What a sequence has beyond one it begins with.                            *)

Rest(a, b) == SubSeq(b, Len(a) + 1, Len(b))

LEMMA AppendToConcat ==
    ASSUME NEW S, NEW a \in Seq(S), NEW y \in Seq(S), NEW e \in S
    PROVE  a \o Append(y, e) = Append(a \o y, e)
  <1>1. <<e>> \in Seq(S) /\ a \o y \in Seq(S)
    BY ConcatProperties
  <1>2. Append(y, e) = y \o <<e>> /\ Append(a \o y, e) = (a \o y) \o <<e>>
    BY <1>1, AppendIsConcat
  <1>3. (a \o y) \o <<e>> = a \o (y \o <<e>>)
    BY <1>1, ConcatAssociative
  <1> QED BY <1>2, <1>3

LEMMA RestOfPrefix ==
    ASSUME NEW S, NEW a \in Seq(S), NEW b \in Seq(S), IsPrefix(a, b)
    PROVE  Rest(a, b) \in Seq(S) /\ b = a \o Rest(a, b)
  <1>1. Len(a) \in Nat /\ Len(b) \in Nat /\ Len(a) <= Len(b)
    BY LenProperties DEF IsPrefix
  <1>2. Rest(a, b) \in Seq(S)
    <2>1. \A i \in (Len(a) + 1)..Len(b) : b[i] \in S
      <3> SUFFICES ASSUME NEW i \in (Len(a) + 1)..Len(b) PROVE b[i] \in S
        OBVIOUS
      <3>1. i \in 1..Len(b)
        BY <1>1
      <3> QED BY <3>1, ElementOfSeq
    <2>2. Len(a) + 1 \in Int /\ Len(b) \in Int
      BY <1>1
    <2> QED BY <2>1, <2>2, SubSeqProperties DEF Rest
  <1>3. SubSeq(b, 1, Len(a)) = a
    BY SubSeqFull DEF IsPrefix
  <1>4. SubSeq(b, 1, Len(a)) \o SubSeq(b, Len(a) + 1, Len(b)) = SubSeq(b, 1, Len(b))
    <2>1. /\ 1 \in 1..(Len(b) + 1) /\ Len(a) \in (1 - 1)..Len(b) /\ Len(b) \in Len(a)..Len(b)
      BY <1>1
    <2> QED BY <2>1, ConcatAdjacentSubSeq
  <1>5. SubSeq(b, 1, Len(b)) = b
    BY SubSeqFull
  <1> QED BY <1>2, <1>3, <1>4, <1>5 DEF Rest

LEMMA RestOfConcat ==
    ASSUME NEW S, NEW a \in Seq(S), NEW x \in Seq(S)
    PROVE  a \o x \in Seq(S) /\ IsPrefix(a, a \o x) /\ Rest(a, a \o x) = x
  <1>1. /\ Len(a) \in Nat /\ Len(x) \in Nat
        /\ a \o x \in Seq(S) /\ Len(a \o x) = Len(a) + Len(x)
        /\ \A i \in 1..(Len(a) + Len(x)) :
              (a \o x)[i] = IF i <= Len(a) THEN a[i] ELSE x[i - Len(a)]
    <2>1. Len(a) \in Nat /\ Len(x) \in Nat
      BY LenProperties
    <2> QED BY <2>1, ConcatProperties, Zenon
  <1>2. IsPrefix(a, a \o x)
    <2>1. Len(a) <= Len(a \o x)
      BY <1>1
    <2>2. \A i \in 1..Len(a) : a[i] = (a \o x)[i]
      BY <1>1
    <2> QED BY <1>1, <2>1, <2>2, PrefixPointwise
  <1>3. Rest(a, a \o x) \in Seq(S) /\ a \o x = a \o Rest(a, a \o x)
    BY <1>1, <1>2, RestOfPrefix
  <1> DEFINE r == Rest(a, a \o x)
  <1>4. /\ Len(a \o r) = Len(a) + Len(r) /\ Len(r) \in Nat
        /\ \A i \in 1..(Len(a) + Len(r)) :
              (a \o r)[i] = IF i <= Len(a) THEN a[i] ELSE r[i - Len(a)]
    <2>1. Len(r) \in Nat /\ r \in Seq(S)
      BY <1>3, LenProperties
    <2> HIDE DEF r
    <2> QED BY <2>1, ConcatProperties, Zenon
  <1>5. a \o x = a \o r
    BY <1>3
  <1> HIDE DEF r
  <1>6. Len(r) = Len(x)
    BY <1>1, <1>4, <1>5
  <1>7. ASSUME NEW i \in 1..Len(r) PROVE r[i] = x[i]
    <2>1. PICK k \in Nat : k = Len(a) + i
      BY <1>1, <1>4
    <2>2. k \in 1..(Len(a) + Len(r)) /\ ~(k <= Len(a)) /\ k - Len(a) = i
      BY <1>1, <1>4, <2>1
    <2> QED BY <1>1, <1>4, <1>5, <1>6, <2>2
  <1>8. r \in Seq(S)
    BY <1>3 DEF r
  <1>9. r = x
    BY <1>6, <1>7, <1>8, SeqEqual
  <1> QED BY <1>1, <1>2, <1>9 DEF r

(* The slot q below "from", moved below s; and back.                         *)
Moved(s, from, q) == s \o Rest(from, q)

LEMMA MovedSlot ==
    ASSUME NEW s \in Slots, NEW from \in Slots, NEW q \in Slots, IsPrefix(from, q)
    PROVE  /\ Moved(s, from, q) \in Slots
           /\ IsPrefix(s, Moved(s, from, q))
           /\ Moved(from, s, Moved(s, from, q)) = q
           /\ Moved(s, from, q) = s <=> q = from
  <1>1. Rest(from, q) \in Seq(NodeIds) /\ q = from \o Rest(from, q)
    BY RestOfPrefix DEF Slots
  <1>2. /\ s \o Rest(from, q) \in Slots /\ IsPrefix(s, s \o Rest(from, q))
        /\ Rest(s, s \o Rest(from, q)) = Rest(from, q)
    BY <1>1, RestOfConcat DEF Slots
  <1>3. \A x \in Seq(NodeIds) : (s \o x = s <=> x = <<>>) /\ (from \o x = from <=> x = <<>>)
    BY ConcatEqualIffEmpty DEF Slots
  <1>4. Moved(s, from, q) = s <=> q = from
    BY <1>1, <1>3 DEF Moved
  <1> QED BY <1>1, <1>2, <1>4 DEF Moved

(* Strictly below, moving a slot moves its owner and keeps its identity.     *)
LEMMA MovedOwner ==
    ASSUME NEW s \in Slots, NEW from \in Slots, NEW q \in Slots, IsPrefix(from, q), q # from
    PROVE  /\ q # <<>> /\ Owner(q) \in Slots /\ IsPrefix(from, Owner(q))
           /\ Owner(Moved(s, from, q)) = Moved(s, from, Owner(q))
           /\ Moved(s, from, q) # <<>> /\ Last(Moved(s, from, q)) = Last(q)
  <1> DEFINE x == Rest(from, q)
  <1>1. x \in Slots /\ q = from \o x
    BY RestOfPrefix DEF Slots
  <1>2. x # <<>>
    <2>1. from \o <<>> = from
      BY ConcatEmptySeq DEF Slots
    <2> QED BY <1>1, <2>1
  <1> HIDE DEF x
  <1> DEFINE y == Owner(x)  e == Last(x)
  <1>3. y \in Slots /\ e \in NodeIds /\ x = Append(y, e)
    BY <1>1, <1>2, SlotParts
  <1> HIDE DEF y, e
  <1>4. /\ from \o y \in Slots /\ IsPrefix(from, from \o y) /\ Rest(from, from \o y) = y
        /\ s \o y \in Slots
    BY <1>3, RestOfConcat DEF Slots
  <1>5. q = Append(from \o y, e) /\ s \o x = Append(s \o y, e)
    <2>1. s \in Seq(NodeIds) /\ from \in Seq(NodeIds) /\ y \in Seq(NodeIds)
      BY <1>3 DEF Slots
    <2>2. from \o Append(y, e) = Append(from \o y, e)
      BY <1>3, <2>1, AppendToConcat
    <2>3. s \o Append(y, e) = Append(s \o y, e)
      BY <1>3, <2>1, AppendToConcat
    <2> QED BY <1>1, <1>3, <2>2, <2>3
  <1>6. Owner(q) = from \o y /\ Last(q) = e /\ q # <<>> /\ from \o y \in Slots
    <2>1. from \o y \in Slots
      BY <1>4 DEF Slots
    <2> QED BY <1>3, <1>5, <2>1, AppendSlot
  <1>7. Owner(s \o x) = s \o y /\ Last(s \o x) = e /\ s \o x # <<>>
    <2>1. s \o y \in Slots
      BY <1>4
    <2>2. Owner(Append(s \o y, e)) = s \o y /\ Last(Append(s \o y, e)) = e /\ Append(s \o y, e) # <<>>
      BY <1>3, <2>1, AppendSlot
    <2> QED BY <1>5, <2>2
  <1> QED BY <1>4, <1>6, <1>7 DEF Moved, x

-----------------------------------------------------------------------------
(* What a cut finds, and keeps: a tree that is well formed.                  *)

Grafted(t) == IsTree(t) /\ WellFormed(t) /\ IsFiniteSet(DOMAIN t.faces)

LEMMA PlacedFace ==
    ASSUME NEW t, Grafted(t), NEW s \in DOMAIN t.faces
    PROVE  /\ s \in Slots /\ s # <<>> /\ t.faces[s] \in Faces
           /\ Owner(s) \in Slots /\ Owner(s) \in DOMAIN t.regs /\ Owner(s) # s
           /\ ~IsPrefix(s, Owner(s))
           /\ s = Append(Owner(s), t.faces[s].id) /\ t.faces[s].id = Last(s)
           /\ t.faces[s].parent = t.regs[Owner(s)].id
           /\ Obeys(t.faces[s], t.regs[Owner(s)].rule)
  <1>1. /\ s \in Slots /\ s # <<>> /\ t.faces[s] \in Faces
        /\ Owner(s) \in DOMAIN t.regs /\ t.faces[s].id = Last(s)
        /\ t.faces[s].parent = t.regs[Owner(s)].id /\ Obeys(t.faces[s], t.regs[Owner(s)].rule)
    BY DEF Grafted, IsTree, WellFormed
  <1>2. Owner(s) \in Slots /\ Last(s) \in NodeIds /\ s = Append(Owner(s), Last(s))
        /\ Len(Owner(s)) = Len(s) - 1 /\ Len(s) \in Nat \ {0}
    BY <1>1, SlotParts
  <1>3. Owner(s) # s
    BY <1>2
  <1>4. ~IsPrefix(s, Owner(s))
    BY <1>2, AppendSlot
  <1> QED BY <1>1, <1>2, <1>3, <1>4

LEMMA PlacedRegistry ==
    ASSUME NEW t, Grafted(t), NEW s \in DOMAIN t.regs
    PROVE  /\ s \in Slots /\ t.regs[s] \in Headers
           /\ s # <<>> => /\ s \in DOMAIN t.faces
                          /\ t.regs[s] = Header(t.faces[s], SlotPath(t, s))
                          /\ t.regs[s].id = t.faces[s].id
                          /\ t.regs[s].rule = t.faces[s].rule
                          /\ t.regs[s].path = SlotPath(t, s)
  <1>1. /\ s \in Slots /\ t.regs[s] \in Headers
        /\ s # <<>> => s \in DOMAIN t.faces /\ t.regs[s] = Header(t.faces[s], SlotPath(t, s))
    BY DEF Grafted, IsTree, WellFormed
  <1>2. /\ Header(t.faces[s], SlotPath(t, s)).id = t.faces[s].id
        /\ Header(t.faces[s], SlotPath(t, s)).rule = t.faces[s].rule
        /\ Header(t.faces[s], SlotPath(t, s)).path = SlotPath(t, s)
    BY DEF Header
  <1> QED BY <1>1, <1>2

(* A lookup by identity has an answer, first in its order of visits.         *)
LEMMA FaceFirst ==
    ASSUME NEW t, Grafted(t), NEW id, HasFace(t, id)
    PROVE  /\ FaceSlot(t, id) \in DOMAIN t.faces
           /\ t.faces[FaceSlot(t, id)].id = id
           /\ \A p \in FacesOf(t, id) \ {FaceSlot(t, id)} :
                 Lex(LevelKey(FaceSlot(t, id)), LevelKey(p))
  <1> DEFINE S == FacesOf(t, id)
             key == [s \in S |-> LevelKey(s)]
  <1>1. S \subseteq DOMAIN t.faces /\ S # {} /\ \A s \in S : t.faces[s].id = id
    BY DEF FacesOf, HasFace
  <1>2. IsFiniteSet(S)
    BY <1>1, FS_Subset DEF Grafted
  <1>3. \A s \in S : s \in Slots /\ s # <<>> /\ Last(s) = id /\ LevelKey(s) \in Keys
    BY <1>1, PlacedFace, SlotNumbers
  <1> HIDE DEF S
  <1>4. key \in [S -> Keys]
    BY <1>3
  <1>5. \A s \in S : key[s] = LevelKey(s)
    OBVIOUS
  <1> HIDE DEF key
  <1>6. \A s, p \in S : key[s] = key[p] => s = p
    BY <1>3, <1>5, KeysDiffer
  <1>7. \E s \in S : \A p \in S \ {s} : Lex(key[s], key[p])
    BY <1>1, <1>2, <1>4, <1>6, LexFirst
  <1>8. \A s, p \in S : s # p => (LevelFirst(s, p) <=> Lex(LevelKey(s), LevelKey(p)))
    BY <1>3, LevelLex
  <1>9. \E s \in S : \A p \in S \ {s} : LevelFirst(s, p)
    BY <1>5, <1>7, <1>8
  <1>10. /\ FaceSlot(t, id) \in S
         /\ \A p \in S \ {FaceSlot(t, id)} : LevelFirst(FaceSlot(t, id), p)
    BY <1>9 DEF FaceSlot, S
  <1> QED BY <1>1, <1>8, <1>10 DEF S

LEMMA RegistryFirst ==
    ASSUME NEW t, Grafted(t), NEW id, HasRegistry(t, id)
    PROVE  /\ RegistrySlot(t, id) \in DOMAIN t.regs
           /\ t.regs[RegistrySlot(t, id)].id = id
           /\ \A p \in RegistriesOf(t, id) \ {RegistrySlot(t, id)} :
                 Lex(PreKey(RegistrySlot(t, id)), PreKey(p))
  <1> DEFINE S == RegistriesOf(t, id)
             key == [s \in S |-> PreKey(s)]
  <1>1. S \subseteq DOMAIN t.regs /\ S # {} /\ \A s \in S : t.regs[s].id = id
    BY DEF RegistriesOf, HasRegistry
  <1>2. IsFiniteSet(S)
    <2>1. IsFiniteSet(DOMAIN t.faces \cup {<<>>})
      BY FS_AddElement DEF Grafted
    <2>2. S \subseteq DOMAIN t.faces \cup {<<>>}
      BY <1>1, PlacedRegistry
    <2> QED BY <2>1, <2>2, FS_Subset
  <1>3. \A s \in S : s \in Slots /\ PreKey(s) \in Keys
    BY <1>1, PlacedRegistry, SlotNumbers
  <1> HIDE DEF S
  <1>4. key \in [S -> Keys]
    BY <1>3
  <1>5. \A s \in S : key[s] = PreKey(s)
    OBVIOUS
  <1> HIDE DEF key
  <1>6. \A s, p \in S : key[s] = key[p] => s = p
    BY <1>3, <1>5, KeysDiffer
  <1>7. \E s \in S : \A p \in S \ {s} : Lex(key[s], key[p])
    BY <1>1, <1>2, <1>4, <1>6, LexFirst
  <1>8. \A s, p \in S : PreOrder(s, p) <=> Lex(PreKey(s), PreKey(p))
    BY <1>3, PreOrderLex
  <1>9. \E s \in S : \A p \in S \ {s} : PreOrder(s, p)
    BY <1>5, <1>7, <1>8
  <1>10. /\ RegistrySlot(t, id) \in S
         /\ \A p \in S \ {RegistrySlot(t, id)} : PreOrder(RegistrySlot(t, id), p)
    BY <1>9 DEF RegistrySlot, S
  <1> QED BY <1>1, <1>8, <1>10 DEF S

(* One level down, a registry visited before another has its entry asked     *)
(* before the other's.                                                       *)
LEMMA OrdersAgree ==
    ASSUME NEW r \in Slots, NEW o \in Slots, NEW id \in NodeIds, Lex(PreKey(r), PreKey(o))
    PROVE  Lex(LevelKey(Append(r, id)), LevelKey(Append(o, id)))
  <1> DEFINE s == Append(r, id)  f == Append(o, id)
  <1>1. /\ Len(r) \in Nat /\ Len(o) \in Nat
        /\ \A k \in 1..Len(r) : r[k] \in Nat
        /\ \A k \in 1..Len(o) : o[k] \in Nat
    BY SlotNumbers
  <1>2. /\ Len(s) = Len(r) + 1 /\ \A k \in 1..Len(r) : s[k] = r[k]
        /\ Len(f) = Len(o) + 1 /\ \A k \in 1..Len(o) : f[k] = o[k]
    BY DEF Slots
  <1>3. /\ \A k \in Nat \ {0} : PreKey(r)[k] = IF k <= Len(r) THEN r[k] + 1 ELSE 0
        /\ \A k \in Nat \ {0} : PreKey(o)[k] = IF k <= Len(o) THEN o[k] + 1 ELSE 0
    BY DEF PreKey
  <1>4. /\ \A k \in Nat \ {0} : LevelKey(s)[k] = IF k < Len(s) THEN s[k] + 2
                                                   ELSE IF k = Len(s) THEN 1 ELSE 0
        /\ \A k \in Nat \ {0} : LevelKey(f)[k] = IF k < Len(f) THEN f[k] + 2
                                                   ELSE IF k = Len(f) THEN 1 ELSE 0
    BY DEF LevelKey
  <1> HIDE DEF s, f
  <1>5. ASSUME NEW k \in Nat \ {0}, k <= Len(o)
        PROVE  PreKey(o)[k] \in Nat /\ LevelKey(f)[k] = PreKey(o)[k] + 1
    <2>1. k \in 1..Len(o)
      BY <1>1, <1>5
    <2>2. o[k] \in Nat /\ f[k] = o[k]
      BY <1>1, <1>2, <2>1
    <2>3. k < Len(f)
      BY <1>1, <1>2, <1>5
    <2> QED BY <1>3, <1>4, <1>5, <2>2, <2>3
  <1>6. ASSUME NEW k \in Nat \ {0}
        PROVE  /\ PreKey(r)[k] \in Nat /\ LevelKey(s)[k] \in Nat
               /\ LevelKey(s)[k] <= PreKey(r)[k] + 1
               /\ k <= Len(r) => LevelKey(s)[k] = PreKey(r)[k] + 1
    <2>1. CASE k <= Len(r)
      <3>1. k \in 1..Len(r)
        BY <1>1, <2>1
      <3>2. r[k] \in Nat /\ s[k] = r[k]
        BY <1>1, <1>2, <3>1
      <3>3. k < Len(s)
        BY <1>1, <1>2, <2>1
      <3> QED BY <1>3, <1>4, <2>1, <3>2, <3>3
    <2>2. CASE ~(k <= Len(r))
      <3>1. ~(k < Len(s))
        BY <1>1, <1>2, <2>2
      <3> QED BY <1>3, <1>4, <2>2, <3>1
    <2> QED BY <2>1, <2>2
  <1>7. PICK k \in Nat \ {0} : PreKey(r)[k] < PreKey(o)[k] /\ \A i \in 1..(k - 1) : PreKey(r)[i] = PreKey(o)[i]
    BY DEF Lex
  <1>8. k <= Len(o)
    BY <1>3, <1>6, <1>7
  <1>9. LevelKey(s)[k] < LevelKey(f)[k]
    BY <1>5, <1>6, <1>7, <1>8
  <1>10. ASSUME NEW i \in 1..(k - 1) PROVE LevelKey(s)[i] = LevelKey(f)[i]
    <2>1. i \in Nat \ {0} /\ i <= Len(o)
      BY <1>1, <1>8
    <2>2. PreKey(r)[i] = PreKey(o)[i] /\ LevelKey(f)[i] = PreKey(o)[i] + 1
      BY <1>5, <1>7, <2>1
    <2>3. i <= Len(r)
      <3>1. i \in 1..Len(o)
        BY <1>1, <2>1
      <3>2. PreKey(o)[i] = o[i] + 1 /\ o[i] \in Nat
        BY <1>1, <1>3, <2>1, <3>1
      <3>3. PreKey(r)[i] # 0
        BY <2>2, <3>2
      <3> QED BY <1>3, <2>1, <3>3
    <2> QED BY <1>6, <2>1, <2>2, <2>3
  <1>11. Lex(LevelKey(s), LevelKey(f))
    BY <1>9, <1>10 DEF Lex
  <1> QED BY <1>11 DEF s, f

(* The slot a cut takes is the one its target is found at.                   *)
LEMMA TargetIsFace ==
    ASSUME NEW t, Grafted(t), NEW target, HasFace(t, target),
           HasRegistry(t, FaceById(t, target).parent),
           TargetSlot(t, target) \in DOMAIN t.faces
    PROVE  /\ TargetSlot(t, target) = FaceSlot(t, target)
           /\ Owner(FaceSlot(t, target)) = RegistrySlot(t, FaceById(t, target).parent)
  <1> DEFINE f == FaceSlot(t, target)
             r == RegistrySlot(t, t.faces[f].parent)
             s == Append(r, target)
  <1>1. /\ f \in DOMAIN t.faces /\ t.faces[f].id = target
        /\ \A p \in FacesOf(t, target) \ {f} : Lex(LevelKey(f), LevelKey(p))
    BY FaceFirst
  <1>2. s = TargetSlot(t, target) /\ s \in DOMAIN t.faces
    BY DEF TargetSlot, FaceById
  <1>3. /\ r \in DOMAIN t.regs
        /\ \A p \in RegistriesOf(t, t.faces[f].parent) \ {r} : Lex(PreKey(r), PreKey(p))
    BY RegistryFirst DEF FaceById
  <1> HIDE DEF f, r
  <1>4. /\ f \in Slots /\ f = Append(Owner(f), target) /\ Owner(f) \in DOMAIN t.regs
        /\ Owner(f) \in Slots /\ t.faces[f].parent = t.regs[Owner(f)].id
    BY <1>1, PlacedFace
  <1>5. r \in Slots /\ target \in NodeIds
    <2>1. t.faces[f].id \in NodeIds
      BY <1>1, PlacedFace DEF Faces
    <2> QED BY <1>1, <1>3, <2>1, PlacedRegistry
  <1>6. s \in Slots /\ Owner(s) = r /\ Last(s) = target
    BY <1>5, AppendSlot
  <1>7. s \in FacesOf(t, target)
    <2>1. t.faces[s].id = target
      BY <1>2, <1>6, PlacedFace
    <2> QED BY <1>2, <2>1 DEF FacesOf
  <1>8. s = f
    <2> SUFFICES ASSUME s # f PROVE FALSE
      OBVIOUS
    <2>1. r # Owner(f)
      BY <1>4
    <2>2. Lex(PreKey(r), PreKey(Owner(f)))
      BY <1>3, <1>4, <2>1 DEF RegistriesOf
    <2>3. Lex(LevelKey(s), LevelKey(f))
      BY <1>4, <1>5, <2>2, OrdersAgree
    <2>4. Lex(LevelKey(f), LevelKey(s))
      BY <1>1, <1>7
    <2>5. LevelKey(s) \in Keys /\ LevelKey(f) \in Keys
      BY <1>4, <1>6, SlotNumbers
    <2> QED BY <2>3, <2>4, <2>5, LexAsym
  <1> QED BY <1>2, <1>6, <1>8 DEF f, r, FaceById

-----------------------------------------------------------------------------
(* Both ways of putting a face into a slot keep the tree well formed.        *)

\* What the slot s of t must be like for face to take it.
Fits(t, s, face) ==
    /\ s \in DOMAIN t.faces /\ face \in Faces
    /\ face.id = t.faces[s].id /\ face.parent = t.faces[s].parent
    /\ face.name = t.faces[s].name /\ Obeys(face, t.regs[Owner(s)].rule)

LEMMA CandidateFits ==
    ASSUME NEW t, Grafted(t), NEW target, NEW replacement \in Faces, NEW full,
           CanGraft(t, target, replacement, full)
    PROVE  Fits(t, TargetSlot(t, target), Candidate(replacement, FaceById(t, target)))
  <1> DEFINE f == FaceSlot(t, target)
             face == Candidate(replacement, t.faces[f])
  <1>1. f \in DOMAIN t.faces /\ t.faces[f].id = target /\ t.faces[f] \in Faces
    BY FaceFirst, PlacedFace DEF CanGraft
  <1>2. /\ face \in Faces /\ face.id = t.faces[f].id /\ face.parent = t.faces[f].parent
        /\ face.name = t.faces[f].name
    <2> DEFINE other == t.faces[f]
    <2>1. other \in Faces
      BY <1>1
    <2> HIDE DEF other
    <2>2. /\ Candidate(replacement, other) \in Faces
          /\ Candidate(replacement, other).id = other.id
          /\ Candidate(replacement, other).parent = other.parent
          /\ Candidate(replacement, other).name = other.name
      BY <2>1 DEF Candidate, Faces
    <2> QED BY <2>2 DEF other
  <1>3. /\ HasFace(t, target) /\ HasRegistry(t, face.parent)
        /\ Obeys(face, t.regs[RegistrySlot(t, face.parent)].rule)
        /\ TargetSlot(t, target) \in DOMAIN t.faces
    BY DEF CanGraft, FaceById
  <1> HIDE DEF face
  <1>4. HasRegistry(t, FaceById(t, target).parent)
    BY <1>2, <1>3 DEF FaceById
  <1>5. /\ TargetSlot(t, target) = f
        /\ Owner(f) = RegistrySlot(t, FaceById(t, target).parent)
    BY <1>3, <1>4, TargetIsFace
  <1>6. Obeys(face, t.regs[Owner(f)].rule)
    BY <1>2, <1>3, <1>5 DEF FaceById
  <1>7. Fits(t, f, face)
    BY <1>1, <1>2, <1>6 DEF Fits
  <1> QED BY <1>5, <1>7 DEF face, FaceById

(* What stays when a slot is cleared, and what it hangs in.                  *)
LEMMA WithoutParts ==
    ASSUME NEW t, Grafted(t), NEW s \in Slots, s # <<>>
    PROVE  /\ Without(t, s).framework = t.framework
           /\ DOMAIN Without(t, s).faces = {p \in DOMAIN t.faces : ~IsPrefix(s, p)}
           /\ DOMAIN Without(t, s).regs = {p \in DOMAIN t.regs : ~IsPrefix(s, p)}
           /\ \A p \in DOMAIN Without(t, s).faces : Without(t, s).faces[p] = t.faces[p]
           /\ \A p \in DOMAIN Without(t, s).regs : Without(t, s).regs[p] = t.regs[p]
           /\ <<>> \in DOMAIN Without(t, s).regs
           /\ \A p \in DOMAIN t.faces : ~IsPrefix(s, p) => ~IsPrefix(s, Owner(p))
  <1>1. \A p \in DOMAIN t.faces : IsPrefix(s, Owner(p)) => IsPrefix(s, p)
    BY PlacedFace, BelowOwner
  <1>2. <<>> \in DOMAIN t.regs /\ ~IsPrefix(s, <<>>)
    BY RootNotBelow DEF Grafted, IsTree
  <1> QED BY <1>1, <1>2 DEF Without, Grafted, IsTree

LEMMA GraftFaceKeeps ==
    ASSUME NEW t, Grafted(t), NEW s, NEW face, Fits(t, s, face), ChildrenStay(t, s, face)
    PROVE  Grafted(GraftFace(t, s, face))
  <1> DEFINE kept == IF face.needs THEN t ELSE Without(t, s)
             u == GraftFace(t, s, face)
  <1>1. /\ s \in Slots /\ s # <<>> /\ s \in DOMAIN t.faces /\ face \in Faces
        /\ Owner(s) \in DOMAIN t.regs /\ Owner(s) # s /\ ~IsPrefix(s, Owner(s))
    BY PlacedFace DEF Fits
  <1>2. /\ kept.framework = t.framework
        /\ DOMAIN kept.faces \subseteq DOMAIN t.faces
        /\ DOMAIN kept.regs \subseteq DOMAIN t.regs /\ <<>> \in DOMAIN kept.regs
        /\ \A p \in DOMAIN kept.faces : kept.faces[p] = t.faces[p]
        /\ \A p \in DOMAIN kept.regs : kept.regs[p] = t.regs[p]
        /\ \A p \in DOMAIN kept.faces \cup {s} : Owner(p) \in DOMAIN kept.regs
        /\ \A p \in DOMAIN kept.regs \ {<<>>} : p \in DOMAIN kept.faces \cup {s}
    <2>1. CASE face.needs
      BY <1>1, <2>1, PlacedFace, PlacedRegistry DEF Grafted, IsTree
    <2>2. CASE ~face.needs
      <3>1. kept = Without(t, s)
        BY <2>2
      <3> HIDE DEF kept
      <3>2. \A p \in DOMAIN kept.faces : p \in DOMAIN t.faces /\ ~IsPrefix(s, p)
        BY <1>1, <3>1, WithoutParts
      <3>3. \A p \in DOMAIN kept.faces : Owner(p) \in DOMAIN t.regs /\ ~IsPrefix(s, Owner(p))
        BY <1>1, <3>2, WithoutParts, PlacedFace
      <3>4. \A p \in DOMAIN kept.regs \ {<<>>} : p \in DOMAIN t.faces /\ ~IsPrefix(s, p)
        BY <1>1, <3>1, WithoutParts, PlacedRegistry
      <3> QED BY <1>1, <3>1, <3>2, <3>3, <3>4, WithoutParts
    <2> QED BY <2>1, <2>2
  <1>3. /\ u.framework = t.framework
        /\ DOMAIN u.faces = DOMAIN kept.faces \cup {s}
        /\ DOMAIN u.regs = DOMAIN kept.regs
        /\ \A p \in DOMAIN u.faces : u.faces[p] = IF p = s THEN face ELSE kept.faces[p]
        /\ \A p \in DOMAIN u.regs :
              u.regs[p] = IF p = s THEN Header(face, kept.regs[p].path) ELSE kept.regs[p]
    BY <1>2 DEF GraftFace, Without, Grafted, IsTree
  <1>4. s \in DOMAIN u.regs => face.needs /\ s \in DOMAIN t.regs
    <2>1. IsPrefix(s, s)
      BY <1>1, PrefixPointwise DEF Slots
    <2>2. ~face.needs => s \notin DOMAIN kept.regs
      BY <1>1, <2>1, WithoutParts
    <2> QED BY <1>2, <1>3, <2>2
  <1> HIDE DEF kept, u
  <1>5. \A p \in DOMAIN u.faces : u.faces[p] = IF p = s THEN face ELSE t.faces[p]
    BY <1>2, <1>3
  <1>6. \A p \in DOMAIN u.regs :
            u.regs[p] = IF p = s THEN Header(face, t.regs[p].path) ELSE t.regs[p]
    BY <1>2, <1>3
  <1>7. DOMAIN u.faces \subseteq DOMAIN t.faces /\ DOMAIN u.regs \subseteq DOMAIN t.regs
    BY <1>1, <1>2, <1>3
  <1>8. \A path : /\ Header(face, path).id = face.id /\ Header(face, path).path = path
                  /\ Header(face, path).rule = face.rule
    BY DEF Header
  <1>9. \A p \in DOMAIN u.regs : u.regs[p].id = t.regs[p].id /\ u.regs[p].path = t.regs[p].path
    BY <1>1, <1>4, <1>6, <1>8, PlacedRegistry DEF Fits
  <1>10. IsTree(u)
    <2>1. \A p \in DOMAIN u.faces : p \in Slots \ {<<>>} /\ u.faces[p] \in Faces
      BY <1>1, <1>5, <1>7, PlacedFace
    <2>2. ASSUME NEW p \in DOMAIN u.regs PROVE p \in Slots /\ u.regs[p] \in Headers
      <3>1. p \in Slots /\ t.regs[p] \in Headers
        BY <1>7, PlacedRegistry
      <3>2. t.regs[p].path \in Paths
        BY <3>1 DEF Headers
      <3>3. Header(face, t.regs[p].path) \in Headers
        BY <1>1, <3>2 DEF Header, Headers, Faces
      <3> QED BY <1>6, <3>1, <3>3
    <2>3. <<>> \in DOMAIN u.regs /\ u.framework \in Frameworks
      BY <1>2, <1>3 DEF Grafted, IsTree
    <2> QED BY <2>1, <2>2, <2>3 DEF IsTree
  <1>11. ASSUME NEW p \in DOMAIN u.faces
         PROVE  /\ Owner(p) \in DOMAIN u.regs
                /\ u.faces[p].id = Last(p) /\ u.faces[p].parent = u.regs[Owner(p)].id
                /\ Obeys(u.faces[p], u.regs[Owner(p)].rule)
    <2>1. /\ Owner(p) \in DOMAIN u.regs /\ p \in DOMAIN t.faces
          /\ u.regs[Owner(p)].id = t.regs[Owner(p)].id
      BY <1>2, <1>3, <1>7, <1>9
    <2>2. /\ t.faces[p].id = Last(p) /\ t.faces[p].parent = t.regs[Owner(p)].id
          /\ Obeys(t.faces[p], t.regs[Owner(p)].rule) /\ p \in Slots /\ p # <<>>
          /\ Owner(p) \in Slots
      BY <2>1, PlacedFace
    <2>3. u.faces[p].id = Last(p) /\ u.faces[p].parent = u.regs[Owner(p)].id
      BY <1>5, <2>1, <2>2 DEF Fits
    <2>4. CASE p = s
      <3>1. u.faces[p] = face /\ u.regs[Owner(p)] = t.regs[Owner(p)]
        BY <1>1, <1>5, <1>6, <2>1, <2>4
      <3>2. Obeys(face, t.regs[Owner(p)].rule)
        BY <2>4 DEF Fits
      <3> QED BY <2>1, <2>3, <3>1, <3>2
    <2>5. CASE p # s /\ Owner(p) # s
      BY <1>5, <1>6, <2>1, <2>2, <2>5
    <2>6. CASE Owner(p) = s
      <3>1. face.needs /\ s \in DOMAIN t.regs /\ u.regs[s].rule = face.rule
        BY <1>4, <1>6, <1>8, <2>1, <2>6
      <3>2. IsStrictPrefix(s, p)
        <4>1. IsPrefix(s, s)
          BY <1>1, PrefixPointwise DEF Slots
        <4>2. IsPrefix(s, p)
          BY <1>1, <2>2, <2>6, <4>1, BelowOwner
        <4>3. p # s
          BY <1>1, <2>6
        <4> QED BY <4>2, <4>3 DEF IsStrictPrefix
      <3>3. t.faces[p].parent = face.id
        BY <1>1, <2>2, <2>6, <3>1, PlacedRegistry DEF Fits
      <3>4. Obeys(t.faces[p], face.rule)
        BY <2>1, <3>1, <3>2, <3>3 DEF ChildrenStay
      <3> QED BY <1>1, <1>5, <2>1, <2>3, <2>6, <3>1, <3>4
    <2> QED BY <2>1, <2>3, <2>4, <2>5, <2>6
  <1>12. ASSUME NEW p \in DOMAIN u.regs \ {<<>>}
         PROVE  p \in DOMAIN u.faces /\ u.regs[p] = Header(u.faces[p], SlotPath(u, p))
    <2>1. /\ p \in DOMAIN u.faces /\ p \in DOMAIN t.regs /\ p \in DOMAIN t.faces
          /\ Owner(p) \in DOMAIN u.regs
      BY <1>2, <1>3, <1>7
    <2>2. t.regs[p] = Header(t.faces[p], SlotPath(t, p)) /\ t.regs[p].path = SlotPath(t, p)
      BY <2>1, PlacedRegistry
    <2>3. SlotPath(u, p) = SlotPath(t, p)
      BY <1>5, <1>9, <2>1 DEF SlotPath, Fits
    <2> QED BY <1>5, <1>6, <2>1, <2>2, <2>3
  <1>13. IsFiniteSet(DOMAIN u.faces)
    BY <1>7, FS_Subset DEF Grafted
  <1>14. Grafted(u)
    BY <1>10, <1>11, <1>12, <1>13 DEF Grafted, WellFormed
  <1> QED BY <1>14 DEF u

(* Below a registry paths begin with the registry's own.                     *)
LEMMA PathsNest ==
    ASSUME NEW t, Grafted(t), NEW from \in Slots, from # <<>>,
           NEW q \in DOMAIN t.regs, IsPrefix(from, q)
    PROVE  from \in DOMAIN t.regs /\ IsPrefix(t.regs[from].path, t.regs[q].path)
  <1> DEFINE Nests(p) == from \in DOMAIN t.regs /\ IsPrefix(t.regs[from].path, t.regs[p].path)
             Bad == {n \in Nat : \E p \in DOMAIN t.regs :
                        Len(p) = n /\ IsPrefix(from, p) /\ ~Nests(p)}
  <1>1. SUFFICES ASSUME ~Nests(q) PROVE FALSE
    OBVIOUS
  <1>2. Len(q) \in Nat
    BY PlacedRegistry DEF Slots
  <1>3. Bad # {} /\ Bad \in SUBSET Nat
    BY <1>1, <1>2
  <1>4. PICK n \in Bad : \A m \in Bad : n <= m
    <2> HIDE DEF Bad
    <2> QED BY <1>3, LeastNat
  <1>5. PICK p \in DOMAIN t.regs : Len(p) = n /\ IsPrefix(from, p) /\ ~Nests(p)
    BY <1>4
  <1> HIDE DEF Bad
  <1>6. p \in Slots /\ p # <<>>
    BY <1>5, PlacedRegistry, RootNotBelow
  <1>7. \A s \in DOMAIN t.regs : t.regs[s].path \in Paths
    BY PlacedRegistry DEF Headers
  <1>8. p # from
    <2> SUFFICES ASSUME p = from PROVE FALSE
      OBVIOUS
    <2>1. IsPrefix(t.regs[p].path, t.regs[p].path)
      BY <1>7, PrefixPointwise DEF Paths
    <2> QED BY <1>5, <2>1
  <1>9. /\ p \in DOMAIN t.faces /\ t.regs[p].path = Append(t.regs[Owner(p)].path, t.faces[p].name)
        /\ t.faces[p] \in Faces /\ Owner(p) \in DOMAIN t.regs
    <2>1. p \in DOMAIN t.faces /\ t.regs[p].path = SlotPath(t, p)
      BY <1>5, <1>6, PlacedRegistry
    <2> QED BY <2>1, PlacedFace DEF SlotPath
  <1>10. IsPrefix(from, Owner(p)) /\ Owner(p) \in Slots /\ Len(Owner(p)) = Len(p) - 1
         /\ Len(p) \in Nat \ {0}
    BY <1>5, <1>6, <1>8, MovedOwner, SlotParts
  <1>11. Nests(Owner(p))
    <2> SUFFICES ASSUME ~Nests(Owner(p)) PROVE FALSE
      OBVIOUS
    <2>1. n - 1 \in Bad
      <3>1. Len(Owner(p)) = n - 1 /\ n - 1 \in Nat
        BY <1>5, <1>10
      <3> QED BY <1>9, <1>10, <3>1 DEF Bad
    <2>2. n <= n - 1 /\ n \in Nat
      BY <1>4, <2>1, <1>5, <1>10
    <2> QED BY <2>2
  <1>12. IsPrefix(t.regs[from].path, t.regs[p].path)
    <2> DEFINE a == t.regs[from].path  b == t.regs[Owner(p)].path  e == t.faces[p].name
    <2>1. a \in Seq(Names) /\ b \in Seq(Names) /\ e \in Names /\ IsPrefix(a, b)
      BY <1>7, <1>9, <1>11 DEF Paths, Faces
    <2> HIDE DEF a, b, e
    <2>2. Rest(a, b) \in Seq(Names) /\ b = a \o Rest(a, b)
      BY <2>1, RestOfPrefix
    <2>3. Append(Rest(a, b), e) \in Seq(Names)
      BY <2>1, <2>2
    <2>4. a \o Append(Rest(a, b), e) = Append(a \o Rest(a, b), e)
      BY <2>1, <2>2, AppendToConcat
    <2>5. IsPrefix(a, a \o Append(Rest(a, b), e))
      BY <2>1, <2>3, RestOfConcat
    <2>6. IsPrefix(a, Append(b, e))
      BY <2>2, <2>4, <2>5
    <2> QED BY <1>9, <2>6 DEF a, b, e
  <1> QED BY <1>5, <1>11, <1>12

(* Rebasing a path that begins with the old one, and the path below it.      *)
LEMMA RebaseBelow ==
    ASSUME NEW x \in Paths, NEW old \in Paths, NEW new \in Paths, NEW name \in Names,
           IsPrefix(old, x)
    PROVE  /\ Rebase(Append(x, name), old, new) = Append(Rebase(x, old, new), name)
           /\ Rebase(old, old, new) = new
  <1>1. old \in Seq(Names) /\ x \in Seq(Names) /\ new \in Seq(Names)
    BY DEF Paths
  <1>2. Rest(old, x) \in Seq(Names) /\ x = old \o Rest(old, x)
    BY <1>1, RestOfPrefix
  <1>3. Append(Rest(old, x), name) \in Seq(Names)
    BY <1>2
  <1>4. old \o Append(Rest(old, x), name) = Append(x, name)
    <2>1. old \o Append(Rest(old, x), name) = Append(old \o Rest(old, x), name)
      BY <1>1, <1>2, AppendToConcat
    <2> QED BY <1>2, <2>1
  <1>5. /\ IsPrefix(old, old \o Append(Rest(old, x), name))
        /\ Rest(old, old \o Append(Rest(old, x), name)) = Append(Rest(old, x), name)
    BY <1>1, <1>3, RestOfConcat
  <1>6. IsPrefix(old, Append(x, name)) /\ Rest(old, Append(x, name)) = Append(Rest(old, x), name)
    BY <1>4, <1>5
  <1>7. Rebase(Append(x, name), old, new) = new \o Append(Rest(old, x), name)
    BY <1>6 DEF Rebase, Rest
  <1>8. Rebase(x, old, new) = new \o Rest(old, x)
    BY DEF Rebase, Rest
  <1>9. new \o Append(Rest(old, x), name) = Append(new \o Rest(old, x), name)
    BY <1>1, <1>2, AppendToConcat
  <1>10. Rebase(old, old, new) = new
    <2>1. <<>> \in Seq(Names) /\ old \o <<>> = old /\ new \o <<>> = new
      BY <1>1
    <2>2. IsPrefix(old, old \o <<>>) /\ Rest(old, old \o <<>>) = <<>>
      BY <1>1, <2>1, RestOfConcat
    <2>3. IsPrefix(old, old) /\ Rest(old, old) = <<>>
      BY <2>1, <2>2
    <2>4. Rebase(old, old, new) = new \o <<>>
      BY <2>3 DEF Rebase, Rest
    <2> QED BY <2>1, <2>4
  <1> QED BY <1>7, <1>8, <1>9, <1>10

Below(from, among) == {q \in among : IsPrefix(from, q)}
MovedAll(s, from, among) == {Moved(s, from, q) : q \in Below(from, among)}

\* In a registered tree an identity names one face.
OneSlotEach(t) == \A s, p \in DOMAIN t.faces : t.faces[s].id = t.faces[p].id => s = p

LEMMA MovedSource ==
    ASSUME NEW s \in Slots, NEW from \in Slots, NEW among \in SUBSET Slots,
           NEW p \in MovedAll(s, from, among)
    PROVE  /\ p \in Slots /\ IsPrefix(s, p)
           /\ Moved(from, s, p) \in among /\ IsPrefix(from, Moved(from, s, p))
           /\ Moved(s, from, Moved(from, s, p)) = p
           /\ p = s <=> Moved(from, s, p) = from
  <1>1. PICK q \in among : IsPrefix(from, q) /\ p = Moved(s, from, q)
    BY DEF MovedAll, Below
  <1>2. q \in Slots
    OBVIOUS
  <1>3. /\ Moved(s, from, q) \in Slots
        /\ IsPrefix(s, Moved(s, from, q))
        /\ Moved(from, s, Moved(s, from, q)) = q
        /\ (Moved(s, from, q) = s <=> q = from)
    <2>1. \A r \in Slots : IsPrefix(from, r) =>
            /\ Moved(s, from, r) \in Slots
            /\ IsPrefix(s, Moved(s, from, r))
            /\ Moved(from, s, Moved(s, from, r)) = r
            /\ (Moved(s, from, r) = s <=> r = from)
      BY MovedSlot
    <2> QED BY <1>1, <1>2, <2>1
  <1> QED BY <1>1, <1>3

LEMMA MovedFinite ==
    ASSUME NEW s, NEW from, NEW among, IsFiniteSet(among)
    PROVE  IsFiniteSet(MovedAll(s, from, among))
  <1> DEFINE S == Below(from, among)  T == MovedAll(s, from, among)
             f == [q \in S |-> Moved(s, from, q)]
  <1>1. IsFiniteSet(S)
    BY FS_Subset DEF Below
  <1>2. f \in [S -> T] /\ \A p \in T : \E q \in S : f[q] = p
    BY DEF MovedAll
  <1> HIDE DEF S, T, f
  <1>3. f \in Surjection(S, T)
    BY <1>2 DEF Surjection
  <1>4. IsFiniteSet(T)
    BY <1>1, <1>3, FS_Surjection
  <1> QED BY <1>4 DEF T

(* What a copied subtree leaves of the tree, and what it adds.               *)
LEMMA SubtreeParts ==
    ASSUME NEW t, Grafted(t), NEW s, NEW face, NEW x, NEW from
    PROVE  LET path == Append(t.regs[Owner(s)].path, face.name)
               F == MovedAll(s, from, DOMAIN x.faces)
               R == MovedAll(s, from, DOMAIN x.regs)
               source(p) == Moved(from, s, p)
               u == GraftSubtree(t, s, face, x, from)
               v == Without(t, s)
           IN  /\ u.framework = t.framework
               /\ DOMAIN u.faces = DOMAIN v.faces \cup F
               /\ DOMAIN u.regs = DOMAIN v.regs \cup R
               /\ \A p \in DOMAIN u.faces :
                     u.faces[p] = IF p = s THEN face
                                  ELSE IF p \in F
                                  THEN RebaseParent(x.faces[source(p)], x.faces[from].id, face.id)
                                  ELSE t.faces[p]
               /\ \A p \in DOMAIN u.regs :
                     u.regs[p] = IF p \notin R THEN t.regs[p]
                                 ELSE IF p = s THEN Header(face, path)
                                 ELSE [x.regs[source(p)] EXCEPT
                                         !.path = Rebase(x.regs[source(p)].path, x.regs[from].path, path)]
  <1> DEFINE path == Append(t.regs[Owner(s)].path, face.name)
             F == MovedAll(s, from, DOMAIN x.faces)
             R == MovedAll(s, from, DOMAIN x.regs)
             source(p) == Moved(from, s, p)
             u == GraftSubtree(t, s, face, x, from)
             v == Without(t, s)
             faces == [p \in DOMAIN v.faces \cup F |->
                         IF p = s THEN face
                         ELSE IF p \in F
                              THEN RebaseParent(x.faces[source(p)], x.faces[from].id, face.id)
                              ELSE t.faces[p]]
             regs == [p \in DOMAIN v.regs \cup R |->
                        IF p \notin R THEN t.regs[p]
                        ELSE IF p = s THEN Header(face, path)
                             ELSE [x.regs[source(p)] EXCEPT
                                     !.path = Rebase(x.regs[source(p)].path, x.regs[from].path, path)]]
  <1>1. u = [t EXCEPT !.faces = faces, !.regs = regs]
    BY Zenon DEF GraftSubtree, MovedAll, Below, Moved, Rest
  <1> HIDE DEF faces, regs, u
  <1>2. u.framework = t.framework /\ u.faces = faces /\ u.regs = regs
    BY <1>1 DEF Grafted, IsTree
  <1> QED BY <1>2 DEF faces, regs, u

LEMMA GraftSubtreeKeeps ==
    ASSUME NEW t, Grafted(t), NEW s, NEW face, Fits(t, s, face),
           NEW x, Grafted(x), OneSlotEach(x), NEW from \in DOMAIN x.faces,
           face.rule = x.faces[from].rule
    PROVE  Grafted(GraftSubtree(t, s, face, x, from))
  <1> DEFINE path == Append(t.regs[Owner(s)].path, face.name)
             F == MovedAll(s, from, DOMAIN x.faces)
             R == MovedAll(s, from, DOMAIN x.regs)
             source(p) == Moved(from, s, p)
             u == GraftSubtree(t, s, face, x, from)
             v == Without(t, s)
  <1>1. /\ s \in Slots /\ s # <<>> /\ s \in DOMAIN t.faces /\ face \in Faces
        /\ Owner(s) \in DOMAIN t.regs /\ Owner(s) # s /\ ~IsPrefix(s, Owner(s))
        /\ from \in Slots /\ from # <<>> /\ IsPrefix(s, s) /\ IsPrefix(from, from)
    <2>1. s \in Slots /\ from \in Slots
      BY PlacedFace DEF Fits
    <2>2. IsPrefix(s, s) /\ IsPrefix(from, from)
      BY <2>1, PrefixPointwise DEF Slots
    <2> QED BY <2>1, <2>2, PlacedFace DEF Fits
  <1>2. /\ v.framework = t.framework
        /\ DOMAIN v.faces = {p \in DOMAIN t.faces : ~IsPrefix(s, p)}
        /\ DOMAIN v.regs = {p \in DOMAIN t.regs : ~IsPrefix(s, p)}
        /\ <<>> \in DOMAIN v.regs
        /\ \A p \in DOMAIN t.faces : ~IsPrefix(s, p) => ~IsPrefix(s, Owner(p))
    BY <1>1, WithoutParts
  <1>3. /\ u.framework = t.framework
        /\ DOMAIN u.faces = DOMAIN v.faces \cup F
        /\ DOMAIN u.regs = DOMAIN v.regs \cup R
        /\ \A p \in DOMAIN u.faces :
              u.faces[p] = IF p = s THEN face
                           ELSE IF p \in F
                                THEN RebaseParent(x.faces[source(p)], x.faces[from].id, face.id)
                                ELSE t.faces[p]
        /\ \A p \in DOMAIN u.regs :
              u.regs[p] = IF p \notin R THEN t.regs[p]
                          ELSE IF p = s THEN Header(face, path)
                               ELSE [x.regs[source(p)] EXCEPT
                                       !.path = Rebase(x.regs[source(p)].path, x.regs[from].path, path)]
    BY SubtreeParts
  <1>4. /\ DOMAIN x.faces \in SUBSET Slots /\ DOMAIN x.regs \in SUBSET Slots
        /\ s \in F
    <2>1. DOMAIN x.faces \in SUBSET Slots /\ DOMAIN x.regs \in SUBSET Slots
      BY DEF Grafted, IsTree
    <2>2. Moved(s, from, from) = s
      BY <1>1, MovedSlot
    <2>3. from \in Below(from, DOMAIN x.faces)
      BY <1>1 DEF Below
    <2> QED BY <2>1, <2>2, <2>3 DEF MovedAll
  <1>5. \A p \in F : /\ p \in Slots /\ IsPrefix(s, p)
                     /\ source(p) \in DOMAIN x.faces /\ IsPrefix(from, source(p))
                     /\ Moved(s, from, source(p)) = p /\ (p = s <=> source(p) = from)
    BY <1>1, <1>4, MovedSource
  <1>6. \A p \in R : /\ p \in Slots /\ IsPrefix(s, p)
                     /\ source(p) \in DOMAIN x.regs /\ IsPrefix(from, source(p))
                     /\ Moved(s, from, source(p)) = p /\ (p = s <=> source(p) = from)
    BY <1>1, <1>4, MovedSource
  <1>7. path \in Paths
    <2>1. t.regs[Owner(s)].path \in Paths /\ face.name \in Names
      BY <1>1, PlacedRegistry DEF Headers, Faces
    <2> QED BY <2>1 DEF Paths
  <1> HIDE DEF path, F, R, source, u, v
  \* The registry one moved face hangs in was moved with it.
  <1>8. ASSUME NEW q \in DOMAIN x.faces, IsPrefix(from, q), q # from
        PROVE  /\ Owner(q) \in DOMAIN x.regs /\ IsPrefix(from, Owner(q))
               /\ Owner(Moved(s, from, q)) = Moved(s, from, Owner(q))
               /\ Owner(Moved(s, from, q)) \in R
               /\ source(Owner(Moved(s, from, q))) = Owner(q)
               /\ Last(Moved(s, from, q)) = Last(q)
    <2>1. q \in Slots /\ Owner(q) \in DOMAIN x.regs
      BY PlacedFace
    <2>2. /\ Owner(q) \in Slots /\ IsPrefix(from, Owner(q))
          /\ Owner(Moved(s, from, q)) = Moved(s, from, Owner(q))
          /\ Last(Moved(s, from, q)) = Last(q)
      BY <1>1, <1>8, <2>1, MovedOwner
    <2>3. Moved(from, s, Moved(s, from, Owner(q))) = Owner(q)
      BY <1>1, <2>2, MovedSlot
    <2>4. Moved(s, from, Owner(q)) \in R
      BY <2>1, <2>2 DEF R, MovedAll, Below
    <2> QED BY <2>1, <2>2, <2>3, <2>4 DEF source
  <1>9. ASSUME NEW q \in DOMAIN x.regs, IsPrefix(from, q)
        PROVE  /\ from \in DOMAIN x.regs /\ IsPrefix(x.regs[from].path, x.regs[q].path)
               /\ x.regs[from].path \in Paths /\ x.regs[q].path \in Paths
               /\ x.regs[from].id = x.faces[from].id /\ x.regs[from].rule = face.rule
               /\ q \in DOMAIN x.faces
               /\ x.regs[q] \in Headers /\ x.regs[q] = Header(x.faces[q], SlotPath(x, q))
    <2>1. from \in DOMAIN x.regs /\ IsPrefix(x.regs[from].path, x.regs[q].path)
      BY <1>1, <1>9, PathsNest
    <2>2. x.regs[from] \in Headers /\ x.regs[q] \in Headers
      BY <2>1, PlacedRegistry
    <2>3. x.regs[from].path \in Paths /\ x.regs[q].path \in Paths
      BY <2>2 DEF Headers
    <2>4. x.regs[from].id = x.faces[from].id /\ x.regs[from].rule = face.rule
      BY <1>1, <2>1, PlacedRegistry
    <2>5. q # <<>>
      BY <1>1, <1>9, RootNotBelow
    <2>6. q \in DOMAIN x.faces /\ x.regs[q] = Header(x.faces[q], SlotPath(x, q))
      BY <2>5, PlacedRegistry
    <2> QED BY <2>1, <2>2, <2>3, <2>4, <2>6
  <1>10. \A p \in DOMAIN v.faces : p \notin F /\ p # s
    BY <1>1, <1>2, <1>5
  <1>11. \A p \in DOMAIN v.regs : p \notin R /\ p # s
    BY <1>1, <1>2, <1>6
  \* What the moved parts hold: the source's, but for parent and path.
  <1>12. ASSUME NEW p \in F, p # s
         PROVE  /\ u.faces[p] \in Faces
                /\ u.faces[p].parent = IF x.faces[source(p)].parent = x.faces[from].id
                                       THEN face.id ELSE x.faces[source(p)].parent
                /\ \A field \in {"id", "namespace", "name", "rule", "features", "admission"} :
                      u.faces[p][field] = x.faces[source(p)][field]
    <2> DEFINE f == x.faces[source(p)]  old == x.faces[from].id
    <2>1. u.faces[p] = RebaseParent(f, old, face.id)
      BY <1>3, <1>12
    <2>2. f \in Faces /\ face.id \in NodeIds
      BY <1>1, <1>5, PlacedFace DEF Faces
    <2> HIDE DEF f, old
    <2>3. /\ RebaseParent(f, old, face.id) \in Faces
          /\ RebaseParent(f, old, face.id).parent = IF f.parent = old THEN face.id ELSE f.parent
      BY <2>2 DEF RebaseParent, Faces
    <2>4. /\ RebaseParent(f, old, face.id).id = f.id
          /\ RebaseParent(f, old, face.id).namespace = f.namespace
          /\ RebaseParent(f, old, face.id).name = f.name
          /\ RebaseParent(f, old, face.id).rule = f.rule
          /\ RebaseParent(f, old, face.id).features = f.features
          /\ RebaseParent(f, old, face.id).admission = f.admission
      BY <2>2 DEF RebaseParent, Faces
    <2> QED BY <2>1, <2>3, <2>4 DEF f, old
  <1>13. ASSUME NEW p \in R
         PROVE  /\ u.regs[p] \in Headers
                /\ u.regs[p].path = Rebase(x.regs[source(p)].path, x.regs[from].path, path)
                /\ p # s => /\ u.regs[p].id = x.regs[source(p)].id
                            /\ u.regs[p].namespace = x.regs[source(p)].namespace
                            /\ u.regs[p].rule = x.regs[source(p)].rule
                            /\ u.regs[p].admission = x.regs[source(p)].admission
                /\ p = s => u.regs[p] = Header(face, path)
    <2> DEFINE q == source(p)  new == Rebase(x.regs[q].path, x.regs[from].path, path)
    <2>1. /\ p \in DOMAIN u.regs /\ q \in DOMAIN x.regs /\ IsPrefix(from, q)
          /\ (p = s <=> q = from)
      BY <1>3, <1>6, <1>13
    <2>2. x.regs[q] \in Headers /\ x.regs[from].path \in Paths /\ x.regs[q].path \in Paths
      BY <1>9, <2>1
    <2>3. new \in Paths
      BY <1>7, <2>2, RebasePath
    <2>4. CASE p = s
      <3>1. u.regs[p] = Header(face, path)
        BY <1>3, <2>1, <2>4
      <3>2. Header(face, path) \in Headers /\ Header(face, path).path = path
        BY <1>1, <1>7 DEF Header, Headers, Faces
      <3>3. new = path
        <4>1. PICK name \in Names : TRUE
          BY <1>1 DEF Faces
        <4>2. IsPrefix(x.regs[from].path, x.regs[from].path)
          BY <2>2, PrefixPointwise DEF Paths
        <4> QED BY <1>7, <2>1, <2>2, <2>4, <4>1, <4>2, RebaseBelow
      <3> QED BY <2>4, <3>1, <3>2, <3>3
    <2>5. CASE p # s
      <3>1. u.regs[p] = [x.regs[q] EXCEPT !.path = new]
        BY <1>3, <2>1, <2>5
      <3> DEFINE h == x.regs[q]
      <3>2. h \in Headers
        BY <2>2
      <3> HIDE DEF h, new
      <3>3. /\ [h EXCEPT !.path = new] \in Headers /\ [h EXCEPT !.path = new].path = new
            /\ [h EXCEPT !.path = new].id = h.id
            /\ [h EXCEPT !.path = new].namespace = h.namespace
            /\ [h EXCEPT !.path = new].rule = h.rule
            /\ [h EXCEPT !.path = new].admission = h.admission
        BY <2>3, <3>2 DEF Headers
      <3> QED BY <2>5, <3>1, <3>3 DEF h, new
    <2> QED BY <2>4, <2>5
  <1>14. IsTree(u)
    <2>1. ASSUME NEW p \in DOMAIN u.faces PROVE p \in Slots \ {<<>>} /\ u.faces[p] \in Faces
      <3>1. CASE p \in DOMAIN v.faces
        <4>1. u.faces[p] = t.faces[p] /\ p \in DOMAIN t.faces
          BY <1>2, <1>3, <1>10, <3>1
        <4> QED BY <4>1, PlacedFace
      <3>2. CASE p \in F
        <4>1. p \in Slots /\ p # <<>>
          BY <1>1, <1>5, <3>2, RootNotBelow
        <4>2. u.faces[p] \in Faces
          BY <1>1, <1>3, <1>12, <3>2
        <4> QED BY <4>1, <4>2
      <3> QED BY <1>3, <3>1, <3>2
    <2>2. ASSUME NEW p \in DOMAIN u.regs PROVE p \in Slots /\ u.regs[p] \in Headers
      <3>1. CASE p \in DOMAIN v.regs
        <4>1. u.regs[p] = t.regs[p] /\ p \in DOMAIN t.regs
          BY <1>2, <1>3, <1>11, <3>1
        <4> QED BY <4>1, PlacedRegistry
      <3>2. CASE p \in R
        BY <1>6, <1>13, <3>2
      <3> QED BY <1>3, <3>1, <3>2
    <2>3. <<>> \in DOMAIN u.regs /\ u.framework \in Frameworks
      BY <1>2, <1>3 DEF Grafted, IsTree
    <2> QED BY <2>1, <2>2, <2>3 DEF IsTree
  <1>15. ASSUME NEW p \in DOMAIN u.faces
         PROVE  /\ Owner(p) \in DOMAIN u.regs
                /\ u.faces[p].id = Last(p) /\ u.faces[p].parent = u.regs[Owner(p)].id
                /\ Obeys(u.faces[p], u.regs[Owner(p)].rule)
    <2>1. CASE p \in DOMAIN v.faces
      <3>1. u.faces[p] = t.faces[p] /\ p \in DOMAIN t.faces /\ ~IsPrefix(s, p)
        BY <1>2, <1>3, <1>10, <2>1
      <3>2. Owner(p) \in DOMAIN v.regs
        BY <1>2, <3>1, PlacedFace
      <3>3. u.regs[Owner(p)] = t.regs[Owner(p)]
        BY <1>3, <1>11, <3>2
      <3> QED BY <1>3, <3>1, <3>2, <3>3, PlacedFace
    <2>2. CASE p = s
      <3>1. u.faces[p] = face
        BY <1>3, <2>2
      <3>2. Owner(s) \in DOMAIN v.regs
        BY <1>1, <1>2
      <3>3. u.regs[Owner(s)] = t.regs[Owner(s)]
        BY <1>3, <1>11, <3>2
      <3>4. /\ face.id = Last(s) /\ face.parent = t.regs[Owner(s)].id
            /\ Obeys(face, t.regs[Owner(s)].rule)
        BY <1>1, PlacedFace DEF Fits
      <3> QED BY <1>3, <2>2, <3>1, <3>2, <3>3, <3>4
    <2>3. CASE p \in F /\ p # s
      <3> DEFINE q == source(p)
      <3>1. q \in DOMAIN x.faces /\ IsPrefix(from, q) /\ q # from /\ Moved(s, from, q) = p
        BY <1>5, <2>3
      <3>2. /\ Owner(q) \in DOMAIN x.regs /\ IsPrefix(from, Owner(q))
            /\ Owner(p) \in R /\ source(Owner(p)) = Owner(q) /\ Last(p) = Last(q)
        BY <1>8, <3>1
      <3>3. /\ x.faces[q].id = Last(q) /\ x.faces[q].parent = x.regs[Owner(q)].id
            /\ Obeys(x.faces[q], x.regs[Owner(q)].rule)
        BY <3>1, PlacedFace
      <3>4. /\ u.faces[p].id = x.faces[q].id /\ u.faces[p].features = x.faces[q].features
            /\ u.faces[p].parent = IF x.faces[q].parent = x.faces[from].id
                                   THEN face.id ELSE x.faces[q].parent
        BY <1>12, <2>3
      <3> HIDE DEF q
      <3>5. Owner(p) = s <=> Owner(q) = from
        BY <1>6, <3>2
      <3>6. u.faces[p].parent = u.regs[Owner(p)].id /\ x.regs[Owner(q)].rule = u.regs[Owner(p)].rule
        <4>1. CASE Owner(q) = from
          <5>1. u.regs[Owner(p)] = Header(face, path)
            BY <1>13, <3>2, <3>5, <4>1
          <5>2. Header(face, path).id = face.id /\ Header(face, path).rule = face.rule
            BY DEF Header
          <5>3. x.regs[from].id = x.faces[from].id /\ x.regs[from].rule = face.rule
            BY <1>9, <3>2
          <5> QED BY <3>3, <3>4, <4>1, <5>1, <5>2, <5>3
        <4>2. CASE Owner(q) # from
          <5>1. /\ u.regs[Owner(p)].id = x.regs[Owner(q)].id
                /\ u.regs[Owner(p)].rule = x.regs[Owner(q)].rule
            BY <1>13, <3>2, <3>5, <4>2
          <5>2. Owner(q) # <<>>
            BY <1>1, <3>2, RootNotBelow
          <5>3. Owner(q) \in DOMAIN x.faces /\ x.regs[Owner(q)].id = x.faces[Owner(q)].id
            BY <3>2, <5>2, PlacedRegistry
          <5>4. x.faces[Owner(q)].id # x.faces[from].id
            BY <4>2, <5>3 DEF OneSlotEach
          <5> QED BY <3>3, <3>4, <5>1, <5>3, <5>4
        <4> QED BY <4>1, <4>2
      <3>7. Obeys(u.faces[p], u.regs[Owner(p)].rule)
        BY <3>3, <3>4, <3>6 DEF Obeys
      <3> QED BY <1>3, <3>2, <3>3, <3>4, <3>6, <3>7
    <2> QED BY <1>3, <2>1, <2>2, <2>3
  <1>16. ASSUME NEW p \in DOMAIN u.regs \ {<<>>}
         PROVE  p \in DOMAIN u.faces /\ u.regs[p] = Header(u.faces[p], SlotPath(u, p))
    <2>1. CASE p \in DOMAIN v.regs
      <3>1. u.regs[p] = t.regs[p] /\ p \in DOMAIN t.regs /\ ~IsPrefix(s, p) /\ p # <<>>
        BY <1>2, <1>3, <1>11, <2>1
      <3>2. p \in DOMAIN t.faces /\ t.regs[p] = Header(t.faces[p], SlotPath(t, p))
        BY <3>1, PlacedRegistry
      <3>3. p \in DOMAIN v.faces /\ u.faces[p] = t.faces[p]
        BY <1>2, <1>3, <1>10, <3>1, <3>2
      <3>4. Owner(p) \in DOMAIN v.regs
        BY <1>2, <3>1, <3>2, PlacedFace
      <3>5. u.regs[Owner(p)] = t.regs[Owner(p)]
        BY <1>3, <1>11, <3>4
      <3> QED BY <1>3, <3>1, <3>2, <3>3, <3>5 DEF SlotPath
    <2>2. CASE p = s /\ p \in R
      <3>1. u.regs[p] = Header(face, path) /\ u.faces[p] = face /\ p \in DOMAIN u.faces
        BY <1>3, <1>4, <1>13, <2>2
      <3>2. Owner(s) \in DOMAIN v.regs
        BY <1>1, <1>2
      <3>3. u.regs[Owner(s)] = t.regs[Owner(s)]
        BY <1>3, <1>11, <3>2
      <3> QED BY <2>2, <3>1, <3>3 DEF SlotPath, path
    <2>3. CASE p # s /\ p \in R
      <3> DEFINE q == source(p)  o == Owner(q)  old == x.regs[from].path
      <3>1. q \in DOMAIN x.regs /\ IsPrefix(from, q) /\ q # from /\ Moved(s, from, q) = p
        BY <1>6, <2>3
      <3>2. q \in DOMAIN x.faces /\ x.regs[q] = Header(x.faces[q], SlotPath(x, q))
        BY <1>9, <3>1
      <3>3. p \in F
        BY <3>1, <3>2 DEF F, MovedAll, Below
      <3>4. o \in DOMAIN x.regs /\ IsPrefix(from, o) /\ Owner(p) \in R /\ source(Owner(p)) = o
        BY <1>8, <3>1, <3>2
      <3>5. x.regs[o].path \in Paths /\ old \in Paths /\ IsPrefix(old, x.regs[o].path)
        BY <1>9, <3>4
      <3>6. \A field \in {"id", "namespace", "name", "rule", "admission"} :
                u.faces[p][field] = x.faces[q][field]
        BY <1>12, <2>3, <3>3
      <3>7. /\ u.regs[p] \in Headers /\ u.regs[p].path = Rebase(x.regs[q].path, old, path)
            /\ u.regs[p].id = x.regs[q].id /\ u.regs[p].namespace = x.regs[q].namespace
            /\ u.regs[p].rule = x.regs[q].rule /\ u.regs[p].admission = x.regs[q].admission
        BY <1>13, <2>3
      <3>8. u.regs[Owner(p)].path = Rebase(x.regs[o].path, old, path)
        BY <1>13, <3>4
      <3>9. x.faces[q].name \in Names
        BY <3>2, PlacedFace DEF Faces
      <3> HIDE DEF q, o, old
      <3>10. x.regs[q].path = Append(x.regs[o].path, x.faces[q].name)
        BY <3>2 DEF SlotPath, Header, o
      <3>11. u.regs[p].path = Append(u.regs[Owner(p)].path, x.faces[q].name)
        BY <1>7, <3>5, <3>7, <3>8, <3>9, <3>10, RebaseBelow
      <3>12. u.regs[p].path = SlotPath(u, p)
        BY <3>6, <3>11 DEF SlotPath
      <3>13. /\ u.regs[p].id = u.faces[p].id /\ u.regs[p].namespace = u.faces[p].namespace
             /\ u.regs[p].rule = u.faces[p].rule /\ u.regs[p].admission = u.faces[p].admission
        BY <3>2, <3>6, <3>7 DEF Header
      <3>14. u.regs[p] = [id |-> u.regs[p].id, namespace |-> u.regs[p].namespace,
                          path |-> u.regs[p].path, rule |-> u.regs[p].rule,
                          admission |-> u.regs[p].admission]
        BY <3>7 DEF Headers
      <3>15. u.regs[p] = Header(u.faces[p], SlotPath(u, p))
        BY <3>12, <3>13, <3>14 DEF Header
      <3>16. p \in DOMAIN u.faces
        BY <1>3, <3>3
      <3> QED BY <3>15, <3>16
    <2> QED BY <1>3, <2>1, <2>2, <2>3
  <1>17. IsFiniteSet(DOMAIN u.faces)
    <2>1. IsFiniteSet(DOMAIN v.faces)
      BY <1>2, FS_Subset DEF Grafted
    <2>2. IsFiniteSet(F)
      BY MovedFinite DEF F, Grafted
    <2>3. IsFiniteSet(DOMAIN v.faces \cup F)
      BY <2>1, <2>2, FS_Union
    <2> QED BY <1>3, <2>3
  <1>18. Grafted(u)
    BY <1>14, <1>15, <1>16, <1>17 DEF Grafted, WellFormed
  <1> QED BY <1>18 DEF u

-----------------------------------------------------------------------------
(* The staged tree is well formed between any two slots, whatever the plan:  *)
(* what a slot takes is a face of the external tree, with its registry.      *)

OverlayInv ==
    /\ base \in Bases /\ external \in Externals
    /\ asked # "none" => Grafted(effective)
    /\ slots # <<>> => \E s \in DOMAIN external.faces : graft.face = external.faces[s]
    /\ EffectiveWellFormed

LEMMA InputsGrafted ==
    /\ \A t \in Bases \cup Externals : Grafted(t)
    /\ \A t \in Bases \cup Externals :
          OneSlotEach(t) /\ \A s \in DOMAIN t.faces : t.faces[s].id # t.regs[<<>>].id
  <1>1. \A t \in Bases \cup Externals : Grafted(t)
    BY OverlayAssumption, RegisteredAssumption DEF Grafted
  <1>2. \A t \in Bases \cup Externals :
          OneSlotEach(t) /\ \A s \in DOMAIN t.faces : t.faces[s].id # t.regs[<<>>].id
    BY RegisteredAssumption DEF OneSlotEach
  <1> QED BY <1>1, <1>2

LEMMA GraftKeeps ==
    ASSUME NEW t, Grafted(t), NEW x, Grafted(x), OneSlotEach(x), NEW from \in DOMAIN x.faces,
           NEW target, NEW full, CanGraft(t, target, x.faces[from], full)
    PROVE  Grafted(ApplyOverlayFace(t, target, x.faces[from], full, x))
  <1> DEFINE replacement == x.faces[from]
             face == Candidate(replacement, FaceById(t, target))
             s == TargetSlot(t, target)
  <1>1. replacement \in Faces
    BY PlacedFace
  <1>2. Fits(t, s, face)
    BY <1>1, CandidateFits
  <1>3. face.rule = replacement.rule
    <2> HIDE DEF replacement
    <2> QED BY <1>1 DEF Candidate, Faces
  <1>4. FaceSlot(x, replacement.id) = from
    <2>1. HasFace(x, replacement.id)
      BY DEF HasFace, FacesOf
    <2>2. /\ FaceSlot(x, replacement.id) \in DOMAIN x.faces
          /\ x.faces[FaceSlot(x, replacement.id)].id = replacement.id
      BY <2>1, FaceFirst
    <2> QED BY <2>2 DEF OneSlotEach
  <1>5. full \/ ChildrenStay(t, s, face)
    BY DEF CanGraft
  <1>6. ApplyOverlayFace(t, target, replacement, full, x)
          = IF full THEN GraftSubtree(t, s, face, x, from) ELSE GraftFace(t, s, face)
    BY <1>4 DEF ApplyOverlayFace
  <1> HIDE DEF replacement, face, s
  <1>7. CASE full
    <2>1. face.rule = x.faces[from].rule
      BY <1>3 DEF replacement
    <2>2. Grafted(GraftSubtree(t, s, face, x, from))
      BY <1>2, <2>1, GraftSubtreeKeeps
    <2> QED BY <1>6, <1>7, <2>2 DEF replacement
  <1>8. CASE ~full
    <2>1. Grafted(GraftFace(t, s, face))
      BY <1>2, <1>5, <1>8, GraftFaceKeeps
    <2> QED BY <1>6, <1>8, <2>1 DEF replacement
  <1> QED BY <1>7, <1>8

(* A selector that resolves names a face of the tree.                        *)
LEMMA ResolvedFace ==
    ASSUME NEW t, Grafted(t), NEW selector, Resolves(t, selector)
    PROVE  \E s \in DOMAIN t.faces : FaceById(t, Resolved(t, selector)) = t.faces[s]
  <1>1. Matches(t, selector) \subseteq DOMAIN t.faces
    BY DEF Matches
  <1>2. Matches(t, selector) # {}
    BY FS_EmptySet DEF Resolves
  <1>3. PICK p \in DOMAIN t.faces : Resolved(t, selector) = t.faces[p].id
    BY <1>1, <1>2 DEF Resolved
  <1>4. HasFace(t, Resolved(t, selector))
    BY <1>3 DEF HasFace, FacesOf
  <1>5. FaceSlot(t, Resolved(t, selector)) \in DOMAIN t.faces
    BY <1>4, FaceFirst
  <1> QED BY <1>5 DEF FaceById

LEMMA OverlayInitInv == OverlayInit => OverlayInv
  BY DEF OverlayInit, OverlayInv, EffectiveWellFormed, Effective

LEMMA OverlayNextInv == OverlayInv /\ [OverlayNext]_overlayVars => OverlayInv'
  <1> SUFFICES ASSUME OverlayInv, [OverlayNext]_overlayVars PROVE OverlayInv'
    OBVIOUS
  <1>1. Grafted(base) /\ Grafted(external) /\ OneSlotEach(external)
    BY InputsGrafted DEF OverlayInv
  <1>2. \A given : Answer(given) /\ (given = Refused \/ WellFormed(given)) => OverlayInv'
    BY DEF Answer, inputs, OverlayInv, EffectiveWellFormed, Effective
  <1>3. \A name, cuts : Begin(name, cuts) => OverlayInv'
    BY <1>1 DEF Begin, inputs, OverlayInv, EffectiveWellFormed, Effective
  <1>4. CASE Declare \/ FindRecord
    BY <1>4 DEF Declare, FindRecord, asking, OverlayInv, EffectiveWellFormed, Effective
  <1>5. CASE AskStatic
    BY <1>3, <1>5 DEF AskStatic, inputs, asking, OverlayInv, EffectiveWellFormed, Effective
  <1>6. CASE AskRecorded
    BY <1>3, <1>6 DEF AskRecorded, inputs, asking, OverlayInv, EffectiveWellFormed, Effective
  <1>7. CASE OpenCut
    <2>1. \E s \in DOMAIN external.faces : graft'.face = external.faces[s]
      BY <1>1, <1>7, ResolvedFace DEF OpenCut, CutResolves
    <2> QED BY <1>7, <2>1 DEF OpenCut, inputs, OverlayInv, EffectiveWellFormed, Effective
  <1>8. CASE GraftSlot
    <2>1. PICK s \in DOMAIN external.faces : graft.face = external.faces[s]
      BY <1>8 DEF GraftSlot, OverlayInv
    <2>2. Grafted(effective) /\ CanGraft(effective, Head(slots), external.faces[s], graft.full)
      BY <1>8, <2>1 DEF GraftSlot, SlotTakes, OverlayInv
    <2>3. Grafted(effective')
      BY <1>1, <1>8, <2>1, <2>2, GraftKeeps DEF GraftSlot
    <2> QED BY <1>8, <2>1, <2>3 DEF GraftSlot, inputs, OverlayInv, EffectiveWellFormed, Effective
  <1>9. CASE RefusePlan
    BY <1>2, <1>9 DEF RefusePlan
  <1>10. CASE ReturnTree
    BY <1>2, <1>10 DEF ReturnTree, OverlayInv, Grafted
  <1>11. CASE UNCHANGED overlayVars
    BY <1>11 DEF overlayVars, inputs, asking, OverlayInv, EffectiveWellFormed, Effective
  <1> QED BY <1>4, <1>5, <1>6, <1>7, <1>8, <1>9, <1>10, <1>11 DEF OverlayNext

(* Whatever cuts are declared and whatever records are found, a tree that an *)
(* overlay answers is well formed: every face hangs in the registry its      *)
(* parent names and obeys its rule, and every registry shows its face, the   *)
(* path included (apply_overlay_face over a copy, checked slot by slot).     *)
THEOREM OverlaysAreWellFormed == OverlaySpec => []EffectiveWellFormed
  <1>1. OverlayInv => EffectiveWellFormed
    BY DEF OverlayInv
  <1> QED BY <1>1, OverlayInitInv, OverlayNextInv, PTL DEF OverlaySpec

(* A finite set can be listed in the order of its keys.                      *)
Sorts(T, key) ==
    \E list \in [1..Cardinality(T) -> T] :
        /\ ToSet(list) = T
        /\ \A i, k \in DOMAIN list : i < k => Lex(key[list[i]], key[list[k]])

LEMMA LexSorted ==
    ASSUME NEW S, IsFiniteSet(S), NEW key \in [S -> Keys],
           \A s, p \in S : key[s] = key[p] => s = p
    PROVE  Sorts(S, key)
  <1> DEFINE Bad == {n \in Nat : \E T \in SUBSET S : Cardinality(T) = n /\ ~Sorts(T, key)}
  <1>1. SUFFICES ASSUME ~Sorts(S, key) PROVE FALSE
    OBVIOUS
  <1>2. \A T \in SUBSET S : IsFiniteSet(T) /\ Cardinality(T) \in Nat
    BY FS_Subset, FS_CardinalityType
  <1>3. Bad # {} /\ Bad \in SUBSET Nat
    <2>1. Cardinality(S) \in Bad
      BY <1>1, <1>2
    <2> QED BY <2>1
  <1>4. PICK n \in Bad : \A m \in Bad : n <= m
    <2> HIDE DEF Bad
    <2> QED BY <1>3, LeastNat
  <1>5. PICK T \in SUBSET S : Cardinality(T) = n /\ ~Sorts(T, key)
    OBVIOUS
  <1>6. n \in Nat
    OBVIOUS
  <1>7. T # {}
    <2> SUFFICES ASSUME T = {} PROVE Sorts(T, key)
      BY <1>5
    <2> DEFINE list == [i \in 1..0 |-> i]
    <2>1. Cardinality(T) = 0
      BY FS_EmptySet
    <2>2. list \in [1..0 -> T] /\ ToSet(list) = T /\ DOMAIN list = {}
      BY DEF ToSet
    <2> QED BY <2>1, <2>2 DEF Sorts
  <1>8. PICK m \in T : \A p \in T \ {m} : Lex(key[m], key[p])
    <2> DEFINE part == [s \in T |-> key[s]]
    <2>1. part \in [T -> Keys] /\ \A s, p \in T : part[s] = part[p] => s = p
      OBVIOUS
    <2>2. \A s \in T : part[s] = key[s]
      OBVIOUS
    <2> HIDE DEF part
    <2>3. \E m \in T : \A p \in T \ {m} : Lex(part[m], part[p])
      BY <1>2, <1>7, <2>1, LexFirst
    <2> QED BY <2>2, <2>3
  <1> DEFINE U == T \ {m}
  <1>9. U \in SUBSET S /\ Cardinality(U) = n - 1 /\ Cardinality(U) \in Nat
    BY <1>2, <1>5, FS_RemoveElement
  <1>10. Sorts(U, key)
    <2> SUFFICES ASSUME ~Sorts(U, key) PROVE FALSE
      OBVIOUS
    <2>1. n - 1 \in Bad
      BY <1>9
    <2> HIDE DEF Bad, U
    <2> QED BY <1>4, <1>6, <2>1
  <1> HIDE DEF Bad
  <1>11. PICK rest \in [1..(n - 1) -> U] :
            /\ ToSet(rest) = U
            /\ \A i, k \in DOMAIN rest : i < k => Lex(key[rest[i]], key[rest[k]])
    BY <1>9, <1>10 DEF Sorts
  <1> DEFINE list == [i \in 1..n |-> IF i = 1 THEN m ELSE rest[i - 1]]
  <1>12. n - 1 \in Nat /\ DOMAIN rest = 1..(n - 1) /\ 1 \in 1..n
    BY <1>6, <1>9
  <1>13. \A i \in 1..n : i # 1 => i - 1 \in 1..(n - 1) /\ rest[i - 1] \in U
    BY <1>6, <1>12
  <1>14. list \in [1..n -> T]
    <2>1. \A i \in 1..n : (IF i = 1 THEN m ELSE rest[i - 1]) \in T
      <3> SUFFICES ASSUME NEW i \in 1..n, i # 1 PROVE rest[i - 1] \in T
        OBVIOUS
      <3>1. rest[i - 1] \in U
        BY <1>13
      <3> QED BY <3>1
    <2> QED BY <2>1
  <1>15. ToSet(list) = T
    <2>1. ToSet(list) \subseteq T
      BY <1>14 DEF ToSet
    <2>2. ASSUME NEW p \in T PROVE \E i \in 1..n : list[i] = p
      <3>1. CASE p = m
        BY <1>12, <3>1
      <3>2. CASE p # m
        <4>1. PICK i \in 1..(n - 1) : rest[i] = p
          BY <1>11, <1>12, <3>2 DEF ToSet
        <4>2. PICK k \in 1..n : k # 1 /\ k - 1 = i
          <5>1. i + 1 \in 1..n /\ i + 1 # 1 /\ (i + 1) - 1 = i
            BY <1>6, <1>12
          <5> QED BY <5>1
        <4>3. list[k] = rest[k - 1]
          BY <4>2
        <4> QED BY <4>1, <4>2, <4>3
      <3> QED BY <3>1, <3>2
    <2> QED BY <1>14, <2>1, <2>2 DEF ToSet
  <1>16. ASSUME NEW i \in 1..n, NEW k \in 1..n, i < k PROVE Lex(key[list[i]], key[list[k]])
    <2>1. k # 1 /\ k - 1 \in 1..(n - 1) /\ rest[k - 1] \in U /\ list[k] = rest[k - 1]
      BY <1>13, <1>16
    <2>2. CASE i = 1
      BY <1>8, <2>1, <2>2
    <2>3. CASE i # 1
      <3>1. i - 1 \in 1..(n - 1) /\ i - 1 < k - 1 /\ list[i] = rest[i - 1]
        BY <1>13, <1>16, <2>3
      <3> QED BY <1>11, <1>12, <2>1, <3>1
    <2> QED BY <2>2, <2>3
  <1>17. DOMAIN list = 1..n
    OBVIOUS
  <1> HIDE DEF list
  <1>18. Sorts(T, key)
    BY <1>5, <1>14, <1>15, <1>16, <1>17 DEF Sorts
  <1> QED BY <1>5, <1>18

-----------------------------------------------------------------------------
(* Siblings, in the order a range of them is cut.                            *)

NameKey(face) == [k \in Nat \ {0} |-> IF k = 1 THEN NameRank[face.name]
                                      ELSE IF k = 2 THEN face.id ELSE 0]

LEMMA SortsByKey ==
    ASSUME NEW a \in Faces, NEW b \in Faces
    PROVE  /\ NameKey(a) \in Keys
           /\ Lex(NameKey(a), NameKey(b)) <=> SortsBefore(a, b)
           /\ NameKey(a) = NameKey(b) => a.id = b.id
  <1>1. /\ NameRank[a.name] \in Nat /\ NameRank[b.name] \in Nat /\ a.id \in Nat /\ b.id \in Nat
    BY NameRankAssumption, NodeIdsAssumption DEF Faces
  <1>2. \A k \in Nat \ {0} :
          /\ NameKey(a)[k] = IF k = 1 THEN NameRank[a.name] ELSE IF k = 2 THEN a.id ELSE 0
          /\ NameKey(b)[k] = IF k = 1 THEN NameRank[b.name] ELSE IF k = 2 THEN b.id ELSE 0
    BY DEF NameKey
  <1>3. NameKey(a) \in Keys
    BY <1>1 DEF NameKey, Keys
  <1>4. ASSUME NEW k \in Nat \ {0}, NameKey(a)[k] < NameKey(b)[k],
               \A i \in 1..(k - 1) : NameKey(a)[i] = NameKey(b)[i]
        PROVE  SortsBefore(a, b)
    <2>1. k = 1 \/ k = 2
      BY <1>2, <1>4
    <2>2. k = 2 => NameKey(a)[1] = NameKey(b)[1]
      BY <1>4
    <2> QED BY <1>1, <1>2, <1>4, <2>1, <2>2 DEF SortsBefore
  <1>5. ASSUME SortsBefore(a, b) PROVE Lex(NameKey(a), NameKey(b))
    <2>1. CASE NameRank[a.name] < NameRank[b.name]
      <3>1. 1 \in Nat \ {0} /\ NameKey(a)[1] < NameKey(b)[1] /\ \A i \in 1..(1 - 1) : FALSE
        BY <1>2, <2>1
      <3> QED BY <3>1 DEF Lex
    <2>2. CASE NameRank[a.name] = NameRank[b.name] /\ a.id < b.id
      <3>1. 2 \in Nat \ {0} /\ NameKey(a)[2] < NameKey(b)[2] /\ NameKey(a)[1] = NameKey(b)[1]
        BY <1>2, <2>2
      <3>2. \A i \in 1..(2 - 1) : i = 1
        OBVIOUS
      <3>3. \A i \in 1..(2 - 1) : NameKey(a)[i] = NameKey(b)[i]
        BY <3>1, <3>2
      <3> QED BY <3>1, <3>3 DEF Lex
    <2> QED BY <1>5, <2>1, <2>2 DEF SortsBefore
  <1>6. NameKey(a) = NameKey(b) => a.id = b.id
    <2>1. 2 \in Nat \ {0}
      OBVIOUS
    <2> QED BY <1>2, <2>1
  <1> QED BY <1>3, <1>4, <1>5, <1>6 DEF Lex

LEMMA SiblingsSorted ==
    ASSUME NEW t, Grafted(t), NEW home, NEW among \in SUBSET Entries(t, home)
    PROVE  /\ Sorting(t, among) \in [1..Cardinality(among) -> among]
           /\ ToSet(Sorting(t, among)) = among
  <1> DEFINE key == [s \in among |-> NameKey(t.faces[s])]
  <1>1. \A s \in among : s \in DOMAIN t.faces /\ Owner(s) = home /\ t.faces[s] \in Faces
                         /\ s = Append(home, t.faces[s].id)
    BY PlacedFace DEF Entries
  <1>2. IsFiniteSet(among)
    BY <1>1, FS_Subset DEF Grafted
  <1>3. \A s \in among : key[s] = NameKey(t.faces[s])
    OBVIOUS
  <1>4. key \in [among -> Keys]
    BY <1>1, SortsByKey
  <1> HIDE DEF key
  <1>5. ASSUME NEW s \in among, NEW p \in among, key[s] = key[p] PROVE s = p
    <2>1. t.faces[s].id = t.faces[p].id
      BY <1>1, <1>3, <1>5, SortsByKey
    <2> QED BY <1>1, <2>1
  <1>6. Sorts(among, key)
    BY <1>2, <1>4, <1>5, LexSorted
  <1>7. PICK list \in [1..Cardinality(among) -> among] :
            /\ ToSet(list) = among
            /\ \A i, k \in DOMAIN list : i < k => Lex(key[list[i]], key[list[k]])
    BY <1>6 DEF Sorts
  <1>8. \A i, k \in DOMAIN list : i < k => SortsBefore(t.faces[list[i]], t.faces[list[k]])
    <2>1. \A i \in DOMAIN list : list[i] \in among
      OBVIOUS
    <2> QED BY <1>1, <1>3, <1>7, <2>1, SortsByKey
  <1> QED BY <1>7, <1>8 DEF Sorting

-----------------------------------------------------------------------------
(* A slot whose identity no other slot of the tree has is found by it.       *)

Alone(t, s) == \A p \in DOMAIN t.faces : Last(p) = Last(s) => p = s

LEMMA AloneFound ==
    ASSUME NEW t, Grafted(t), NEW s \in DOMAIN t.faces, Alone(t, s)
    PROVE  /\ HasFace(t, Last(s)) /\ FaceSlot(t, Last(s)) = s /\ t.faces[s].id = Last(s)
           /\ FaceById(t, Last(s)) = t.faces[s] /\ PathFor(t, Last(s)) = SlotPath(t, s)
  <1>1. t.faces[s].id = Last(s)
    BY PlacedFace
  <1>2. HasFace(t, Last(s))
    BY <1>1 DEF HasFace, FacesOf
  <1>3. FaceSlot(t, Last(s)) \in DOMAIN t.faces /\ t.faces[FaceSlot(t, Last(s))].id = Last(s)
    BY <1>2, FaceFirst
  <1>4. FaceSlot(t, Last(s)) = s
    BY <1>3, PlacedFace DEF Alone
  <1> QED BY <1>1, <1>2, <1>4 DEF FaceById, PathFor

(* A selector that resolves names the slots it matches.                      *)
LEMMA ResolvedMatch ==
    ASSUME NEW t, Grafted(t), NEW selector, Resolves(t, selector)
    PROVE  \E q \in DOMAIN t.faces : /\ Matches(t, selector) = {q}
                                     /\ Resolved(t, selector) = Last(q)
                                     /\ HasFace(t, Last(q))
  <1>1. Matches(t, selector) \subseteq DOMAIN t.faces
    BY DEF Matches
  <1>2. IsFiniteSet(Matches(t, selector))
    BY <1>1, FS_Subset DEF Grafted
  <1>3. PICK q : Matches(t, selector) = {q}
    BY <1>2, FS_Singleton DEF Resolves
  <1>4. q \in DOMAIN t.faces /\ Resolved(t, selector) = t.faces[q].id
    BY <1>1, <1>3 DEF Resolved
  <1>5. t.faces[q].id = Last(q)
    BY <1>4, PlacedFace
  <1>6. HasFace(t, Last(q))
    BY <1>4, <1>5 DEF HasFace, FacesOf
  <1> QED BY <1>3, <1>4, <1>5, <1>6

LEMMA AddressedSlot ==
    ASSUME NEW t, Grafted(t), NEW s \in DOMAIN t.faces, Alone(t, s),
           NEW target \in Targets, Resolves(t, target)
    PROVE  Resolved(t, target) = Last(s)
             <=> target \in {<<"path", SlotPath(t, s)>>, <<"id", Last(s)>>}
  <1>1. PICK q \in DOMAIN t.faces : Matches(t, target) = {q} /\ Resolved(t, target) = Last(q)
    BY ResolvedMatch
  <1>2. /\ FaceSlot(t, Last(s)) = s /\ t.faces[s].id = Last(s)
        /\ PathFor(t, Last(s)) = SlotPath(t, s)
    BY AloneFound
  <1>3. Last(q) = Last(s) <=> q = s
    BY <1>1 DEF Alone
  <1>4. q = s <=> s \in Matches(t, target)
    BY <1>1
  <1>5. CASE target \in {"path"} \X Paths
    <2>1. target[1] = "path" /\ target = <<"path", target[2]>>
      BY <1>5
    <2>2. s \in Matches(t, target) <=> SlotPath(t, s) = target[2]
      BY <1>2, <2>1 DEF Matches
    <2> QED BY <1>1, <1>3, <1>4, <2>1, <2>2
  <1>6. CASE target \in {"id"} \X NodeIds
    <2>1. target[1] = "id" /\ target[1] # "path" /\ target = <<"id", target[2]>>
      BY <1>6
    <2>2. s \in Matches(t, target) <=> Last(s) = target[2]
      BY <1>2, <2>1 DEF Matches
    <2> QED BY <1>1, <1>3, <1>4, <2>1, <2>2
  <1> QED BY <1>5, <1>6 DEF Targets

(* A range that resolves covers siblings of its end points.                  *)
LEMMA RangeSlots ==
    ASSUME NEW t, Grafted(t), NEW start, NEW end, HasFace(t, start), HasFace(t, end),
           RangeResolves(t, start, end)
    PROVE  LET f == FaceSlot(t, start)  g == FaceSlot(t, end)
           IN  /\ f \in DOMAIN t.faces /\ g \in DOMAIN t.faces
               /\ f = Append(Owner(f), start) /\ g = Append(Owner(f), end)
               /\ Owner(g) = Owner(f)
               /\ ToSet(Span(t, start, end))
                    = {Last(s) : s \in {p \in Entries(t, Owner(f)) :
                          /\ ~SortsBefore(t.faces[p], t.faces[f])
                          /\ ~SortsBefore(t.faces[g], t.faces[p])}}
  <1> DEFINE f == FaceSlot(t, start)  g == FaceSlot(t, end)
             within == {p \in Entries(t, Owner(f)) : /\ ~SortsBefore(t.faces[p], t.faces[f])
                                                     /\ ~SortsBefore(t.faces[g], t.faces[p])}
  <1>1. /\ HasRegistry(t, FaceById(t, start).parent) /\ HasRegistry(t, FaceById(t, end).parent)
        /\ TargetSlot(t, start) \in DOMAIN t.faces /\ TargetSlot(t, end) \in DOMAIN t.faces
        /\ FaceById(t, start).parent = FaceById(t, end).parent
    BY DEF RangeResolves
  <1>2. /\ TargetSlot(t, start) = f /\ Owner(f) = RegistrySlot(t, FaceById(t, start).parent)
        /\ TargetSlot(t, end) = g /\ Owner(g) = RegistrySlot(t, FaceById(t, end).parent)
    BY <1>1, TargetIsFace
  <1>3. /\ f \in DOMAIN t.faces /\ g \in DOMAIN t.faces /\ Owner(g) = Owner(f)
        /\ f = Append(Owner(f), start) /\ g = Append(Owner(f), end)
    BY <1>1, <1>2 DEF TargetSlot
  <1>4. Between(t, start, end) = within
    BY <1>2 DEF Between, FaceById
  <1>5. /\ Sorting(t, within) \in [1..Cardinality(within) -> within]
        /\ ToSet(Sorting(t, within)) = within
    BY SiblingsSorted
  <1>6. \A p \in within : t.faces[p].id = Last(p)
    BY PlacedFace DEF Entries
  <1>7. ToSet(Span(t, start, end)) = {Last(s) : s \in within}
    <2> DEFINE list == Sorting(t, within)
    <2>1. Span(t, start, end) = [i \in DOMAIN list |-> t.faces[list[i]].id]
      BY <1>4 DEF Span
    <2>2. \A i \in DOMAIN list : list[i] \in within
      BY <1>5
    <2>3. \A p \in within : \E i \in DOMAIN list : list[i] = p
      BY <1>5 DEF ToSet
    <2> HIDE DEF list, within
    <2> QED BY <1>6, <2>1, <2>2, <2>3 DEF ToSet
  <1> HIDE DEF f, g
  <1>8. ToSet(Span(t, start, end)) = {Last(s) : s \in {p \in Entries(t, Owner(f)) :
                          /\ ~SortsBefore(t.faces[p], t.faces[f])
                          /\ ~SortsBefore(t.faces[g], t.faces[p])}}
    BY <1>7
  <1> QED BY <1>3, <1>8 DEF f, g

-----------------------------------------------------------------------------
(* Trees in which a set of slots is alike: the slots are there, with their   *)
(* names and paths and all of their siblings, and are found by identity.     *)

Alike(t, u, W) ==
    \A s \in W : /\ s \in DOMAIN t.faces /\ s \in DOMAIN u.faces
                 /\ Alone(t, s) /\ Alone(u, s)
                 /\ t.faces[s].name = u.faces[s].name /\ SlotPath(t, s) = SlotPath(u, s)
                 /\ \A p \in DOMAIN t.faces \cup DOMAIN u.faces : Owner(p) = Owner(s) => p \in W

LEMMA AlikeAddressed ==
    ASSUME NEW t, Grafted(t), NEW u, Grafted(u), NEW W, Alike(t, u, W), NEW s \in W,
           NEW target \in Targets, Resolves(t, target), Resolves(u, target)
    PROVE  Resolved(t, target) = Last(s) <=> Resolved(u, target) = Last(s)
  <1>1. /\ s \in DOMAIN t.faces /\ s \in DOMAIN u.faces /\ Alone(t, s) /\ Alone(u, s)
        /\ SlotPath(t, s) = SlotPath(u, s)
    BY DEF Alike
  <1> QED BY <1>1, AddressedSlot

(* A cut that resolves in both trees covers the same of these slots.         *)
LEMMA AlikeCovered ==
    ASSUME NEW t, Grafted(t), NEW u, Grafted(u), NEW W, Alike(t, u, W), NEW s \in W,
           NEW cut \in Cuts, TargetsResolve(t, cut), TargetsResolve(u, cut),
           Last(s) \in DeclaredSlots(t, cut)
    PROVE  Last(s) \in DeclaredSlots(u, cut)
  <1>1. cut.cut \in Targets /\ (cut.end # NoEnd => cut.end \in Targets)
    BY DEF Cuts
  <1>2. CASE cut.end = NoEnd
    <2>1. /\ DeclaredSlots(t, cut) = {Resolved(t, cut.cut)}
          /\ DeclaredSlots(u, cut) = {Resolved(u, cut.cut)}
      BY <1>2 DEF DeclaredSlots, CutTargets, ToSet
    <2>2. Resolves(t, cut.cut) /\ Resolves(u, cut.cut)
      BY DEF TargetsResolve
    <2> QED BY <1>1, <2>1, <2>2, AlikeAddressed
  <1>3. CASE cut.end # NoEnd
    <2> DEFINE a == Resolved(t, cut.cut)  b == Resolved(t, cut.end)
               c == Resolved(u, cut.cut)  d == Resolved(u, cut.end)
               f == FaceSlot(t, a)  g == FaceSlot(t, b)
               p == FaceSlot(u, c)  q == FaceSlot(u, d)
    <2>1. /\ Resolves(t, cut.cut) /\ Resolves(t, cut.end) /\ RangeResolves(t, a, b)
          /\ Resolves(u, cut.cut) /\ Resolves(u, cut.end) /\ RangeResolves(u, c, d)
      BY <1>3 DEF TargetsResolve
    <2>2. HasFace(t, a) /\ HasFace(t, b) /\ HasFace(u, c) /\ HasFace(u, d)
      BY <2>1, ResolvedMatch
    <2>3. DeclaredSlots(t, cut) = ToSet(Span(t, a, b)) /\ DeclaredSlots(u, cut) = ToSet(Span(u, c, d))
      BY <1>3 DEF DeclaredSlots, CutTargets
    <2>4. /\ f \in DOMAIN t.faces /\ g \in DOMAIN t.faces /\ Owner(g) = Owner(f)
          /\ f = Append(Owner(f), a) /\ g = Append(Owner(f), b)
          /\ ToSet(Span(t, a, b)) = {Last(r) : r \in {r \in Entries(t, Owner(f)) :
                          /\ ~SortsBefore(t.faces[r], t.faces[f])
                          /\ ~SortsBefore(t.faces[g], t.faces[r])}}
      BY <2>1, <2>2, RangeSlots
    <2>5. /\ p \in DOMAIN u.faces /\ q \in DOMAIN u.faces /\ Owner(q) = Owner(p)
          /\ p = Append(Owner(p), c) /\ q = Append(Owner(p), d)
          /\ ToSet(Span(u, c, d)) = {Last(r) : r \in {r \in Entries(u, Owner(p)) :
                          /\ ~SortsBefore(u.faces[r], u.faces[p])
                          /\ ~SortsBefore(u.faces[q], u.faces[r])}}
      BY <2>1, <2>2, RangeSlots
    <2> HIDE DEF a, b, c, d, f, g, p, q
    <2>6. /\ s \in DOMAIN t.faces /\ Owner(s) = Owner(f)
          /\ ~SortsBefore(t.faces[s], t.faces[f]) /\ ~SortsBefore(t.faces[g], t.faces[s])
      <3>1. PICK r \in Entries(t, Owner(f)) :
                /\ ~SortsBefore(t.faces[r], t.faces[f]) /\ ~SortsBefore(t.faces[g], t.faces[r])
                /\ Last(r) = Last(s)
        BY <2>3, <2>4
      <3>2. r \in DOMAIN t.faces /\ Owner(r) = Owner(f)
        BY DEF Entries
      <3>3. r = s
        BY <3>1, <3>2 DEF Alike, Alone
      <3> QED BY <3>1, <3>2, <3>3
    <2>7. f \in W /\ g \in W
      BY <2>4, <2>6 DEF Alike
    <2>8. Last(f) = a /\ Last(g) = b /\ Last(p) = c /\ Last(q) = d
      <3>1. t.faces[f].id = Last(f) /\ t.faces[g].id = Last(g) /\ u.faces[p].id = Last(p) /\ u.faces[q].id = Last(q)
        BY <2>4, <2>5, PlacedFace
      <3>2. t.faces[f].id = a /\ t.faces[g].id = b /\ u.faces[p].id = c /\ u.faces[q].id = d
        BY <2>2, FaceFirst DEF f, g, p, q
      <3> QED BY <3>1, <3>2
    <2>9. Last(f) = c /\ Last(g) = d
      <3>1. (a = Last(f) <=> c = Last(f)) /\ (b = Last(g) <=> d = Last(g))
        BY <1>1, <1>3, <2>1, <2>7, AlikeAddressed DEF a, b, c, d
      <3> QED BY <2>8, <3>1
    <2>10. p = f /\ q = g
      BY <2>5, <2>7, <2>8, <2>9 DEF Alike, Alone
    <2>11. ASSUME NEW r \in W PROVE t.faces[r].name = u.faces[r].name /\ t.faces[r].id = u.faces[r].id
      <3>1. r \in DOMAIN t.faces /\ r \in DOMAIN u.faces /\ t.faces[r].name = u.faces[r].name
        BY DEF Alike
      <3> QED BY <3>1, PlacedFace
    <2>12. /\ ~SortsBefore(u.faces[s], u.faces[f]) /\ ~SortsBefore(u.faces[g], u.faces[s])
      BY <2>6, <2>7, <2>11 DEF SortsBefore
    <2>13. s \in Entries(u, Owner(p))
      BY <2>6, <2>10 DEF Entries, Alike
    <2> QED BY <2>3, <2>5, <2>10, <2>12, <2>13
  <1> QED BY <1>2, <1>3

-----------------------------------------------------------------------------
(* What one slot changes of the staged tree.                                 *)

(* Below a slot that owns no entries there is nothing.                       *)
LEMMA NoneBelow ==
    ASSUME NEW t, Grafted(t), NEW s \in Slots, s \in DOMAIN t.regs => Entries(t, s) = {}
    PROVE  \A p \in DOMAIN t.faces : ~IsStrictPrefix(s, p)
  <1> DEFINE Bad == {n \in Nat : \E p \in DOMAIN t.faces : IsStrictPrefix(s, p) /\ Len(p) = n}
  <1>1. SUFFICES ASSUME NEW x \in DOMAIN t.faces, IsStrictPrefix(s, x) PROVE FALSE
    OBVIOUS
  <1>2. Bad # {} /\ Bad \in SUBSET Nat
    <2>1. Len(x) \in Nat
      BY PlacedFace DEF Slots
    <2> QED BY <1>1, <2>1
  <1>3. PICK n \in Bad : \A m \in Bad : n <= m
    <2> HIDE DEF Bad
    <2> QED BY <1>2, LeastNat
  <1>4. PICK p \in DOMAIN t.faces : IsStrictPrefix(s, p) /\ Len(p) = n
    OBVIOUS
  <1>5. IsPrefix(s, p) /\ p # s /\ p \in Slots /\ p # <<>> /\ Owner(p) \in DOMAIN t.regs
    BY <1>4, PlacedFace DEF IsStrictPrefix
  <1>6. IsPrefix(s, Owner(p)) /\ Owner(p) \in Slots /\ Len(Owner(p)) = Len(p) - 1 /\ Len(p) \in Nat \ {0}
    BY <1>5, MovedOwner, SlotParts
  <1>7. Owner(p) # s
    BY <1>4, <1>5 DEF Entries
  <1>8. Owner(p) # <<>>
    <2>1. s # <<>>
      <3>1. s = <<>> => s \in DOMAIN t.regs
        BY DEF Grafted, IsTree
      <3>2. ASSUME s = <<>> PROVE FALSE
        <4>1. Owner(p) = <<>> \/ Owner(p) # <<>>
          OBVIOUS
        <4> DEFINE Deep == {m \in Nat : \E q \in DOMAIN t.faces : Len(q) = m}
        <4>2. PICK m \in Deep : \A k \in Deep : m <= k
          <5>1. Len(p) \in Deep /\ Deep \in SUBSET Nat
            BY <1>6
          <5> HIDE DEF Deep
          <5> QED BY <5>1, LeastNat
        <4>3. PICK q \in DOMAIN t.faces : Len(q) = m
          OBVIOUS
        <4>4. q \in Slots /\ q # <<>> /\ Owner(q) \in DOMAIN t.regs
          BY PlacedFace
        <4>5. Owner(q) # <<>>
          BY <3>1, <3>2 DEF Entries
        <4>6. Owner(q) \in DOMAIN t.faces
          BY <4>4, <4>5, PlacedRegistry
        <4>7. Len(Owner(q)) = Len(q) - 1 /\ Len(q) \in Nat \ {0}
          BY <4>4, SlotParts
        <4>8. m - 1 \in Deep
          BY <4>3, <4>6, <4>7
        <4> HIDE DEF Deep
        <4> QED BY <4>2, <4>3, <4>7, <4>8
      <3> QED BY <3>2
    <2> QED BY <1>6, <2>1, RootNotBelow
  <1>9. Owner(p) \in DOMAIN t.faces
    BY <1>5, <1>8, PlacedRegistry
  <1>10. n - 1 \in Bad
    BY <1>4, <1>6, <1>7, <1>9 DEF IsStrictPrefix
  <1> HIDE DEF Bad
  <1> QED BY <1>3, <1>4, <1>6, <1>10

(* A cut changes its slot and, with "full", what is below it.                *)
Cutting(t, u, f, face, full, x) ==
    /\ f \in DOMAIN t.faces /\ f \in DOMAIN u.faces /\ u.faces[f] = face
    /\ \A p \in DOMAIN u.faces :
          \/ p = f
          \/ p \in DOMAIN t.faces /\ u.faces[p] = t.faces[p]
          \/ /\ full /\ IsStrictPrefix(f, p)
             /\ \E q \in DOMAIN x.faces : u.faces[p].id = x.faces[q].id
    /\ \A p \in DOMAIN t.faces : p # f /\ (full => ~IsStrictPrefix(f, p)) =>
          p \in DOMAIN u.faces /\ u.faces[p] = t.faces[p]
    /\ \A p \in DOMAIN t.regs : p # f /\ (full => ~IsStrictPrefix(f, p)) =>
          p \in DOMAIN u.regs /\ u.regs[p] = t.regs[p]
    /\ ~full /\ f \in DOMAIN u.regs => u.regs[f].path = t.regs[f].path

LEMMA CutSubtree ==
    ASSUME NEW t, Grafted(t), NEW s, NEW face, Fits(t, s, face),
           NEW x, Grafted(x), NEW from \in DOMAIN x.faces
    PROVE  Cutting(t, GraftSubtree(t, s, face, x, from), s, face, TRUE, x)
  <1> DEFINE F == MovedAll(s, from, DOMAIN x.faces)
             R == MovedAll(s, from, DOMAIN x.regs)
             source(p) == Moved(from, s, p)
             u == GraftSubtree(t, s, face, x, from)
             v == Without(t, s)
  <1>1. /\ s \in Slots /\ s # <<>> /\ s \in DOMAIN t.faces
        /\ from \in Slots /\ from # <<>> /\ IsPrefix(s, s) /\ IsPrefix(from, from)
    <2>1. s \in Slots /\ from \in Slots
      BY PlacedFace DEF Fits
    <2>2. IsPrefix(s, s) /\ IsPrefix(from, from)
      BY <2>1, PrefixPointwise DEF Slots
    <2> QED BY <2>1, <2>2, PlacedFace DEF Fits
  <1>2. /\ DOMAIN v.faces = {p \in DOMAIN t.faces : ~IsPrefix(s, p)}
        /\ DOMAIN v.regs = {p \in DOMAIN t.regs : ~IsPrefix(s, p)}
    BY <1>1, WithoutParts
  <1>3. /\ DOMAIN u.faces = DOMAIN v.faces \cup F
        /\ DOMAIN u.regs = DOMAIN v.regs \cup R
        /\ \A p \in DOMAIN u.faces :
              u.faces[p] = IF p = s THEN face
                           ELSE IF p \in F
                                THEN RebaseParent(x.faces[source(p)], x.faces[from].id, face.id)
                                ELSE t.faces[p]
        /\ \A p \in DOMAIN u.regs : p \notin R => u.regs[p] = t.regs[p]
    <2>1. /\ DOMAIN u.faces = DOMAIN v.faces \cup F
          /\ DOMAIN u.regs = DOMAIN v.regs \cup R
          /\ \A p \in DOMAIN u.faces :
                u.faces[p] = IF p = s THEN face
                             ELSE IF p \in F
                                THEN RebaseParent(x.faces[source(p)], x.faces[from].id, face.id)
                                ELSE t.faces[p]
      BY SubtreeParts
    <2>2. \A p \in DOMAIN u.regs :
             u.regs[p] = IF p \notin R THEN t.regs[p]
                         ELSE IF p = s THEN Header(face, Append(t.regs[Owner(s)].path, face.name))
                              ELSE [x.regs[source(p)] EXCEPT
                                      !.path = Rebase(x.regs[source(p)].path, x.regs[from].path,
                                                      Append(t.regs[Owner(s)].path, face.name))]
      BY SubtreeParts
    <2> HIDE DEF F, R, v, u, source
    <2> QED BY <2>1, <2>2
  <1>4. DOMAIN x.faces \in SUBSET Slots /\ DOMAIN x.regs \in SUBSET Slots /\ s \in F
    <2>1. DOMAIN x.faces \in SUBSET Slots /\ DOMAIN x.regs \in SUBSET Slots
      BY DEF Grafted, IsTree
    <2>2. Moved(s, from, from) = s
      BY <1>1, MovedSlot
    <2>3. from \in Below(from, DOMAIN x.faces)
      BY <1>1 DEF Below
    <2> QED BY <2>1, <2>2, <2>3 DEF MovedAll
  <1>5. \A p \in F : p \in Slots /\ IsPrefix(s, p) /\ source(p) \in DOMAIN x.faces
    BY <1>1, <1>4, MovedSource
  <1>6. \A p \in R : IsPrefix(s, p)
    BY <1>1, <1>4, MovedSource
  <1> HIDE DEF F, R, source, u, v
  <1>7. ASSUME NEW p \in DOMAIN u.faces, p # s
        PROVE  \/ p \in DOMAIN t.faces /\ u.faces[p] = t.faces[p]
               \/ IsStrictPrefix(s, p) /\ \E q \in DOMAIN x.faces : u.faces[p].id = x.faces[q].id
    <2>1. CASE p \notin F
      BY <1>2, <1>3, <1>7, <2>1
    <2>2. CASE p \in F
      <3> DEFINE q == source(p)  g == x.faces[q]
      <3>1. q \in DOMAIN x.faces /\ IsStrictPrefix(s, p)
        BY <1>5, <1>7, <2>2 DEF IsStrictPrefix
      <3>2. u.faces[p] = RebaseParent(g, x.faces[from].id, face.id)
        BY <1>3, <1>7, <2>2
      <3>3. g \in Faces
        BY <3>1, PlacedFace
      <3> HIDE DEF q, g
      <3>4. u.faces[p].id = g.id
        BY <3>2, <3>3 DEF RebaseParent, Faces
      <3> QED BY <3>1, <3>4 DEF g
    <2> QED BY <2>1, <2>2
  <1>8. ASSUME NEW p \in DOMAIN t.faces, p # s, ~IsStrictPrefix(s, p)
        PROVE  p \in DOMAIN u.faces /\ u.faces[p] = t.faces[p]
    <2>1. ~IsPrefix(s, p) /\ p \notin F
      BY <1>5, <1>8 DEF IsStrictPrefix
    <2> QED BY <1>2, <1>3, <1>8, <2>1
  <1>9. ASSUME NEW p \in DOMAIN t.regs, p # s, ~IsStrictPrefix(s, p)
        PROVE  p \in DOMAIN u.regs /\ u.regs[p] = t.regs[p]
    <2>1. ~IsPrefix(s, p) /\ p \notin R
      BY <1>6, <1>9 DEF IsStrictPrefix
    <2> QED BY <1>2, <1>3, <1>9, <2>1
  <1>10. s \in DOMAIN u.faces /\ u.faces[s] = face
    BY <1>3, <1>4
  <1>11. Cutting(t, u, s, face, TRUE, x)
    BY <1>1, <1>7, <1>8, <1>9, <1>10 DEF Cutting
  <1> QED BY <1>11 DEF u

LEMMA CutFace ==
    ASSUME NEW t, Grafted(t), NEW s, NEW face, Fits(t, s, face), ChildrenStay(t, s, face), NEW x
    PROVE  Cutting(t, GraftFace(t, s, face), s, face, FALSE, x)
  <1> DEFINE kept == IF face.needs THEN t ELSE Without(t, s)
             u == GraftFace(t, s, face)
  <1>1. s \in Slots /\ s # <<>> /\ s \in DOMAIN t.faces /\ IsPrefix(s, s)
    <2>1. s \in Slots /\ s # <<>> /\ s \in DOMAIN t.faces
      BY PlacedFace DEF Fits
    <2>2. IsPrefix(s, s)
      BY <2>1, PrefixPointwise DEF Slots
    <2> QED BY <2>1, <2>2
  <1>2. /\ \A p \in DOMAIN kept.faces : p \in DOMAIN t.faces /\ kept.faces[p] = t.faces[p]
        /\ \A p \in DOMAIN kept.regs : p \in DOMAIN t.regs /\ kept.regs[p] = t.regs[p]
        /\ \A p \in DOMAIN t.faces \ {s} : p \in DOMAIN kept.faces
        /\ \A p \in DOMAIN t.regs \ {s} : p \in DOMAIN kept.regs
    <2>1. CASE face.needs
      BY <2>1
    <2>2. CASE ~face.needs
      <3>1. \A p \in DOMAIN t.faces : ~IsStrictPrefix(s, p)
        BY <1>1, <2>2, NoneBelow DEF ChildrenStay
      <3>2. \A p \in DOMAIN t.faces \ {s} : ~IsPrefix(s, p)
        BY <3>1 DEF IsStrictPrefix
      <3>3. \A p \in DOMAIN t.regs \ {s} : ~IsPrefix(s, p)
        <4>1. \A p \in DOMAIN t.regs \ {s} : p # <<>> => p \in DOMAIN t.faces \ {s}
          BY PlacedRegistry
        <4>2. ~IsPrefix(s, <<>>)
          BY <1>1, RootNotBelow
        <4> QED BY <3>2, <4>1, <4>2
      <3>4. kept = Without(t, s)
        BY <2>2
      <3> HIDE DEF kept
      <3> QED BY <1>1, <3>2, <3>3, <3>4, WithoutParts
    <2> QED BY <2>1, <2>2
  <1>3. /\ DOMAIN u.faces = DOMAIN kept.faces \cup {s}
        /\ DOMAIN u.regs = DOMAIN kept.regs
        /\ \A p \in DOMAIN u.faces : u.faces[p] = IF p = s THEN face ELSE kept.faces[p]
        /\ \A p \in DOMAIN u.regs :
              u.regs[p] = IF p = s THEN Header(face, kept.regs[p].path) ELSE kept.regs[p]
    BY <1>1, <1>2 DEF GraftFace, Without, Grafted, IsTree
  <1> HIDE DEF kept, u
  <1>4. s \in DOMAIN u.regs => u.regs[s].path = t.regs[s].path
    <2>1. \A path : Header(face, path).path = path
      BY DEF Header
    <2> QED BY <1>2, <1>3, <2>1
  <1>5. Cutting(t, u, s, face, FALSE, x)
    BY <1>1, <1>2, <1>3, <1>4 DEF Cutting
  <1> QED BY <1>5 DEF u

LEMMA CutChanges ==
    ASSUME NEW t, Grafted(t), NEW x, Grafted(x), OneSlotEach(x), NEW from \in DOMAIN x.faces,
           NEW target, NEW full \in BOOLEAN, CanGraft(t, target, x.faces[from], full)
    PROVE  LET f == FaceSlot(t, target)
           IN  /\ f \in DOMAIN t.faces /\ Last(f) = target
               /\ Cutting(t, ApplyOverlayFace(t, target, x.faces[from], full, x), f,
                          Candidate(x.faces[from], t.faces[f]), full, x)
  <1> DEFINE replacement == x.faces[from]
             face == Candidate(replacement, FaceById(t, target))
             s == TargetSlot(t, target)
             f == FaceSlot(t, target)
  <1>1. replacement \in Faces
    BY PlacedFace
  <1>2. Fits(t, s, face)
    BY <1>1, CandidateFits
  <1>3. FaceSlot(x, replacement.id) = from
    <2>1. HasFace(x, replacement.id)
      BY DEF HasFace, FacesOf
    <2>2. /\ FaceSlot(x, replacement.id) \in DOMAIN x.faces
          /\ x.faces[FaceSlot(x, replacement.id)].id = replacement.id
      BY <2>1, FaceFirst
    <2> QED BY <2>2 DEF OneSlotEach
  <1>4. full \/ ChildrenStay(t, s, face)
    BY DEF CanGraft
  <1>5. ApplyOverlayFace(t, target, replacement, full, x)
          = IF full THEN GraftSubtree(t, s, face, x, from) ELSE GraftFace(t, s, face)
    BY <1>3 DEF ApplyOverlayFace
  <1>6. f \in DOMAIN t.faces /\ t.faces[f].id = target /\ Last(f) = target
    <2>1. HasFace(t, target)
      BY DEF CanGraft
    <2> QED BY <2>1, FaceFirst, PlacedFace
  <1>7. s = f /\ face = Candidate(replacement, t.faces[f])
    <2>1. HasRegistry(t, FaceById(t, target).parent) /\ TargetSlot(t, target) \in DOMAIN t.faces
          /\ HasFace(t, target)
      <3>1. t.faces[f] \in Faces
        BY <1>6, PlacedFace
      <3> HIDE DEF f, replacement
      <3>2. Candidate(replacement, t.faces[f]).parent = t.faces[f].parent
        BY <1>1, <3>1 DEF Candidate, Faces
      <3> QED BY <3>2 DEF CanGraft, FaceById, f, replacement
    <2> QED BY <2>1, TargetIsFace DEF FaceById
  <1> HIDE DEF replacement, face, s, f
  <1>8. CASE full
    <2>1. Cutting(t, GraftSubtree(t, s, face, x, from), s, face, TRUE, x)
      BY <1>2, CutSubtree
    <2>2. Cutting(t, ApplyOverlayFace(t, target, replacement, full, x), f, face, full, x)
      BY <1>5, <1>7, <1>8, <2>1
    <2> QED BY <1>6, <1>7, <2>2 DEF replacement, f
  <1>9. CASE ~full
    <2>1. Cutting(t, GraftFace(t, s, face), s, face, FALSE, x)
      BY <1>2, <1>4, <1>9, CutFace
    <2>2. Cutting(t, ApplyOverlayFace(t, target, replacement, full, x), f, face, full, x)
      BY <1>5, <1>7, <1>9, <2>1
    <2> QED BY <1>6, <1>7, <2>2 DEF replacement, f
  <1> QED BY <1>8, <1>9

-----------------------------------------------------------------------------
(* What stands of the base tree b while it is cut into e: all but what is    *)
(* below the slots "full" that may be handed over with their subtree.        *)

FreeSlots(b, full) == {s \in DOMAIN b.faces : ~ \E q \in full : IsStrictPrefix(q, s)}

Standing(b, e, x, full) ==
    /\ e.regs[<<>>].id = b.regs[<<>>].id
    /\ \A p \in DOMAIN e.faces \ DOMAIN b.faces : \E q \in full : IsStrictPrefix(q, p)
    /\ \A p \in DOMAIN e.faces :
          p \in DOMAIN b.faces \/ \E q \in DOMAIN x.faces : e.faces[p].id = x.faces[q].id
    /\ \A s \in FreeSlots(b, full) :
          /\ s \in DOMAIN e.faces /\ e.faces[s].name = b.faces[s].name
          /\ e.regs[Owner(s)].path = b.regs[Owner(s)].path

Untouched(b, e, full, cut) ==
    \A s \in FreeSlots(b, full) \ cut :
        /\ e.faces[s] = b.faces[s]
        /\ s \in DOMAIN b.regs => s \in DOMAIN e.regs /\ e.regs[s] = b.regs[s]

\* No face of the external tree has an identity of the base tree.
Apart(b, x) ==
    \A q \in DOMAIN x.faces :
        /\ x.faces[q].id # b.regs[<<>>].id
        /\ \A s \in DOMAIN b.faces : x.faces[q].id # b.faces[s].id

LEMMA StrictBelow ==
    ASSUME NEW q \in Slots, NEW f \in Slots, NEW p \in Slots, IsPrefix(q, f), IsStrictPrefix(f, p)
    PROVE  IsStrictPrefix(q, p)
  <1>1. /\ Len(q) \in Nat /\ Len(f) \in Nat /\ Len(p) \in Nat
        /\ Len(q) <= Len(f) /\ \A i \in 1..Len(q) : q[i] = f[i]
        /\ Len(f) <= Len(p) /\ \A i \in 1..Len(f) : f[i] = p[i]
    <2>1. IsPrefix(f, p)
      BY DEF IsStrictPrefix
    <2> QED BY <2>1, PrefixPointwise, SlotNumbers DEF Slots
  <1>2. Len(q) <= Len(p) /\ \A i \in 1..Len(q) : q[i] = p[i]
    BY <1>1
  <1>3. IsPrefix(q, p)
    BY <1>2, PrefixPointwise DEF Slots
  <1>4. q # p
    <2> SUFFICES ASSUME q = p PROVE FALSE
      OBVIOUS
    <2>1. Len(f) = Len(p)
      BY <1>1
    <2>2. f = p
      BY <1>1, <2>1, SlotEqual
    <2> QED BY <2>2 DEF IsStrictPrefix
  <1> QED BY <1>3, <1>4 DEF IsStrictPrefix

LEMMA OwnerBelow ==
    ASSUME NEW q \in Slots, NEW s \in Slots, s # <<>>
    PROVE  /\ IsPrefix(q, Owner(s)) <=> IsStrictPrefix(q, s)
           /\ Owner(s) \in Slots
  <1>1. Owner(s) \in Slots
    BY SlotParts
  <1>2. ASSUME IsStrictPrefix(q, s) PROVE IsPrefix(q, Owner(s))
    BY <1>2, MovedOwner DEF IsStrictPrefix
  <1>3. ASSUME IsPrefix(q, Owner(s)) PROVE IsStrictPrefix(q, s)
    <2>1. IsPrefix(q, s)
      BY <1>1, <1>3, BelowOwner
    <2>2. q # s
      <3>1. ~IsPrefix(s, Owner(s))
        <4>1. Last(s) \in NodeIds /\ s = Append(Owner(s), Last(s))
          BY SlotParts
        <4> QED BY <1>1, <4>1, AppendSlot
      <3> QED BY <1>3, <3>1
    <2> QED BY <2>1, <2>2 DEF IsStrictPrefix
  <1> QED BY <1>1, <1>2, <1>3

(* What stands is found and addressed alike in both trees.                   *)
LEMMA StandingAlike ==
    ASSUME NEW b, Grafted(b), OneSlotEach(b), NEW e, Grafted(e), NEW x, Apart(b, x),
           NEW full \in SUBSET DOMAIN b.faces, Standing(b, e, x, full)
    PROVE  /\ Alike(e, b, FreeSlots(b, full)) /\ Alike(b, e, FreeSlots(b, full))
           /\ \A s \in FreeSlots(b, full) : e.faces[s].parent = b.faces[s].parent
  <1> DEFINE W == FreeSlots(b, full)
  <1>1. \A s \in W : /\ s \in DOMAIN b.faces /\ s \in DOMAIN e.faces /\ s \in Slots /\ s # <<>>
                     /\ b.faces[s].id = Last(s) /\ e.faces[s].id = Last(s)
                     /\ e.faces[s].name = b.faces[s].name
    BY PlacedFace DEF FreeSlots, Standing
  <1>2. \A p \in DOMAIN b.faces : p \in Slots /\ p # <<>> /\ b.faces[p].id = Last(p)
    BY PlacedFace
  <1>3. \A p \in DOMAIN e.faces : p \in Slots /\ p # <<>> /\ e.faces[p].id = Last(p)
    BY PlacedFace
  <1>4. \A s \in W : Alone(b, s)
    BY <1>1, <1>2 DEF Alone, OneSlotEach
  <1>5. ASSUME NEW s \in W, NEW p \in DOMAIN e.faces, Last(p) = Last(s) PROVE p = s
    <2>1. CASE p \in DOMAIN b.faces
      BY <1>1, <1>2, <1>5, <2>1 DEF OneSlotEach
    <2>2. CASE p \notin DOMAIN b.faces
      <3>1. PICK q \in DOMAIN x.faces : e.faces[p].id = x.faces[q].id
        BY <2>2 DEF Standing
      <3>2. x.faces[q].id = b.faces[s].id
        BY <1>1, <1>3, <1>5, <3>1
      <3> QED BY <1>1, <3>2 DEF Apart
    <2> QED BY <2>1, <2>2
  <1>6. \A s \in W : SlotPath(e, s) = SlotPath(b, s)
    BY <1>1 DEF SlotPath, Standing
  <1>7. ASSUME NEW s \in W, NEW p \in DOMAIN b.faces \cup DOMAIN e.faces, Owner(p) = Owner(s)
        PROVE  p \in W
    <2>1. ASSUME NEW q \in full, IsStrictPrefix(q, p) PROVE FALSE
      <3>1. q \in Slots /\ p \in Slots /\ p # <<>>
        BY <1>2, <1>3
      <3>2. IsStrictPrefix(q, s)
        BY <1>1, <1>7, <2>1, <3>1, OwnerBelow
      <3> QED BY <3>2 DEF FreeSlots
    <2>2. p \in DOMAIN b.faces
      BY <2>1 DEF Standing
    <2> QED BY <2>1, <2>2 DEF FreeSlots
  <1>8. ASSUME NEW s \in W PROVE e.faces[s].parent = b.faces[s].parent
    <2>1. /\ Owner(s) \in DOMAIN b.regs /\ Owner(s) \in DOMAIN e.regs
          /\ b.faces[s].parent = b.regs[Owner(s)].id /\ e.faces[s].parent = e.regs[Owner(s)].id
      BY <1>1, PlacedFace
    <2>2. Owner(s) # <<>> => b.regs[Owner(s)].id = Last(Owner(s)) /\ e.regs[Owner(s)].id = Last(Owner(s))
      BY <1>2, <1>3, <2>1, PlacedRegistry
    <2>3. e.regs[<<>>].id = b.regs[<<>>].id
      BY DEF Standing
    <2> QED BY <2>1, <2>2, <2>3
  <1>9. \A s \in W : Alone(e, s)
    BY <1>5 DEF Alone
  <1> HIDE DEF W
  <1>10. Alike(e, b, W) /\ Alike(b, e, W)
    BY <1>1, <1>4, <1>6, <1>7, <1>9 DEF Alike
  <1> QED BY <1>8, <1>10 DEF W

(* A cut whose slot is meant to be cut, if it stands, keeps what stands.     *)
LEMMA StandingKept ==
    ASSUME NEW b, Grafted(b), OneSlotEach(b), NEW x, Grafted(x), OneSlotEach(x), Apart(b, x),
           NEW full \in SUBSET DOMAIN b.faces, NEW cut, NEW e, Grafted(e),
           Standing(b, e, x, full), Untouched(b, e, full, cut),
           NEW from \in DOMAIN x.faces, NEW target, NEW whole \in BOOLEAN,
           CanGraft(e, target, x.faces[from], whole),
           \A s \in FreeSlots(b, full) : Last(s) = target => s \in cut /\ (whole => s \in full)
    PROVE  LET u == ApplyOverlayFace(e, target, x.faces[from], whole, x)
           IN  /\ Standing(b, u, x, full) /\ Untouched(b, u, full, cut)
               /\ \A s \in FreeSlots(b, full) :
                     u.faces[s] = IF Last(s) = target THEN Candidate(x.faces[from], b.faces[s])
                                                      ELSE e.faces[s]
  <1> DEFINE W == FreeSlots(b, full)
             u == ApplyOverlayFace(e, target, x.faces[from], whole, x)
             f == FaceSlot(e, target)
             face == Candidate(x.faces[from], e.faces[f])
  <1>1. f \in DOMAIN e.faces /\ Last(f) = target /\ Cutting(e, u, f, face, whole, x)
    BY CutChanges
  <1>2. Grafted(u)
    BY GraftKeeps
  <1>3. /\ \A p \in DOMAIN e.faces : p \in Slots /\ p # <<>> /\ e.faces[p].id = Last(p)
        /\ \A p \in DOMAIN u.faces : p \in Slots /\ p # <<>> /\ u.faces[p].id = Last(p)
                                     /\ Owner(p) \in DOMAIN u.regs
        /\ \A p \in DOMAIN b.faces : p \in Slots /\ p # <<>> /\ b.faces[p].id = Last(p)
    BY <1>2, PlacedFace
  <1> HIDE DEF u, f
  <1>4. /\ Alike(e, b, W) /\ \A s \in W : e.faces[s].parent = b.faces[s].parent
    BY StandingAlike
  <1>5. \A s \in W : /\ s \in DOMAIN b.faces /\ s \in DOMAIN e.faces /\ Alone(e, s)
                     /\ e.faces[s].name = b.faces[s].name /\ s \in Slots /\ s # <<>>
    BY <1>3, <1>4 DEF Alike
  <1>6. \A s \in W : Last(s) = target <=> s = f
    BY <1>1, <1>5 DEF Alone
  <1>7. /\ face.name = e.faces[f].name /\ face.id = e.faces[f].id /\ face.parent = e.faces[f].parent
        /\ f \in W => face = Candidate(x.faces[from], b.faces[f])
    <2> DEFINE r == x.faces[from]  o == e.faces[f]
    <2>1. r \in Faces /\ o \in Faces
      BY <1>1, PlacedFace
    <2>2. f \in W => /\ o.id = b.faces[f].id /\ o.name = b.faces[f].name /\ o.parent = b.faces[f].parent
      BY <1>1, <1>3, <1>4, <1>5
    <2> HIDE DEF r, o
    <2>3. /\ Candidate(r, o).name = o.name /\ Candidate(r, o).id = o.id
          /\ Candidate(r, o).parent = o.parent
          /\ f \in W => Candidate(r, o) = Candidate(r, b.faces[f])
      BY <2>1, <2>2 DEF Candidate, Faces
    <2> QED BY <2>3 DEF r, o
  <1>8. whole => \E q \in full : q \in Slots /\ IsPrefix(q, f)
    <2> SUFFICES ASSUME whole PROVE \E q \in full : q \in Slots /\ IsPrefix(q, f)
      OBVIOUS
    <2>1. CASE f \in W
      <3>1. f \in full /\ f \in Slots
        BY <1>1, <1>5, <2>1
      <3>2. IsPrefix(f, f)
        BY <3>1, PrefixPointwise DEF Slots
      <3> QED BY <3>1, <3>2
    <2>2. CASE f \notin W
      <3>1. \E q \in full : IsStrictPrefix(q, f)
        BY <1>1, <2>2 DEF FreeSlots, Standing
      <3> QED BY <1>3, <3>1 DEF IsStrictPrefix
    <2> QED BY <2>1, <2>2
  <1>9. \A p \in Slots : whole /\ IsStrictPrefix(f, p) => \E q \in full : IsStrictPrefix(q, p)
    BY <1>1, <1>3, <1>8, StrictBelow
  <1>10. \A s \in W : whole => ~IsStrictPrefix(f, s)
    BY <1>5, <1>9 DEF FreeSlots
  <1> HIDE DEF face
  <1>11. \A s \in W : s \in DOMAIN u.faces /\ u.faces[s] = IF s = f THEN face ELSE e.faces[s]
    BY <1>1, <1>5, <1>10 DEF Cutting
  <1>12. ASSUME NEW p \in DOMAIN e.regs, p # f, whole => ~IsStrictPrefix(f, p)
         PROVE  p \in DOMAIN u.regs /\ u.regs[p] = e.regs[p]
    BY <1>1, <1>12 DEF Cutting
  <1>13. u.regs[<<>>].id = b.regs[<<>>].id
    <2>1. <<>> \in DOMAIN e.regs /\ f \in Slots /\ f # <<>>
      BY <1>1, <1>3 DEF Grafted, IsTree
    <2>2. ~IsStrictPrefix(f, <<>>)
      BY <2>1, RootNotBelow DEF IsStrictPrefix
    <2> QED BY <1>12, <2>1, <2>2 DEF Standing
  <1>14. ASSUME NEW p \in DOMAIN u.faces
         PROVE  /\ p \notin DOMAIN b.faces => \E q \in full : IsStrictPrefix(q, p)
                /\ p \in DOMAIN b.faces \/ \E q \in DOMAIN x.faces : u.faces[p].id = x.faces[q].id
    <2>1. CASE p \in DOMAIN e.faces /\ (p = f \/ u.faces[p] = e.faces[p])
      <3>1. u.faces[p].id = e.faces[p].id
        BY <1>3, <2>1
      <3> QED BY <2>1, <3>1 DEF Standing
    <2>2. CASE /\ whole /\ IsStrictPrefix(f, p)
               /\ \E q \in DOMAIN x.faces : u.faces[p].id = x.faces[q].id
      BY <1>3, <1>9, <2>2
    <2> QED BY <1>1, <2>1, <2>2 DEF Cutting
  <1>15. ASSUME NEW s \in W PROVE u.regs[Owner(s)].path = b.regs[Owner(s)].path
    <2>1. Owner(s) \in DOMAIN e.regs /\ Owner(s) \in Slots /\ f \in Slots
      BY <1>1, <1>3, <1>5, PlacedFace
    <2>2. CASE Owner(s) = f
      <3>1. IsPrefix(f, Owner(s))
        BY <2>1, <2>2, PrefixPointwise DEF Slots
      <3>2. ~whole
        BY <1>5, <1>10, <2>1, <3>1, OwnerBelow
      <3>3. f \in DOMAIN u.regs
        BY <1>3, <1>11, <2>2
      <3>4. u.regs[f].path = e.regs[f].path
        BY <1>1, <3>2, <3>3 DEF Cutting
      <3> QED BY <2>2, <3>4 DEF Standing
    <2>3. CASE Owner(s) # f
      <3>1. whole => ~IsStrictPrefix(f, Owner(s))
        BY <1>5, <1>10, <2>1, OwnerBelow DEF IsStrictPrefix
      <3> QED BY <1>12, <2>1, <2>3, <3>1 DEF Standing
    <2> QED BY <2>2, <2>3
  <1>16. \A s \in W : u.faces[s].name = b.faces[s].name
    BY <1>5, <1>7, <1>11
  <1> HIDE DEF W
  <1>17. Standing(b, u, x, full)
    BY <1>11, <1>13, <1>14, <1>15, <1>16 DEF Standing, W
  <1>18. Untouched(b, u, full, cut)
    <2> SUFFICES ASSUME NEW s \in W \ cut
                 PROVE  /\ u.faces[s] = b.faces[s]
                        /\ s \in DOMAIN b.regs => s \in DOMAIN u.regs /\ u.regs[s] = b.regs[s]
      BY DEF Untouched, W
    <2>1. s # f
      BY <1>6 DEF W
    <2>2. e.faces[s] = b.faces[s] /\ (s \in DOMAIN b.regs => s \in DOMAIN e.regs /\ e.regs[s] = b.regs[s])
      BY DEF Untouched, W
    <2> QED BY <1>10, <1>11, <1>12, <2>1, <2>2
  <1>19. \A s \in W : u.faces[s] = IF Last(s) = target THEN Candidate(x.faces[from], b.faces[s])
                                                       ELSE e.faces[s]
    BY <1>6, <1>7, <1>11
  <1> QED BY <1>17, <1>18, <1>19 DEF u, W

-----------------------------------------------------------------------------
(* Plans put together from parts.                                            *)

LEMMA ConcatSet ==
    ASSUME NEW S, NEW a \in Seq(S), NEW b \in Seq(S)
    PROVE  a \o b \in Seq(S) /\ ToSet(a \o b) = ToSet(a) \cup ToSet(b)
  <1> DEFINE c == a \o b
  <1>1. /\ Len(a) \in Nat /\ Len(b) \in Nat /\ c \in Seq(S) /\ Len(c) = Len(a) + Len(b)
        /\ DOMAIN a = 1..Len(a) /\ DOMAIN b = 1..Len(b) /\ DOMAIN c = 1..Len(c)
        /\ \A i \in 1..Len(c) : c[i] = IF i <= Len(a) THEN a[i] ELSE b[i - Len(a)]
    OBVIOUS
  <1> HIDE DEF c
  <1>2. ASSUME NEW i \in DOMAIN c PROVE c[i] \in ToSet(a) \cup ToSet(b)
    <2>1. CASE i <= Len(a)
      <3>1. i \in DOMAIN a /\ c[i] = a[i]
        BY <1>1, <2>1
      <3> QED BY <3>1 DEF ToSet
    <2>2. CASE ~(i <= Len(a))
      <3>1. i - Len(a) \in DOMAIN b /\ c[i] = b[i - Len(a)]
        BY <1>1, <2>2
      <3> QED BY <3>1 DEF ToSet
    <2> QED BY <2>1, <2>2
  <1>3. ASSUME NEW i \in DOMAIN a PROVE \E k \in DOMAIN c : c[k] = a[i]
    <2>1. i \in DOMAIN c /\ i <= Len(a)
      BY <1>1
    <2> QED BY <1>1, <2>1
  <1>4. ASSUME NEW i \in DOMAIN b PROVE \E k \in DOMAIN c : c[k] = b[i]
    <2>1. Len(a) + i \in DOMAIN c /\ ~(Len(a) + i <= Len(a)) /\ (Len(a) + i) - Len(a) = i
      BY <1>1
    <2>2. c[Len(a) + i] = b[(Len(a) + i) - Len(a)]
      BY <1>1, <2>1
    <2> QED BY <2>1, <2>2
  <1>5. ToSet(c) = ToSet(a) \cup ToSet(b)
    BY <1>2, <1>3, <1>4 DEF ToSet
  <1> QED BY <1>1, <1>5 DEF c

Flattens(g, parts, n) == g = [i \in 1..n |-> IF i = 1 THEN parts[i] ELSE g[i - 1] \o parts[i]]

LEMMA FlattensExist ==
    ASSUME NEW parts, NEW n \in Nat
    PROVE  \E g : Flattens(g, parts, n)
  <1> DEFINE Bad == {m \in Nat : ~ \E g : Flattens(g, parts, m)}
  <1>1. SUFFICES ASSUME Bad # {} PROVE FALSE
    OBVIOUS
  <1>2. PICK m \in Bad : \A k \in Bad : m <= k
    <2>1. Bad \in SUBSET Nat
      OBVIOUS
    <2> HIDE DEF Bad
    <2> QED BY <1>1, <2>1, LeastNat
  <1>3. m \in Nat
    OBVIOUS
  <1>4. m # 0
    <2> DEFINE g == [i \in 1..0 |-> i]
    <2>1. Flattens(g, parts, 0)
      BY DEF Flattens
    <2> QED BY <2>1
  <1>5. m - 1 \in Nat /\ m - 1 \notin Bad
    <2> HIDE DEF Bad
    <2> QED BY <1>2, <1>3, <1>4
  <1>6. PICK g : Flattens(g, parts, m - 1)
    BY <1>5
  <1> DEFINE h == [i \in 1..m |-> IF i = 1 THEN parts[i] ELSE g[i - 1] \o parts[i]]
  <1>7. ASSUME NEW i \in 1..m, i # 1 PROVE h[i - 1] = g[i - 1]
    <2>1. i - 1 \in 1..m /\ i - 1 \in 1..(m - 1)
      BY <1>3, <1>7
    <2>2. PICK k \in 1..m : k = i - 1
      BY <2>1
    <2>3. h[k] = IF k = 1 THEN parts[k] ELSE g[k - 1] \o parts[k]
      OBVIOUS
    <2>4. g[k] = IF k = 1 THEN parts[k] ELSE g[k - 1] \o parts[k]
      BY <1>6, <2>1, <2>2 DEF Flattens
    <2> QED BY <2>2, <2>3, <2>4
  <1>8. Flattens(h, parts, m)
    <2>1. \A i \in 1..m : (IF i = 1 THEN parts[i] ELSE g[i - 1] \o parts[i])
                            = (IF i = 1 THEN parts[i] ELSE h[i - 1] \o parts[i])
      BY <1>7
    <2> QED BY <2>1 DEF Flattens
  <1>9. m \notin Bad
    BY <1>8
  <1> HIDE DEF Bad
  <1> QED BY <1>9

LEMMA FlattenParts ==
    ASSUME NEW S, NEW parts \in Seq(Seq(S))
    PROVE  /\ FlattenSeq(parts) \in Seq(S)
           /\ ToSet(FlattenSeq(parts)) = UNION {ToSet(parts[i]) : i \in DOMAIN parts}
  <1> DEFINE n == Len(parts)
             flat == CHOOSE g : Flattens(g, parts, n)
             Upto(k) == UNION {ToSet(parts[i]) : i \in 1..k}
             Right(k) == flat[k] \in Seq(S) /\ ToSet(flat[k]) = Upto(k)
             Bad == {k \in 1..n : ~Right(k)}
  <1>1. n \in Nat /\ DOMAIN parts = 1..n /\ \A i \in 1..n : parts[i] \in Seq(S)
    OBVIOUS
  <1>2. CASE n = 0
    <2>1. parts = <<>> /\ FlattenSeq(parts) = <<>>
      BY <1>2 DEF FlattenSeq
    <2>2. <<>> \in Seq(S) /\ ToSet(<<>>) = {} /\ DOMAIN parts = {}
      BY <2>1 DEF ToSet
    <2> QED BY <2>1, <2>2
  <1>3. CASE n # 0
    <2>1. FlattenSeq(parts) = flat[n]
      BY <1>3 DEF FlattenSeq, Flattens
    <2>2. Flattens(flat, parts, n)
      BY <1>1, FlattensExist
    <2> HIDE DEF flat, n
    <2>3. \A i \in 1..n : flat[i] = IF i = 1 THEN parts[i] ELSE flat[i - 1] \o parts[i]
      BY <2>2 DEF Flattens
    <2>4. Bad = {}
      <3> SUFFICES ASSUME Bad # {} PROVE FALSE
        OBVIOUS
      <3>1. PICK k \in Bad : \A m \in Bad : k <= m
        <4>1. Bad \in SUBSET Nat
          BY <1>1
        <4> HIDE DEF Bad
        <4> QED BY <4>1, LeastNat
      <3>2. k \in 1..n /\ ~Right(k) /\ k \in Nat
        BY <1>1
      <3>3. k # 1
        <4>1. ASSUME k = 1 PROVE Right(1)
          <5>1. 1 \in 1..n
            BY <3>2, <4>1
          <5>2. flat[1] = parts[1]
            BY <2>3, <5>1
          <5>3. 1..1 = {1}
            OBVIOUS
          <5>4. Upto(1) = ToSet(parts[1])
            BY <5>3
          <5>5. parts[1] \in Seq(S)
            BY <1>1, <5>1
          <5> QED BY <5>2, <5>4, <5>5
        <4> QED BY <3>2, <4>1
      <3>4. k - 1 \in 1..n
        BY <1>1, <3>2, <3>3
      <3>5. Right(k - 1)
        <4>1. k - 1 \notin Bad
          <5> HIDE DEF Bad
          <5> QED BY <3>1, <3>2
        <4> QED BY <3>4, <4>1
      <3>6. flat[k] = flat[k - 1] \o parts[k] /\ parts[k] \in Seq(S)
        BY <1>1, <2>3, <3>2, <3>3
      <3>7. flat[k] \in Seq(S) /\ ToSet(flat[k]) = ToSet(flat[k - 1]) \cup ToSet(parts[k])
        BY <3>5, <3>6, ConcatSet
      <3>8. Upto(k) = Upto(k - 1) \cup ToSet(parts[k])
        <4>1. \A i \in 1..k : i \in 1..(k - 1) \/ i = k
          BY <3>2
        <4>2. \A i \in 1..(k - 1) : i \in 1..k
          BY <3>2
        <4>3. k \in 1..k
          BY <1>1, <3>2
        <4> QED BY <4>1, <4>2, <4>3
      <3> QED BY <3>2, <3>5, <3>7, <3>8
    <2>5. Right(n)
      <3>1. n \in 1..n
        BY <1>1, <1>3
      <3> QED BY <2>4, <3>1
    <2> QED BY <1>1, <2>1, <2>5
  <1> QED BY <1>2, <1>3

(* Parts of one element each give back the list of these elements.           *)
LEMMA FlattenSingles ==
    ASSUME NEW S, NEW list \in Seq(S), NEW parts, parts = [i \in DOMAIN list |-> <<list[i]>>]
    PROVE  FlattenSeq(parts) = list
  <1> DEFINE n == Len(list)
             flat == CHOOSE g : Flattens(g, parts, n)
             Right(k) == flat[k] \in Seq(S) /\ Len(flat[k]) = k /\ \A i \in 1..k : flat[k][i] = list[i]
             Bad == {k \in 1..n : ~Right(k)}
  <1>1. n \in Nat /\ DOMAIN list = 1..n /\ \A i \in 1..n : list[i] \in S
    OBVIOUS
  <1>2. Len(parts) = n /\ \A i \in 1..n : parts[i] = <<list[i]>>
    <2>1. parts \in Seq(Seq(S))
      BY <1>1, IsASeq
    <2>2. DOMAIN parts = 1..n
      BY <1>1
    <2> QED BY <1>1, <2>1, <2>2
  <1>3. CASE n = 0
    <2>1. list = <<>> /\ parts = <<>>
      <3>1. list = <<>>
        BY <1>3
      <3>2. DOMAIN list = {}
        BY <3>1
      <3>3. parts \in Seq(Seq(S)) /\ Len(parts) = 0
        BY <1>1, <1>2, <1>3, IsASeq
      <3> QED BY <3>1, <3>3
    <2> QED BY <2>1 DEF FlattenSeq
  <1>4. CASE n # 0
    <2>1. FlattenSeq(parts) = flat[n]
      BY <1>2, <1>4 DEF FlattenSeq, Flattens
    <2>2. Flattens(flat, parts, n)
      BY <1>1, FlattensExist
    <2> HIDE DEF flat, n
    <2>3. \A i \in 1..n : flat[i] = IF i = 1 THEN parts[i] ELSE flat[i - 1] \o parts[i]
      BY <2>2 DEF Flattens
    <2>4. Bad = {}
      <3> SUFFICES ASSUME Bad # {} PROVE FALSE
        OBVIOUS
      <3>1. PICK k \in Bad : \A m \in Bad : k <= m
        <4>1. Bad \in SUBSET Nat
          BY <1>1
        <4> HIDE DEF Bad
        <4> QED BY <4>1, LeastNat
      <3>2. k \in 1..n /\ ~Right(k) /\ k \in Nat
        BY <1>1
      <3>3. k # 1
        <4>1. ASSUME k = 1 PROVE Right(1)
          <5>1. 1 \in 1..n /\ flat[1] = <<list[1]>> /\ 1..1 = {1} /\ list[1] \in S
            BY <1>1, <1>2, <2>3, <3>2, <4>1
          <5> QED BY <5>1
        <4> QED BY <3>2, <4>1
      <3>4. k - 1 \in 1..n
        BY <1>1, <3>2, <3>3
      <3>5. Right(k - 1)
        <4>1. k - 1 \notin Bad
          <5> HIDE DEF Bad
          <5> QED BY <3>1, <3>2
        <4> QED BY <3>4, <4>1
      <3> DEFINE a == flat[k - 1]  b == list[k]
      <3>6. flat[k] = a \o <<b>> /\ b \in S
        BY <1>1, <1>2, <2>3, <3>2, <3>3
      <3>7. a \in Seq(S) /\ Len(a) = k - 1 /\ \A i \in 1..(k - 1) : a[i] = list[i]
        BY <3>5
      <3> HIDE DEF a, b
      <3>8. /\ a \o <<b>> \in Seq(S) /\ Len(a \o <<b>>) = k
            /\ \A i \in 1..k : (a \o <<b>>)[i] = IF i <= k - 1 THEN a[i] ELSE b
        BY <3>2, <3>6, <3>7
      <3>9. \A i \in 1..k : (i <= k - 1 => i \in 1..(k - 1)) /\ (~(i <= k - 1) => i = k)
        BY <3>2
      <3>10. \A i \in 1..k : (a \o <<b>>)[i] = list[i]
        BY <3>7, <3>8, <3>9 DEF b
      <3> QED BY <3>2, <3>6, <3>8, <3>10
    <2>5. Right(n)
      <3>1. n \in 1..n
        BY <1>1, <1>4
      <3> QED BY <2>4, <3>1
    <2>6. flat[n] = list
      <3> DEFINE a == flat[n]
      <3>1. a \in Seq(S) /\ Len(a) = Len(list) /\ \A i \in 1..Len(list) : a[i] = list[i]
        BY <2>5 DEF n
      <3> HIDE DEF a
      <3>2. a = list
        BY <3>1, SeqEqual
      <3> QED BY <3>2 DEF a
    <2> QED BY <2>1, <2>6
  <1> QED BY <1>3, <1>4

-----------------------------------------------------------------------------
(* The cuts of a plan, in the base tree they are made for.                   *)

LEMMA CutsFaces ==
    ASSUME NEW t, Grafted(t), NEW cut, TargetsResolve(t, cut)
    PROVE  /\ CutTargets(t, cut) \in Seq(NodeIds)
           /\ \A n \in DeclaredSlots(t, cut) : \E s \in DOMAIN t.faces : n = Last(s)
  <1>1. \A s \in DOMAIN t.faces : t.faces[s].id = Last(s) /\ t.faces[s].id \in NodeIds
    BY PlacedFace DEF Faces
  <1>2. CASE cut.end = NoEnd
    <2>1. PICK s \in DOMAIN t.faces : Resolved(t, cut.cut) = Last(s)
      BY ResolvedMatch DEF TargetsResolve
    <2>2. CutTargets(t, cut) = <<Last(s)>> /\ Last(s) \in NodeIds
      BY <1>1, <1>2, <2>1 DEF CutTargets
    <2>3. DeclaredSlots(t, cut) = {Last(s)}
      BY <2>2 DEF DeclaredSlots, ToSet
    <2> QED BY <2>2, <2>3
  <1>3. CASE cut.end # NoEnd
    <2> DEFINE a == Resolved(t, cut.cut)  b == Resolved(t, cut.end)
               among == Between(t, a, b)
               list == Sorting(t, among)
    <2>1. Resolves(t, cut.cut) /\ Resolves(t, cut.end) /\ RangeResolves(t, a, b)
      BY <1>3 DEF TargetsResolve
    <2>2. HasFace(t, a) /\ HasFace(t, b)
      BY <2>1, ResolvedMatch
    <2>3. among \in SUBSET Entries(t, RegistrySlot(t, FaceById(t, a).parent))
      BY DEF Between
    <2>4. list \in [1..Cardinality(among) -> among]
      BY <2>3, SiblingsSorted
    <2>5. CutTargets(t, cut) = [i \in DOMAIN list |-> t.faces[list[i]].id]
      BY <1>3 DEF CutTargets, Span
    <2>6. \A p \in among : p \in DOMAIN t.faces
      BY <2>3 DEF Entries
    <2>7. Cardinality(among) \in Nat
      BY <2>6, FS_Subset, FS_CardinalityType DEF Grafted
    <2> HIDE DEF list, among, a, b
    <2>8. DOMAIN list = 1..Cardinality(among) /\ \A i \in DOMAIN list : list[i] \in DOMAIN t.faces
      BY <2>4, <2>6
    <2>9. CutTargets(t, cut) \in Seq(NodeIds)
      BY <1>1, <2>5, <2>7, <2>8
    <2>10. \A i \in DOMAIN CutTargets(t, cut) : \E s \in DOMAIN t.faces : CutTargets(t, cut)[i] = Last(s)
      BY <1>1, <2>5, <2>8
    <2> QED BY <2>9, <2>10 DEF DeclaredSlots, ToSet
  <1> QED BY <1>2, <1>3

(* The path of an entry names it alone.                                      *)
OnePathEach(t) ==
    \A s, p \in DOMAIN t.faces : SlotPath(t, s) = SlotPath(t, p) => s = p

LEMMA SlotPathType ==
    ASSUME NEW t, Grafted(t), NEW s \in DOMAIN t.faces
    PROVE  SlotPath(t, s) \in Paths
  <1>1. Owner(s) \in DOMAIN t.regs /\ t.faces[s] \in Faces
    BY PlacedFace
  <1>2. t.regs[Owner(s)].path \in Seq(Names) /\ t.faces[s].name \in Names
    BY <1>1 DEF Grafted, IsTree, Headers, Paths, Faces
  <1> QED BY <1>2 DEF SlotPath, Paths

LEMMA OwnedCovers ==
    ASSUME NEW t, Grafted(t), OneSlotEach(t), OnePathEach(t), NEW s \in DOMAIN t.faces,
           NEW given \in Selectors, NEW full \in BOOLEAN
    PROVE  LET cut == SlotCut(t, Last(s), given, full)
           IN  /\ cut \in Cuts /\ TargetsResolve(t, cut) /\ DeclaredSlots(t, cut) = {Last(s)}
               /\ cut.graft = given /\ cut.full = full
  <1> DEFINE cut == SlotCut(t, Last(s), given, full)
             path == SlotPath(t, s)
             selector == <<"path", path>>
  <1>1. \A p \in DOMAIN t.faces : Alone(t, p) /\ t.faces[p].id = Last(p)
    BY PlacedFace DEF Alone, OneSlotEach
  <1>2. \A p \in DOMAIN t.faces : PathFor(t, Last(p)) = SlotPath(t, p)
    BY <1>1, AloneFound
  <1>3. cut = [cut |-> selector, end |-> NoEnd, graft |-> given, full |-> full]
    <2>1. PathFor(t, Last(s)) = path
      BY <1>2
    <2> HIDE DEF path
    <2> QED BY <2>1 DEF SlotCut
  <1>4. path \in Paths
    BY SlotPathType
  <1> HIDE DEF path
  <1>5. cut \in Cuts /\ cut.cut = selector /\ cut.end = NoEnd /\ cut.graft = given /\ cut.full = full
    <2>1. selector \in Targets
      BY <1>4 DEF Targets
    <2> HIDE DEF cut, selector
    <2> QED BY <1>3, <2>1 DEF Cuts
  <1>6. Matches(t, selector) = {s}
    <2>1. selector[1] = "path" /\ selector[2] = path
      OBVIOUS
    <2>2. Matches(t, selector) = {p \in DOMAIN t.faces : SlotPath(t, p) = path}
      <3> HIDE DEF selector
      <3> QED BY <1>1, <1>2, <2>1 DEF Matches
    <2> QED BY <2>2 DEF path, OnePathEach
  <1>7. Resolves(t, selector) /\ Resolved(t, selector) = Last(s)
    BY <1>1, <1>6, FS_Singleton DEF Resolves, Resolved
  <1>8. TargetsResolve(t, cut) /\ CutTargets(t, cut) = <<Last(s)>>
    BY <1>5, <1>7 DEF TargetsResolve, CutTargets
  <1>9. DeclaredSlots(t, cut) = {Last(s)}
    BY <1>8 DEF DeclaredSlots, ToSet
  <1> QED BY <1>5, <1>8, <1>9

-----------------------------------------------------------------------------
(* The records that win, and the plan they make of the declared cuts.        *)

LEMMA FoundWinners ==
    ASSUME NEW t, NEW x, NEW cuts, NEW found \in Seq(RecordedGrafts)
    PROVE  /\ Winners(t, found, cuts, x) \in Seq(RecordedGrafts)
           /\ ToSet(Winners(t, found, cuts, x))
                = {found[i] : i \in {i \in DOMAIN found : Wins(t, cuts, x, found[i])}}
  <1> DEFINE won(i) == Wins(t, cuts, x, found[i])
             parts == [i \in DOMAIN found |-> IF won(i) THEN <<found[i]>> ELSE <<>>]
  <1>1. \A i \in DOMAIN found : found[i] \in RecordedGrafts
    OBVIOUS
  <1>2. \A i \in DOMAIN found : /\ <<found[i]>> \in Seq(RecordedGrafts) /\ ToSet(<<found[i]>>) = {found[i]}
                                /\ <<>> \in Seq(RecordedGrafts) /\ ToSet(<<>>) = {}
    BY <1>1 DEF ToSet
  <1> HIDE DEF won
  <1>3. parts \in Seq(Seq(RecordedGrafts)) /\ DOMAIN parts = DOMAIN found
    <2>1. DOMAIN found = 1..Len(found) /\ Len(found) \in Nat
      OBVIOUS
    <2>2. \A i \in 1..Len(found) : parts[i] \in Seq(RecordedGrafts)
      BY <1>2, <2>1
    <2> QED BY <2>1, <2>2, IsASeq
  <1>4. \A i \in DOMAIN found : ToSet(parts[i]) = IF won(i) THEN {found[i]} ELSE {}
    BY <1>2
  <1>5. Winners(t, found, cuts, x) = FlattenSeq(parts)
    BY DEF Winners, won
  <1> HIDE DEF parts
  <1>6. ToSet(FlattenSeq(parts)) = {found[i] : i \in {i \in DOMAIN found : won(i)}}
    BY <1>3, <1>4, FlattenParts
  <1> QED BY <1>3, <1>5, <1>6, FlattenParts DEF won

LEMMA SlotOwners ==
    ASSUME NEW t, NEW cut, NEW slot, NEW W \in Seq(RecordedGrafts), NEW S,
           \A record \in ToSet(W) : SlotCut(t, slot, record.graft, record.full) \in S,
           SlotCut(t, slot, cut.graft, cut.full) \in S
    PROVE  LET here == {record \in ToSet(W) : RecordSlot(t, record) = slot}
           IN  /\ SplitSlot(t, cut, slot, W) \in Seq(S)
               /\ ToSet(SplitSlot(t, cut, slot, W))
                    = IF here # {} THEN {SlotCut(t, slot, record.graft, record.full) : record \in here}
                      ELSE {SlotCut(t, slot, cut.graft, cut.full)}
  <1> DEFINE at(i) == RecordSlot(t, W[i]) = slot
             own(record) == SlotCut(t, slot, record.graft, record.full)
             here == {record \in ToSet(W) : RecordSlot(t, record) = slot}
             parts == [i \in DOMAIN W |-> IF at(i) THEN <<own(W[i])>> ELSE <<>>]
  <1>1. here # {} <=> \E i \in DOMAIN W : at(i)
    BY DEF ToSet
  <1>2. SplitSlot(t, cut, slot, W) = IF here # {} THEN FlattenSeq(parts)
                                     ELSE <<SlotCut(t, slot, cut.graft, cut.full)>>
    BY <1>1 DEF SplitSlot
  <1>3. \A i \in DOMAIN W : own(W[i]) \in S
    BY DEF ToSet
  <1>4. here = {W[i] : i \in {i \in DOMAIN W : at(i)}}
    BY DEF ToSet
  <1> HIDE DEF at, own, here
  <1>5. \A i \in DOMAIN W : /\ <<own(W[i])>> \in Seq(S) /\ ToSet(<<own(W[i])>>) = {own(W[i])}
                            /\ <<>> \in Seq(S) /\ ToSet(<<>>) = {}
    BY <1>3 DEF ToSet
  <1>6. parts \in Seq(Seq(S)) /\ DOMAIN parts = DOMAIN W
    <2>1. DOMAIN W = 1..Len(W) /\ Len(W) \in Nat
      OBVIOUS
    <2>2. \A i \in 1..Len(W) : parts[i] \in Seq(S)
      BY <1>5, <2>1
    <2> QED BY <2>1, <2>2, IsASeq
  <1>7. \A i \in DOMAIN W : ToSet(parts[i]) = IF at(i) THEN {own(W[i])} ELSE {}
    BY <1>5
  <1> HIDE DEF parts
  <1>8. FlattenSeq(parts) \in Seq(S) /\ ToSet(FlattenSeq(parts)) = {own(W[i]) : i \in {i \in DOMAIN W : at(i)}}
    BY <1>6, <1>7, FlattenParts
  <1>9. ToSet(FlattenSeq(parts)) = {own(record) : record \in here}
    BY <1>4, <1>8
  <1> DEFINE kept == SlotCut(t, slot, cut.graft, cut.full)
  <1>10. <<kept>> \in Seq(S) /\ ToSet(<<kept>>) = {kept}
    BY DEF ToSet
  <1> HIDE DEF kept
  <1> QED BY <1>2, <1>8, <1>9, <1>10 DEF here, own, kept

LEMMA SplitParts ==
    ASSUME NEW t, Grafted(t), OneSlotEach(t), OnePathEach(t), NEW W \in Seq(RecordedGrafts),
           NEW cut \in Cuts, TargetsResolve(t, cut)
    PROVE  LET split == \E record \in ToSet(W) : RecordSlot(t, record) \in DeclaredSlots(t, cut)
           IN  /\ SplitCut(t, cut, W) \in Seq(Cuts)
               /\ ToSet(SplitCut(t, cut, W))
                    = IF split THEN UNION {ToSet(SplitSlot(t, cut, slot, W)) : slot \in DeclaredSlots(t, cut)}
                      ELSE {cut}
  <1> DEFINE split == \E record \in ToSet(W) : RecordSlot(t, record) \in DeclaredSlots(t, cut)
             targets == CutTargets(t, cut)
             at(slot) == SplitSlot(t, cut, slot, W)
             parts == [i \in DOMAIN targets |-> at(targets[i])]
  <1>1. SplitCut(t, cut, W) = IF split THEN FlattenSeq(parts) ELSE <<cut>>
    BY DEF SplitCut, ToSet
  <1>2. targets \in Seq(NodeIds) /\ DeclaredSlots(t, cut) = ToSet(targets)
    BY CutsFaces DEF DeclaredSlots
  <1>3. ASSUME NEW slot \in DeclaredSlots(t, cut) PROVE at(slot) \in Seq(Cuts)
    <2>1. PICK s \in DOMAIN t.faces : slot = Last(s)
      BY CutsFaces
    <2>2. cut.graft \in Selectors /\ cut.full \in BOOLEAN
      BY DEF Cuts
    <2>3. ASSUME NEW record \in ToSet(W)
          PROVE  record.graft \in Selectors /\ record.full \in BOOLEAN
      <3>1. record \in RecordedGrafts
        BY DEF ToSet
      <3> QED BY <3>1 DEF RecordedGrafts
    <2>4. SlotCut(t, slot, cut.graft, cut.full) \in Cuts
      BY <2>1, <2>2, OwnedCovers
    <2>5. \A record \in ToSet(W) : SlotCut(t, slot, record.graft, record.full) \in Cuts
      BY <2>1, <2>3, OwnedCovers
    <2> QED BY <2>4, <2>5, SlotOwners
  <1> HIDE DEF split, targets, at
  <1>4. parts \in Seq(Seq(Cuts)) /\ DOMAIN parts = DOMAIN targets
    <2>1. DOMAIN targets = 1..Len(targets) /\ Len(targets) \in Nat
      BY <1>2
    <2>2. \A i \in 1..Len(targets) : parts[i] \in Seq(Cuts)
      BY <1>2, <1>3, <2>1 DEF ToSet
    <2> QED BY <2>1, <2>2, IsASeq
  <1>5. \A i \in DOMAIN targets : parts[i] = at(targets[i])
    OBVIOUS
  <1> HIDE DEF parts
  <1>6. /\ FlattenSeq(parts) \in Seq(Cuts)
        /\ ToSet(FlattenSeq(parts)) = UNION {ToSet(parts[i]) : i \in DOMAIN parts}
    BY <1>4, FlattenParts
  <1>7. UNION {ToSet(parts[i]) : i \in DOMAIN parts} = UNION {ToSet(at(slot)) : slot \in ToSet(targets)}
    <2>1. ASSUME NEW i \in DOMAIN parts PROVE \E slot \in ToSet(targets) : parts[i] = at(slot)
      BY <1>4, <1>5 DEF ToSet
    <2>2. ASSUME NEW slot \in ToSet(targets) PROVE \E i \in DOMAIN parts : parts[i] = at(slot)
      BY <1>4, <1>5 DEF ToSet
    <2> QED BY <2>1, <2>2
  <1>8. <<cut>> \in Seq(Cuts) /\ ToSet(<<cut>>) = {cut}
    BY DEF ToSet
  <1> QED BY <1>1, <1>2, <1>6, <1>7, <1>8 DEF split, at

LEMMA PlanParts ==
    ASSUME NEW t, Grafted(t), OneSlotEach(t), OnePathEach(t), NEW x,
           NEW found \in Seq(RecordedGrafts), NEW cuts \in Seq(Cuts),
           \A i \in DOMAIN cuts : TargetsResolve(t, cuts[i])
    PROVE  /\ RecordedPlan(t, found, cuts, x) \in Seq(Cuts)
           /\ ToSet(RecordedPlan(t, found, cuts, x))
                = UNION {ToSet(SplitCut(t, cuts[i], Winners(t, found, cuts, x))) : i \in DOMAIN cuts}
  <1> DEFINE W == Winners(t, found, cuts, x)
             parts == [i \in DOMAIN cuts |-> SplitCut(t, cuts[i], W)]
  <1>1. W \in Seq(RecordedGrafts)
    BY FoundWinners
  <1>2. RecordedPlan(t, found, cuts, x) = FlattenSeq(parts)
    BY DEF RecordedPlan
  <1> HIDE DEF W
  <1>3. DOMAIN cuts = 1..Len(cuts) /\ Len(cuts) \in Nat /\ \A i \in DOMAIN cuts : cuts[i] \in Cuts
    OBVIOUS
  <1>4. \A i \in DOMAIN cuts : SplitCut(t, cuts[i], W) \in Seq(Cuts)
    BY <1>1, <1>3, SplitParts
  <1>5. parts \in Seq(Seq(Cuts)) /\ DOMAIN parts = DOMAIN cuts
    BY <1>3, <1>4, IsASeq
  <1>6. \A i \in DOMAIN cuts : parts[i] = SplitCut(t, cuts[i], W)
    OBVIOUS
  <1> HIDE DEF parts
  <1>7. /\ FlattenSeq(parts) \in Seq(Cuts)
        /\ ToSet(FlattenSeq(parts)) = UNION {ToSet(parts[i]) : i \in DOMAIN parts}
    BY <1>5, FlattenParts
  <1> QED BY <1>2, <1>5, <1>6, <1>7 DEF W

-----------------------------------------------------------------------------
(* Every cut of a plan is meant: what it covers is declared, and it is       *)
(* "full" only where a declaration or a record is.                           *)

FullSlots == {s \in DOMAIN base.faces : FullAt(s)}
CutSlots == {s \in DOMAIN base.faces : Targeted(s)}

Meant(c) ==
    /\ c \in Cuts /\ TargetsResolve(base, c)
    /\ \A s \in DOMAIN base.faces :
          Last(s) \in DeclaredSlots(base, c) => s \in CutSlots /\ (c.full => s \in FullSlots)

Asking ==
    /\ declared \in Seq(Declarations) /\ records \in Seq(Records)
    /\ \A i \in DOMAIN declared : TargetsResolve(base, declared[i])

OneReading == \A i \in DOMAIN records : ~Misnamed(records[i])

LEMMA DeclaredMeant ==
    ASSUME Grafted(base), Asking, NEW i \in DOMAIN declared
    PROVE  Meant(declared[i])
  <1>1. declared[i] \in Cuts /\ TargetsResolve(base, declared[i])
    BY OverlayAssumption DEF Asking
  <1>2. \A s \in DOMAIN base.faces : base.faces[s].id = Last(s)
    BY PlacedFace
  <1> QED BY <1>1, <1>2 DEF Meant, CutSlots, FullSlots, Targeted, FullAt

LEMMA PlannedMeant ==
    ASSUME Grafted(base), OneSlotEach(base), OnePathEach(base), Asking, NEW x,
           NEW c \in ToSet(RecordedPlan(base, records, declared, x))
    PROVE  Meant(c)
  <1> DEFINE W == Winners(base, records, declared, x)
  <1>1. /\ records \in Seq(RecordedGrafts) /\ declared \in Seq(Cuts)
        /\ \A i \in DOMAIN declared : declared[i] \in Cuts /\ TargetsResolve(base, declared[i])
    BY OverlayAssumption DEF Asking
  <1>2. W \in Seq(RecordedGrafts)
    BY <1>1, FoundWinners
  <1>3. ASSUME NEW record \in ToSet(W)
        PROVE  \E i \in DOMAIN records : record = records[i] /\ HasSlot(base, record)
                                         /\ record \in RecordedGrafts
    <2>1. PICK i \in DOMAIN records : record = records[i] /\ Wins(base, declared, x, record)
      BY <1>1, FoundWinners
    <2> QED BY <1>1, <2>1 DEF Wins
  <1> HIDE DEF W
  <1>4. PICK i \in DOMAIN declared : c \in ToSet(SplitCut(base, declared[i], W))
    BY <1>1, PlanParts DEF W
  <1> DEFINE cut == declared[i]
             split == \E record \in ToSet(W) : RecordSlot(base, record) \in DeclaredSlots(base, cut)
  <1>5. cut \in Cuts /\ TargetsResolve(base, cut)
    BY <1>1
  <1>6. CASE ~split
    <2>1. c = cut
      BY <1>2, <1>4, <1>5, <1>6, SplitParts
    <2> QED BY <2>1, DeclaredMeant
  <1>7. CASE split
    <2>1. PICK slot \in DeclaredSlots(base, cut) : c \in ToSet(SplitSlot(base, cut, slot, W))
      BY <1>2, <1>4, <1>5, <1>7, SplitParts
    <2>2. PICK s \in DOMAIN base.faces : slot = Last(s)
      BY <1>5, <2>1, CutsFaces
    <2>3. base.faces[s].id = Last(s) /\ \A p \in DOMAIN base.faces : Last(p) = Last(s) => p = s
      BY PlacedFace DEF OneSlotEach
    <2>4. s \in CutSlots /\ (cut.full => s \in FullSlots)
      BY <1>5, <2>1, <2>2, <2>3 DEF CutSlots, FullSlots, Targeted, FullAt
    <2> DEFINE own(given, full) == SlotCut(base, slot, given, full)
               here == {record \in ToSet(W) : RecordSlot(base, record) = slot}
    <2>5. cut.graft \in Selectors /\ cut.full \in BOOLEAN
      BY <1>5 DEF Cuts
    <2>6. \A record \in ToSet(W) : record.graft \in Selectors /\ record.full \in BOOLEAN
      BY <1>3 DEF RecordedGrafts
    <2>7. ASSUME NEW given \in Selectors, NEW full \in BOOLEAN, full => s \in FullSlots
          PROVE  own(given, full) \in Cuts /\ Meant(own(given, full))
      <3>1. /\ own(given, full) \in Cuts /\ TargetsResolve(base, own(given, full))
            /\ DeclaredSlots(base, own(given, full)) = {Last(s)}
            /\ own(given, full).full = full
        BY <2>2, OwnedCovers
      <3> HIDE DEF own
      <3> QED BY <2>3, <2>4, <2>7, <3>1 DEF Meant
    <2>8. ASSUME NEW record \in here PROVE record.full => s \in FullSlots
      BY <1>3, <2>2, <2>3 DEF FullSlots, FullAt
    <2>9. /\ own(cut.graft, cut.full) \in Cuts
          /\ \A record \in ToSet(W) : own(record.graft, record.full) \in Cuts
      BY <2>2, <2>5, <2>6, OwnedCovers
    <2>10. ToSet(SplitSlot(base, cut, slot, W))
             = IF here # {} THEN {own(record.graft, record.full) : record \in here}
               ELSE {own(cut.graft, cut.full)}
      BY <1>2, <2>9, SlotOwners
    <2>11. \/ c = own(cut.graft, cut.full)
           \/ \E record \in here : c = own(record.graft, record.full)
      <3> HIDE DEF own, here
      <3> QED BY <2>1, <2>10
    <2> QED BY <2>4, <2>5, <2>6, <2>7, <2>8, <2>11
  <1> QED BY <1>6, <1>7

(* The cut that gives a declared slot its occupant is in the plan.           *)
LEMMA OccupantPlanned ==
    ASSUME Grafted(base), OneSlotEach(base), OnePathEach(base), Asking, OneReading,
           NEW s \in DOMAIN base.faces, Targeted(s)
    PROVE  \E c \in ToSet(RecordedPlan(base, records, declared, external)) :
              Last(s) \in DeclaredSlots(base, c) /\ c.graft = Occupant(s)
  <1> DEFINE W == Winners(base, records, declared, external)
             slot == Last(s)
             covers(i) == slot \in DeclaredSlots(base, declared[i])
             first(i) == covers(i) /\ \A k \in 1..(i - 1) : ~covers(k)
             offers == {i \in DOMAIN records : HasSlot(base, records[i])
                        /\ RecordSlot(base, records[i]) = slot /\ Resolves(external, records[i].graft)}
             here == {record \in ToSet(W) : RecordSlot(base, record) = slot}
  <1>1. /\ records \in Seq(RecordedGrafts) /\ declared \in Seq(Cuts)
        /\ \A i \in DOMAIN declared : declared[i] \in Cuts /\ TargetsResolve(base, declared[i])
        /\ base.faces[s].id = slot
    BY PlacedFace, OverlayAssumption DEF Asking
  <1>2. \E i \in DOMAIN declared : covers(i)
    BY <1>1 DEF Targeted
  <1>3. \E i \in DOMAIN declared : first(i)
    <2> DEFINE C == {i \in DOMAIN declared : covers(i)}
    <2>1. DOMAIN declared = 1..Len(declared) /\ Len(declared) \in Nat
      BY <1>1
    <2>2. C # {} /\ C \in SUBSET Nat
      BY <1>2, <2>1
    <2> HIDE DEF C
    <2>3. PICK i \in C : \A k \in C : i <= k
      BY <2>2, LeastNat
    <2>4. i \in DOMAIN declared /\ covers(i) /\ i \in 1..Len(declared)
      BY <2>1 DEF C
    <2>5. ASSUME NEW k \in 1..(i - 1), covers(k) PROVE FALSE
      <3>1. k \in DOMAIN declared /\ ~(i <= k)
        BY <2>1, <2>4
      <3> QED BY <2>3, <2>5, <3>1 DEF C
    <2> QED BY <2>4, <2>5
  <1> DEFINE j == CHOOSE i \in DOMAIN declared : first(i)
             cut == declared[j]
  <1>4. DeclarationOf(base, declared, slot) = cut
    BY DEF DeclarationOf
  <1>5. j \in DOMAIN declared /\ covers(j)
    BY <1>3
  <1>6. cut \in Cuts /\ TargetsResolve(base, cut) /\ slot \in DeclaredSlots(base, cut)
    BY <1>1, <1>5
  <1>7. Occupant(s) = IF ByName(cut) /\ offers # {} THEN records[CHOOSE i \in offers : TRUE].graft
                      ELSE cut.graft
    <2>1. \A i \in DOMAIN records : records[i].dir = records[i].graft
      BY DEF OneReading, Misnamed
    <2> DEFINE given == {i \in DOMAIN records : HasSlot(base, records[i])
                         /\ RecordSlot(base, records[i]) = base.faces[s].id
                         /\ Resolves(external, records[i].dir)}
    <2>2. given = offers
      BY <1>1, <2>1
    <2>3. offers # {} => (CHOOSE i \in offers : TRUE) \in DOMAIN records
      OBVIOUS
    <2>4. offers # {} => records[CHOOSE i \in offers : TRUE].dir = records[CHOOSE i \in offers : TRUE].graft
      BY <2>1, <2>3
    <2>5. DeclarationOf(base, declared, base.faces[s].id) = cut
      BY <1>1, <1>4
    <2> HIDE DEF covers, first, offers, here, j, cut
    <2>6. Occupant(s) = IF ByName(cut) /\ given # {} THEN records[CHOOSE i \in given : TRUE].dir
                        ELSE cut.graft
      BY ONLY <2>5 DEF Occupant, ByName
    <2> HIDE DEF given
    <2> QED BY ONLY <2>2, <2>4, <2>6
  <1>8. DeclaresSlot(base, declared, slot)
    BY <1>2 DEF DeclaresSlot
  <1> HIDE DEF covers, first, j, cut
  <1>9. W \in Seq(RecordedGrafts)
        /\ ToSet(W) = {records[i] : i \in {i \in DOMAIN records : Wins(base, declared, external, records[i])}}
    BY <1>1, FoundWinners
  <1>10. ByName(cut) => \A i \in offers : records[i] \in here
    BY <1>4, <1>8, <1>9 DEF Wins
  <1>11. here # {} => ByName(cut) /\ offers # {}
    BY <1>4, <1>9 DEF Wins
  <1> HIDE DEF W, offers, here
  <1> DEFINE own(given, full) == SlotCut(base, slot, given, full)
  <1>12. cut.graft \in Selectors /\ cut.full \in BOOLEAN
    BY <1>6 DEF Cuts
  <1>13. \A record \in ToSet(W) : record.graft \in Selectors /\ record.full \in BOOLEAN
    <2>1. \A record \in ToSet(W) : record \in RecordedGrafts
      BY <1>9 DEF ToSet
    <2> QED BY <2>1 DEF RecordedGrafts
  <1>14. \A given \in Selectors, full \in BOOLEAN :
            /\ own(given, full) \in Cuts /\ slot \in DeclaredSlots(base, own(given, full))
            /\ own(given, full).graft = given
    BY OwnedCovers
  <1>15. ToSet(SplitSlot(base, cut, slot, W))
           = IF here # {} THEN {own(record.graft, record.full) : record \in here}
             ELSE {own(cut.graft, cut.full)}
    <2>1. /\ own(cut.graft, cut.full) \in Cuts
          /\ \A record \in ToSet(W) : own(record.graft, record.full) \in Cuts
      BY <1>12, <1>13, <1>14
    <2> QED BY <1>9, <2>1, SlotOwners DEF here
  <1> HIDE DEF own
  <1>16. \A c \in ToSet(SplitCut(base, cut, W)) : c \in ToSet(RecordedPlan(base, records, declared, external))
    BY <1>1, <1>5, PlanParts DEF Asking, W, cut
  <1> DEFINE split == \E record \in ToSet(W) : RecordSlot(base, record) \in DeclaredSlots(base, cut)
  <1>17. CASE ~split
    <2>1. ToSet(SplitCut(base, cut, W)) = {cut}
      BY <1>6, <1>9, <1>17, SplitParts
    <2>2. here = {}
      BY <1>6, <1>17 DEF here
    <2>3. Occupant(s) = cut.graft
      BY <1>7, <1>10, <2>2
    <2> QED BY <1>6, <1>16, <2>1, <2>3
  <1>18. CASE split
    <2>1. \A c \in ToSet(SplitSlot(base, cut, slot, W)) : c \in ToSet(SplitCut(base, cut, W))
      BY <1>6, <1>9, <1>18, SplitParts
    <2>2. CASE here = {}
      <3>1. Occupant(s) = cut.graft
        BY <1>7, <1>10, <2>2
      <3> QED BY <1>12, <1>14, <1>15, <1>16, <2>1, <2>2, <3>1
    <2>3. CASE here # {}
      <3>1. PICK record \in here : Occupant(s) = record.graft
        BY <1>7, <1>10, <1>11, <2>3
      <3>2. record \in ToSet(W)
        BY DEF here
      <3> QED BY <1>13, <1>14, <1>15, <1>16, <2>1, <2>3, <3>1, <3>2
    <2> QED BY <2>2, <2>3
  <1> QED BY <1>17, <1>18

LEMMA HeadAndTail ==
    ASSUME NEW S, NEW list \in Seq(S), list # <<>>
    PROVE  /\ Head(list) \in S /\ Tail(list) \in Seq(S)
           /\ ToSet(list) = {Head(list)} \cup ToSet(Tail(list))
  <1> DEFINE rest == Tail(list)  n == Len(list)
  <1>1. /\ n \in Nat /\ n # 0 /\ DOMAIN list = 1..n /\ Head(list) = list[1] /\ list[1] \in S
        /\ rest \in Seq(S) /\ DOMAIN rest = 1..(n - 1) /\ \A i \in 1..(n - 1) : rest[i] = list[i + 1]
    OBVIOUS
  <1> HIDE DEF rest, n
  <1>2. ASSUME NEW i \in DOMAIN list PROVE list[i] \in {list[1]} \cup ToSet(rest)
    <2>1. CASE i # 1
      <3>1. i - 1 \in 1..(n - 1) /\ (i - 1) + 1 = i
        BY <1>1, <2>1
      <3>2. rest[i - 1] = list[i]
        BY <1>1, <3>1
      <3> QED BY <1>1, <3>1, <3>2 DEF ToSet
    <2> QED BY <2>1
  <1>3. ASSUME NEW i \in DOMAIN rest PROVE rest[i] \in ToSet(list)
    <2>1. i + 1 \in DOMAIN list
      BY <1>1
    <2> QED BY <1>1, <2>1 DEF ToSet
  <1>4. list[1] \in ToSet(list)
    BY <1>1 DEF ToSet
  <1>5. ToSet(list) = {list[1]} \cup ToSet(rest)
    BY <1>2, <1>3, <1>4 DEF ToSet
  <1> QED BY <1>1, <1>5 DEF rest

-----------------------------------------------------------------------------
(* While a plan is carried out all that no cut is meant for stands, what a   *)
(* cut has done is what the plan says, and what is left is meant.            *)

(* What the promises to a slot rest on, beyond a registered tree: a registry *)
(* checks neither that an external tree has identities of its own, nor that  *)
(* an edit in place leaves the names of siblings apart.                      *)
TreesApart == \A b \in Bases, x \in Externals : Apart(b, x)
PathsDiffer == \A b \in Bases : OnePathEach(b)

Resolving == \A i \in DOMAIN declared : TargetsResolve(base, declared[i])
RecordPlan == RecordedPlan(base, records, declared, external)

Stands ==
    /\ Standing(base, effective, external, FullSlots)
    /\ Untouched(base, effective, FullSlots, CutSlots)
    /\ \A c \in ToSet(plan) : Meant(c)
    /\ \A s \in FreeSlots(base, FullSlots) :
          Last(s) \in ToSet(slots) => s \in CutSlots /\ (graft.full => s \in FullSlots)

GraftOf(c) == FaceById(external, Resolved(external, c.graft))

Holds ==
    \A c \in ToSet(RecordPlan) :
        \/ c \in ToSet(plan)
        \/ \A s \in FreeSlots(base, FullSlots) : Last(s) \in DeclaredSlots(base, c) =>
              \/ Last(s) \in seen /\ effective.faces[s] = Candidate(GraftOf(c), base.faces[s])
              \/ Last(s) \in ToSet(slots) /\ graft.face = GraftOf(c)

CallInv ==
    /\ plan \in Seq(Cuts) /\ slots \in Seq(NodeIds)
    /\ slots # <<>> => graft.full \in BOOLEAN
    /\ asked = "recorded" => Resolving /\ OneReading
    /\ asked # "none" /\ Resolving => Stands
    /\ asked = "recorded" => Holds

CutsInv ==
    /\ OverlayInv
    /\ declared \in Seq(Declarations) /\ records \in Seq(Records)
    /\ CallInv
    /\ UntouchedRemain /\ SlotsHoldOccupants

LEMMA InputsKept ==
    ASSUME UNCHANGED inputs
    PROVE  /\ FullSlots' = FullSlots /\ CutSlots' = CutSlots /\ RecordPlan' = RecordPlan
           /\ (Resolving' <=> Resolving) /\ (OneReading' <=> OneReading)
           /\ \A c : Meant(c)' <=> Meant(c)
           /\ \A c : GraftOf(c)' = GraftOf(c)
           /\ \A s : Occupant(s)' = Occupant(s)
  <1> USE DEF inputs
  <1>1. \A s : (FullAt(s)' <=> FullAt(s)) /\ (Targeted(s)' <=> Targeted(s))
    BY DEF FullAt, Targeted
  <1>2. FullSlots' = FullSlots /\ CutSlots' = CutSlots
    BY <1>1 DEF FullSlots, CutSlots
  <1>3. RecordPlan' = RecordPlan /\ (Resolving' <=> Resolving) /\ (OneReading' <=> OneReading)
    BY DEF RecordPlan, Resolving, OneReading
  <1>4. \A c : Meant(c)' <=> Meant(c)
    BY <1>2 DEF Meant
  <1>5. \A c : GraftOf(c)' = GraftOf(c)
    BY DEF GraftOf
  <1>6. \A s : Occupant(s)' = Occupant(s)
    BY DEF Occupant
  <1> QED BY <1>2, <1>3, <1>4, <1>5, <1>6

LEMMA AnswersKept ==
    ASSUME UNCHANGED inputs, UNCHANGED <<static, recorded>>, UntouchedRemain, SlotsHoldOccupants
    PROVE  UntouchedRemain' /\ SlotsHoldOccupants'
  <1>1. /\ base' = base /\ external' = external /\ declared' = declared /\ records' = records
        /\ recorded' = recorded /\ Effective' = Effective
    BY DEF inputs, Effective
  <1>4. UntouchedRemain'
    BY <1>1 DEF UntouchedRemain, Targeted, BelowFull, FullAt
  <1>5. SlotsHoldOccupants'
    BY <1>1 DEF SlotsHoldOccupants, Targeted, BelowFull, FullAt, Occupant
  <1> QED BY <1>4, <1>5

(* A call starts from the base tree, where everything stands.                *)
LEMMA BeginStands ==
    ASSUME CutsInv, NEW cuts \in Seq(Cuts), NEW name, Begin(name, cuts),
           Resolving => \A c \in ToSet(cuts) : Meant(c),
           name = "recorded" => Resolving /\ OneReading /\ cuts = RecordPlan
    PROVE  CutsInv'
  <1>1. UNCHANGED inputs /\ UNCHANGED <<static, recorded>>
    BY DEF Begin
  <1>2. OverlayInv'
    BY InputsGrafted DEF CutsInv, Begin, inputs, OverlayInv, EffectiveWellFormed, Effective
  <1>3. /\ asked' = name /\ plan' = cuts /\ effective' = base /\ slots' = <<>>
    BY DEF Begin
  <1>4. ToSet(<<>>) = {} /\ <<>> \in Seq(NodeIds)
    BY DEF ToSet
  <1>5. Standing(base, base, external, FullSlots) /\ Untouched(base, base, FullSlots, CutSlots)
    BY DEF Standing, Untouched, FreeSlots
  <1>6. Resolving' => Stands'
    <2> SUFFICES ASSUME Resolving PROVE Stands'
      BY <1>1, InputsKept
    <2>1. base' = base /\ external' = external
      BY <1>1 DEF inputs
    <2> QED BY <1>1, <1>3, <1>4, <1>5, <2>1, InputsKept DEF Stands
  <1>7. name = "recorded" => Holds'
    BY <1>1, <1>3, InputsKept DEF Holds
  <1>8. CallInv'
    BY <1>1, <1>3, <1>4, <1>6, <1>7, InputsKept DEF CallInv
  <1>9. UntouchedRemain' /\ SlotsHoldOccupants'
    BY <1>1, AnswersKept DEF CutsInv
  <1> QED BY <1>1, <1>2, <1>8, <1>9 DEF CutsInv, inputs

LEMMA OpenKeeps ==
    ASSUME TreesApart, CutsInv, OpenCut PROVE CutsInv'
  <1> DEFINE c == Head(plan)
  <1>1. UNCHANGED inputs /\ UNCHANGED <<static, recorded, asked, effective, seen>>
    BY DEF OpenCut
  <1>2. /\ Grafted(base) /\ OneSlotEach(base) /\ Grafted(external) /\ OneSlotEach(external)
        /\ Grafted(effective) /\ Apart(base, external)
    BY InputsGrafted DEF OpenCut, CutsInv, OverlayInv, TreesApart
  <1>3. /\ plan \in Seq(Cuts) /\ plan # <<>> /\ slots = <<>> /\ asked # "none"
        /\ Resolves(external, c.graft) /\ TargetsResolve(effective, c)
        /\ plan' = Tail(plan) /\ slots' = CutTargets(effective, c)
        /\ graft' = [face |-> GraftOf(c), full |-> c.full]
    BY DEF OpenCut, CutResolves, CutsInv, CallInv, GraftOf
  <1> HIDE DEF c
  <1>4. c \in Cuts /\ plan' \in Seq(Cuts) /\ ToSet(plan) = {c} \cup ToSet(plan')
    BY <1>3, HeadAndTail DEF c
  <1>5. /\ slots' \in Seq(NodeIds) /\ ToSet(slots') = DeclaredSlots(effective, c)
    BY <1>2, <1>3, CutsFaces DEF DeclaredSlots
  <1>6. graft'.face = GraftOf(c) /\ graft'.full = c.full /\ c.full \in BOOLEAN
    BY <1>3, <1>4 DEF Cuts
  <1>7. OverlayInv'
    <2>1. \E s \in DOMAIN external.faces : graft'.face = external.faces[s]
      BY <1>2, <1>3, <1>6, ResolvedFace DEF GraftOf
    <2> QED BY <1>1, <2>1 DEF CutsInv, inputs, OverlayInv, EffectiveWellFormed, Effective
  <1>8. FullSlots \in SUBSET DOMAIN base.faces
    BY DEF FullSlots
  <1>9. ASSUME Resolving
        PROVE  /\ Stands /\ Meant(c)
               /\ \A s \in FreeSlots(base, FullSlots) :
                     Last(s) \in DeclaredSlots(base, c) <=> Last(s) \in ToSet(slots')
    <2>1. Stands /\ Meant(c)
      BY <1>3, <1>4, <1>9 DEF CutsInv, CallInv, Stands
    <2>2. TargetsResolve(base, c)
      BY <2>1 DEF Meant
    <2>3. /\ Alike(effective, base, FreeSlots(base, FullSlots))
          /\ Alike(base, effective, FreeSlots(base, FullSlots))
      <3>1. Standing(base, effective, external, FullSlots)
        BY <2>1 DEF Stands
      <3> QED BY <1>2, <1>8, <3>1, StandingAlike
    <2>4. \A s \in FreeSlots(base, FullSlots) :
             Last(s) \in DeclaredSlots(base, c) <=> Last(s) \in DeclaredSlots(effective, c)
      BY <1>2, <1>3, <1>4, <2>2, <2>3, AlikeCovered
    <2> QED BY <1>5, <2>1, <2>4
  <1>10. Resolving' => Stands'
    <2> SUFFICES ASSUME Resolving PROVE Stands'
      BY <1>1, InputsKept
    <2>1. Stands /\ base' = base /\ external' = external
      BY <1>1, <1>9 DEF inputs
    <2>2. \A d \in ToSet(plan') : Meant(d)
      BY <1>4, <2>1 DEF Stands
    <2>3. \A s \in FreeSlots(base, FullSlots) :
             Last(s) \in ToSet(slots') => s \in CutSlots /\ (graft'.full => s \in FullSlots)
      BY <1>6, <1>9 DEF Meant, FreeSlots
    <2> QED BY <1>1, <2>1, <2>2, <2>3, InputsKept DEF Stands
  <1>11. asked = "recorded" => Resolving /\ OneReading /\ Holds
    BY DEF CutsInv, CallInv
  <1>12. asked' = "recorded" => Holds'
    <2> SUFFICES ASSUME asked = "recorded" PROVE Holds'
      BY <1>1
    <2>1. base' = base /\ external' = external
      BY <1>1 DEF inputs
    <2>2. ToSet(slots) = {}
      BY <1>3 DEF ToSet
    <2>3. ASSUME NEW d \in ToSet(RecordPlan), d \notin ToSet(plan'),
                 NEW s \in FreeSlots(base, FullSlots), Last(s) \in DeclaredSlots(base, d)
          PROVE  \/ Last(s) \in seen /\ effective.faces[s] = Candidate(GraftOf(d), base.faces[s])
                 \/ Last(s) \in ToSet(slots') /\ graft'.face = GraftOf(d)
      <3>1. CASE d = c
        BY <1>6, <1>9, <1>11, <2>3, <3>1
      <3>2. CASE d # c
        <4>1. d \notin ToSet(plan)
          BY <1>4, <2>3, <3>2
        <4> QED BY <1>11, <2>2, <2>3, <4>1 DEF Holds
      <3> QED BY <3>1, <3>2
    <2>4. Holds' <=> \A d \in ToSet(RecordPlan) :
              \/ d \in ToSet(plan')
              \/ \A s \in FreeSlots(base, FullSlots) : Last(s) \in DeclaredSlots(base, d) =>
                    \/ Last(s) \in seen /\ effective.faces[s] = Candidate(GraftOf(d), base.faces[s])
                    \/ Last(s) \in ToSet(slots') /\ graft'.face = GraftOf(d)
      BY <1>1, <2>1, InputsKept DEF Holds
    <2> QED BY <2>3, <2>4
  <1>13. CallInv'
    BY <1>1, <1>4, <1>5, <1>6, <1>10, <1>11, <1>12, InputsKept DEF CallInv
  <1>14. UntouchedRemain' /\ SlotsHoldOccupants'
    BY <1>1, AnswersKept DEF CutsInv
  <1> QED BY <1>1, <1>7, <1>13, <1>14 DEF CutsInv, inputs

LEMMA GraftSlotKeeps ==
    ASSUME TreesApart, CutsInv, GraftSlot PROVE CutsInv'
  <1> DEFINE target == Head(slots)
  <1>1. UNCHANGED inputs /\ UNCHANGED <<static, recorded, asked, plan, graft>>
    BY DEF GraftSlot
  <1>2. /\ Grafted(base) /\ OneSlotEach(base) /\ Grafted(external) /\ OneSlotEach(external)
        /\ Grafted(effective) /\ Apart(base, external)
    BY InputsGrafted DEF GraftSlot, CutsInv, OverlayInv, TreesApart
  <1>3. PICK from \in DOMAIN external.faces : graft.face = external.faces[from]
    BY DEF GraftSlot, CutsInv, OverlayInv
  <1>4. /\ slots \in Seq(NodeIds) /\ slots # <<>> /\ asked # "none" /\ graft.full \in BOOLEAN
        /\ target \notin seen /\ CanGraft(effective, target, external.faces[from], graft.full)
        /\ effective' = ApplyOverlayFace(effective, target, external.faces[from], graft.full, external)
        /\ seen' = seen \cup {target} /\ slots' = Tail(slots)
    BY <1>3 DEF GraftSlot, SlotTakes, CutsInv, CallInv
  <1> HIDE DEF target
  <1>5. slots' \in Seq(NodeIds) /\ ToSet(slots) = {target} \cup ToSet(slots')
    BY <1>4, HeadAndTail DEF target
  <1>6. slots' # <<>> => slots # <<>>
    BY <1>4
  <1>7. OverlayInv'
    <2>1. Grafted(effective')
      BY <1>2, <1>4, GraftKeeps
    <2> QED BY <1>1, <1>3, <2>1 DEF CutsInv, inputs, OverlayInv, EffectiveWellFormed, Effective
  <1>8. FullSlots \in SUBSET DOMAIN base.faces
    BY DEF FullSlots
  <1>9. ASSUME Resolving
        PROVE  /\ Stands
               /\ Standing(base, effective', external, FullSlots)
               /\ Untouched(base, effective', FullSlots, CutSlots)
               /\ \A s \in FreeSlots(base, FullSlots) :
                     effective'.faces[s] = IF Last(s) = target
                                           THEN Candidate(external.faces[from], base.faces[s])
                                           ELSE effective.faces[s]
    <2>1. Stands
      BY <1>4, <1>9 DEF CutsInv, CallInv
    <2>2. /\ Standing(base, effective, external, FullSlots)
          /\ Untouched(base, effective, FullSlots, CutSlots)
          /\ \A s \in FreeSlots(base, FullSlots) :
                Last(s) = target => s \in CutSlots /\ (graft.full => s \in FullSlots)
      BY <1>5, <2>1 DEF Stands
    <2>3. graft.full \in BOOLEAN
      BY <1>4
    <2> DEFINE u == ApplyOverlayFace(effective, target, external.faces[from], graft.full, external)
    <2>4. /\ Standing(base, u, external, FullSlots) /\ Untouched(base, u, FullSlots, CutSlots)
          /\ \A s \in FreeSlots(base, FullSlots) :
                u.faces[s] = IF Last(s) = target THEN Candidate(external.faces[from], base.faces[s])
                                                 ELSE effective.faces[s]
      <3>1. ASSUME NEW whole \in BOOLEAN, whole = graft.full
            PROVE  /\ CanGraft(effective, target, external.faces[from], whole)
                   /\ \A s \in FreeSlots(base, FullSlots) :
                         Last(s) = target => s \in CutSlots /\ (whole => s \in FullSlots)
                   /\ u = ApplyOverlayFace(effective, target, external.faces[from], whole, external)
        BY <1>4, <2>2, <3>1
      <3> HIDE DEF u
      <3>2. ASSUME NEW whole \in BOOLEAN, whole = graft.full
            PROVE  /\ Standing(base, u, external, FullSlots) /\ Untouched(base, u, FullSlots, CutSlots)
                   /\ \A s \in FreeSlots(base, FullSlots) :
                         u.faces[s] = IF Last(s) = target THEN Candidate(external.faces[from], base.faces[s])
                                                          ELSE effective.faces[s]
        BY <1>2, <1>8, <2>2, <3>1, <3>2, StandingKept
      <3> QED BY <2>3, <3>2
    <2>5. effective' = u
      BY <1>4
    <2> HIDE DEF u
    <2> QED BY <2>1, <2>4, <2>5
  <1>10. Resolving' => Stands'
    <2> SUFFICES ASSUME Resolving PROVE Stands'
      BY <1>1, InputsKept
    <2>1. base' = base /\ external' = external
      BY <1>1 DEF inputs
    <2>2. /\ \A d \in ToSet(plan) : Meant(d)
          /\ \A s \in FreeSlots(base, FullSlots) :
                Last(s) \in ToSet(slots') => s \in CutSlots /\ (graft.full => s \in FullSlots)
      BY <1>5, <1>9 DEF Stands
    <2>3. Standing(base, effective', external, FullSlots) /\ Untouched(base, effective', FullSlots, CutSlots)
      BY <1>9
    <2> QED BY <1>1, <2>1, <2>2, <2>3, InputsKept DEF Stands
  <1>11. asked = "recorded" => Resolving /\ OneReading /\ Holds
    BY DEF CutsInv, CallInv
  <1>12. asked' = "recorded" => Holds'
    <2> SUFFICES ASSUME asked = "recorded" PROVE Holds'
      BY <1>1
    <2>1. base' = base /\ external' = external
      BY <1>1 DEF inputs
    <2>2. ASSUME NEW d \in ToSet(RecordPlan), d \notin ToSet(plan),
                 NEW s \in FreeSlots(base, FullSlots), Last(s) \in DeclaredSlots(base, d)
          PROVE  \/ Last(s) \in seen' /\ effective'.faces[s] = Candidate(GraftOf(d), base.faces[s])
                 \/ Last(s) \in ToSet(slots') /\ graft.face = GraftOf(d)
      <3>1. \/ Last(s) \in seen /\ effective.faces[s] = Candidate(GraftOf(d), base.faces[s])
            \/ Last(s) \in ToSet(slots) /\ graft.face = GraftOf(d)
        BY <1>11, <2>2 DEF Holds
      <3>2. CASE Last(s) = target
        BY <1>3, <1>4, <1>9, <1>11, <3>1, <3>2
      <3>3. CASE Last(s) # target
        BY <1>4, <1>5, <1>9, <1>11, <3>1, <3>3
      <3> QED BY <3>2, <3>3
    <2>3. Holds' <=> \A d \in ToSet(RecordPlan) :
              \/ d \in ToSet(plan)
              \/ \A s \in FreeSlots(base, FullSlots) : Last(s) \in DeclaredSlots(base, d) =>
                    \/ Last(s) \in seen' /\ effective'.faces[s] = Candidate(GraftOf(d), base.faces[s])
                    \/ Last(s) \in ToSet(slots') /\ graft.face = GraftOf(d)
      BY <1>1, <2>1, InputsKept DEF Holds
    <2> QED BY <2>2, <2>3
  <1>13. CallInv'
    BY <1>1, <1>4, <1>5, <1>6, <1>10, <1>11, <1>12, InputsKept DEF CutsInv, CallInv
  <1>14. UntouchedRemain' /\ SlotsHoldOccupants'
    BY <1>1, AnswersKept DEF CutsInv
  <1> QED BY <1>1, <1>7, <1>13, <1>14 DEF CutsInv, inputs

LEMMA CallKept ==
    ASSUME CallInv, UNCHANGED inputs, UNCHANGED asking
    PROVE  CallInv'
  <1>1. /\ asked' = asked /\ plan' = plan /\ graft' = graft /\ slots' = slots
        /\ effective' = effective /\ seen' = seen /\ base' = base /\ external' = external
    BY DEF inputs, asking
  <1>2. Stands' <=> Stands
    BY <1>1, InputsKept DEF Stands
  <1>3. Holds' <=> Holds
    BY <1>1, InputsKept DEF Holds
  <1> QED BY <1>1, <1>2, <1>3, InputsKept DEF CallInv

(* What a call answers, when it does not refuse, is the tree it has made.    *)
LEMMA AnswerKeeps ==
    ASSUME PathsDiffer, CutsInv, NEW given, Answer(given), asked # "none",
           \/ given = Refused
           \/ given = effective /\ slots = <<>> /\ plan = <<>>
    PROVE  CutsInv'
  <1>1. /\ UNCHANGED inputs /\ asked' = "none" /\ plan' = <<>> /\ slots' = <<>>
        /\ static' = IF asked = "static" THEN given ELSE static
        /\ recorded' = IF asked = "recorded" THEN given ELSE recorded
    BY DEF Answer
  <1>2. /\ base' = base /\ external' = external /\ declared' = declared /\ records' = records
        /\ base \in Bases
    BY <1>1 DEF inputs, CutsInv, OverlayInv
  <1>3. OverlayInv'
    <2>1. given = Refused \/ WellFormed(given)
      BY DEF CutsInv, OverlayInv, Grafted
    <2> QED BY <2>1 DEF Answer, inputs, CutsInv, OverlayInv, EffectiveWellFormed, Effective
  <1>4. <<>> \in Seq(Cuts) /\ <<>> \in Seq(NodeIds) /\ ToSet(<<>>) = {}
    BY DEF ToSet
  <1>5. CallInv'
    BY <1>1, <1>4 DEF CallInv
  <1>6. \A s \in DOMAIN base.faces : s \in FreeSlots(base, FullSlots) <=> ~BelowFull(s)
    BY DEF FreeSlots, FullSlots, BelowFull
  <1>7. ASSUME Resolving, given # Refused
        PROVE  \A s \in DOMAIN base.faces : ~Targeted(s) /\ ~BelowFull(s) =>
                  /\ s \in DOMAIN given.faces /\ given.faces[s] = base.faces[s]
                  /\ s \in DOMAIN base.regs => s \in DOMAIN given.regs /\ given.regs[s] = base.regs[s]
    <2>1. /\ Standing(base, given, external, FullSlots)
          /\ Untouched(base, given, FullSlots, CutSlots)
      BY <1>7 DEF CutsInv, CallInv, Stands
    <2>2. \A s \in DOMAIN base.faces : s \in CutSlots <=> Targeted(s)
      BY DEF CutSlots
    <2>3. \A s \in FreeSlots(base, FullSlots) : s \in DOMAIN given.faces
      BY <2>1 DEF Standing
    <2> QED BY <1>6, <2>1, <2>2, <2>3 DEF Untouched
  <1>8. UntouchedRemain'
    <2>1. UntouchedRemain' <=>
            (Resolving => \A t \in Effective' : \A s \in DOMAIN base.faces : ~Targeted(s) /\ ~BelowFull(s) =>
                  /\ s \in DOMAIN t.faces /\ t.faces[s] = base.faces[s]
                  /\ s \in DOMAIN base.regs => s \in DOMAIN t.regs /\ t.regs[s] = base.regs[s])
      BY <1>2 DEF UntouchedRemain, Resolving, Targeted, BelowFull, FullAt
    <2>2. \A t \in Effective' : t \in Effective \/ (t = given /\ given # Refused)
      BY <1>1 DEF Effective
    <2>3. Resolving => \A t \in Effective : \A s \in DOMAIN base.faces : ~Targeted(s) /\ ~BelowFull(s) =>
                  /\ s \in DOMAIN t.faces /\ t.faces[s] = base.faces[s]
                  /\ s \in DOMAIN base.regs => s \in DOMAIN t.regs /\ t.regs[s] = base.regs[s]
      BY DEF CutsInv, UntouchedRemain, Resolving
    <2> QED BY <1>7, <2>1, <2>2, <2>3
  <1>9. ASSUME asked = "recorded", given # Refused, NEW s \in DOMAIN base.faces,
               Targeted(s), ~BelowFull(s)
        PROVE  given.faces[s] = Candidate(FaceById(external, Resolved(external, Occupant(s))),
                                          base.faces[s])
    <2>1. Resolving /\ Holds /\ Asking /\ OneReading
      BY <1>9 DEF CutsInv, CallInv, Asking, Resolving
    <2>2. Grafted(base) /\ OneSlotEach(base) /\ OnePathEach(base)
      BY <1>2, InputsGrafted DEF PathsDiffer
    <2>3. PICK c \in ToSet(RecordPlan) : Last(s) \in DeclaredSlots(base, c) /\ c.graft = Occupant(s)
      BY <1>9, <2>1, <2>2, OccupantPlanned DEF RecordPlan
    <2>4. ToSet(plan) = {} /\ ToSet(slots) = {} /\ given = effective
      BY <1>4, <1>9
    <2>5. s \in FreeSlots(base, FullSlots)
      BY <1>6, <1>9
    <2>6. given.faces[s] = Candidate(GraftOf(c), base.faces[s])
      BY <2>1, <2>3, <2>4, <2>5 DEF Holds
    <2> QED BY <2>3, <2>6 DEF GraftOf
  <1>10. SlotsHoldOccupants'
    <2>1. SlotsHoldOccupants' <=>
            (recorded' \in Effective' => \A s \in DOMAIN base.faces : Targeted(s) /\ ~BelowFull(s) =>
                recorded'.faces[s] = Candidate(FaceById(external, Resolved(external, Occupant(s))),
                                               base.faces[s]))
      BY <1>2 DEF SlotsHoldOccupants, Targeted, BelowFull, FullAt, Occupant
    <2>2. recorded' \in Effective' => recorded' # NotAsked /\ recorded' # Refused
      BY DEF Effective
    <2>3. CASE asked = "recorded"
      BY <1>1, <1>9, <2>1, <2>2, <2>3
    <2>4. CASE asked # "recorded"
      <3>1. recorded' = recorded
        BY <1>1, <2>4
      <3>2. recorded # NotAsked /\ recorded # Refused => recorded \in Effective
        BY DEF Effective
      <3> QED BY <2>1, <2>2, <3>1, <3>2 DEF CutsInv, SlotsHoldOccupants
    <2> QED BY <2>3, <2>4
  <1> QED BY <1>2, <1>3, <1>5, <1>8, <1>10 DEF CutsInv

LEMMA CutsInitInv == OverlayInit => CutsInv
  <1> SUFFICES ASSUME OverlayInit PROVE CutsInv
    OBVIOUS
  <1>1. /\ declared = <<>> /\ records = <<>> /\ static = NotAsked /\ recorded = NotAsked
        /\ asked = "none" /\ plan = <<>> /\ slots = <<>>
    BY DEF OverlayInit
  <1>2. CallInv
    BY <1>1 DEF CallInv
  <1>3. Effective = {}
    BY <1>1 DEF Effective
  <1> QED BY <1>1, <1>2, <1>3, OverlayInitInv DEF CutsInv, UntouchedRemain, SlotsHoldOccupants

LEMMA CutsNextInv ==
    ASSUME TreesApart, PathsDiffer, CutsInv, [OverlayNext]_overlayVars
    PROVE  CutsInv'
  <1>1. OverlayInv'
    BY OverlayNextInv DEF CutsInv
  <1>2. /\ declared \in Seq(Declarations) /\ records \in Seq(Records)
        /\ declared \in Seq(Cuts) /\ records \in Seq(RecordedGrafts)
    BY OverlayAssumption DEF CutsInv
  <1>3. Grafted(base) /\ OneSlotEach(base) /\ OnePathEach(base)
    BY InputsGrafted DEF CutsInv, OverlayInv, PathsDiffer
  <1>4. CASE Declare \/ FindRecord
    <2>1. /\ static' = static /\ recorded' = recorded /\ static = NotAsked /\ recorded = NotAsked
          /\ asked = "none" /\ UNCHANGED asking
      BY <1>4 DEF Declare, FindRecord, Asked
    <2>2. declared' \in Seq(Declarations) /\ records' \in Seq(Records)
      <3>1. CASE Declare
        <4>1. PICK cut \in Declarations : declared' = Append(declared, cut)
          BY <3>1 DEF Declare
        <4>2. records' = records
          BY <3>1 DEF Declare
        <4> QED BY <1>2, <4>1, <4>2
      <3>2. CASE FindRecord
        <4>1. PICK record \in Records : records' = Append(records, record)
          BY <3>2 DEF FindRecord
        <4>2. declared' = declared
          BY <3>2 DEF FindRecord
        <4> QED BY <1>2, <4>1, <4>2
      <3> QED BY <1>4, <3>1, <3>2
    <2>3. CallInv'
      BY <2>1 DEF CutsInv, CallInv, asking
    <2>4. Effective' = {}
      BY <2>1 DEF Effective
    <2> QED BY <1>1, <2>2, <2>3, <2>4 DEF CutsInv, UntouchedRemain, SlotsHoldOccupants
  <1>5. ASSUME UNCHANGED inputs, UNCHANGED asking, Effective' = Effective,
               recorded' = recorded \/ recorded' = Refused
        PROVE  CutsInv'
    <2>1. /\ base' = base /\ external' = external /\ declared' = declared /\ records' = records
      BY <1>5 DEF inputs
    <2>2. CallInv'
      BY <1>5, CallKept DEF CutsInv
    <2>3. UntouchedRemain'
      BY <1>5, <2>1 DEF CutsInv, UntouchedRemain, Targeted, BelowFull, FullAt
    <2>4. SlotsHoldOccupants'
      <3>1. CASE recorded' = recorded
        <4>1. SlotsHoldOccupants /\ Effective' = Effective
          BY <1>5 DEF CutsInv
        <4> QED BY <2>1, <3>1, <4>1 DEF SlotsHoldOccupants, Targeted, BelowFull, FullAt, Occupant
      <3>2. CASE recorded' = Refused
        BY <3>2 DEF SlotsHoldOccupants, Effective
      <3> QED BY <1>5, <3>1, <3>2
    <2> QED BY <1>1, <1>2, <2>1, <2>2, <2>3, <2>4 DEF CutsInv
  <1>6. CASE AskStatic
    <2>1. CASE base.framework = external.framework
      <3>1. Begin("static", declared)
        BY <1>6, <2>1 DEF AskStatic
      <3>2. Resolving => Asking
        BY <1>2 DEF Asking, Resolving
      <3>3. Resolving => \A c \in ToSet(declared) : Meant(c)
        BY <1>3, <3>2, DeclaredMeant DEF ToSet
      <3> QED BY <1>2, <3>1, <3>3, BeginStands
    <2>2. CASE base.framework # external.framework
      BY <1>5, <1>6, <2>2 DEF AskStatic, inputs, asking, Effective
    <2> QED BY <2>1, <2>2
  <1>7. CASE AskRecorded
    <2> DEFINE go == /\ Resolving /\ \A i \in DOMAIN records : ~Contradicts(base, records[i])
                     /\ base.framework = external.framework
    <2>1. CASE go
      <3>1. Begin("recorded", RecordPlan)
        BY <1>7, <2>1 DEF AskRecorded, RecordPlan, Resolving
      <3>2. Asking
        BY <1>2, <2>1 DEF Asking, Resolving
      <3>3. RecordPlan \in Seq(Cuts)
        BY <1>2, <1>3, <3>2, PlanParts DEF RecordPlan, Asking
      <3>4. \A c \in ToSet(RecordPlan) : Meant(c)
        BY <1>3, <3>2, PlannedMeant DEF RecordPlan
      <3>5. OneReading
        BY <2>1 DEF OneReading, Contradicts
      <3> QED BY <2>1, <3>1, <3>3, <3>4, <3>5, BeginStands
    <2>2. CASE ~go
      <3>1. recorded' = Refused /\ recorded = NotAsked /\ UNCHANGED <<inputs, static, asking>>
        BY <1>7, <2>2 DEF AskRecorded, Resolving
      <3> QED BY <1>5, <3>1 DEF Effective
    <2> QED BY <2>1, <2>2
  <1>8. CASE OpenCut
    BY <1>8, OpenKeeps
  <1>9. CASE GraftSlot
    BY <1>9, GraftSlotKeeps
  <1>10. CASE RefusePlan
    BY <1>10, AnswerKeeps DEF RefusePlan
  <1>11. CASE ReturnTree
    BY <1>11, AnswerKeeps DEF ReturnTree
  <1>12. CASE UNCHANGED overlayVars
    BY <1>5, <1>12 DEF overlayVars, inputs, asking, Effective
  <1> QED BY <1>4, <1>6, <1>7, <1>8, <1>9, <1>10, <1>11, <1>12 DEF OverlayNext

(* A cut changes its own slot: "the target's untouched siblings and child    *)
(* registry remain" (overlay.rs:92-93).  Whatever is declared and recorded, a *)
(* base slot that is not declared and not below a "full" one has its face and *)
(* its registry in an effective tree, if the external tree has identities of  *)
(* its own and a path of the base tree names one entry.                      *)
THEOREM UntouchedSlotsRemain ==
    ASSUME TreesApart, PathsDiffer
    PROVE  OverlaySpec => []UntouchedRemain
  <1>1. CutsInv => UntouchedRemain
    BY DEF CutsInv
  <1>2. CutsInv /\ [OverlayNext]_overlayVars => CutsInv'
    BY CutsNextInv
  <1> QED BY <1>1, <1>2, CutsInitInv, PTL DEF OverlaySpec

-----------------------------------------------------------------------------
(* What a plan comes to is settled by the two trees and the plan: a call is  *)
(* a run of its steps, one after another, to where no step can be taken.     *)

Live(c, x) ==
    IF c.slots = <<>>
    THEN /\ c.plan # <<>> /\ Resolves(x, Head(c.plan).graft)
         /\ TargetsResolve(c.effective, Head(c.plan))
    ELSE /\ Head(c.slots) \notin c.seen
         /\ CanGraft(c.effective, Head(c.slots), c.graft.face, c.graft.full)

After(c, x) ==
    IF c.slots = <<>>
    THEN [plan |-> Tail(c.plan), slots |-> CutTargets(c.effective, Head(c.plan)),
          graft |-> [face |-> FaceById(x, Resolved(x, Head(c.plan).graft)), full |-> Head(c.plan).full],
          effective |-> c.effective, seen |-> c.seen]
    ELSE [plan |-> c.plan, slots |-> Tail(c.slots), graft |-> c.graft,
          effective |-> ApplyOverlayFace(c.effective, Head(c.slots), c.graft.face, c.graft.full, x),
          seen |-> c.seen \cup {Head(c.slots)}]

Result(c, x) ==
    IF c.slots = <<>> /\ c.plan = <<>> /\ Connected(c.effective, x) THEN c.effective ELSE Refused

Start(b, cuts) ==
    [plan |-> cuts, slots |-> <<>>, graft |-> NotAsked, effective |-> b, seen |-> {}]

RunsTo(w, n, b, x, cuts) ==
    /\ n \in Nat /\ w[0] = Start(b, cuts)
    /\ \A i \in Nat : i < n => Live(w[i], x) /\ w[i + 1] = After(w[i], x)

Reached(c, b, x, cuts) == \E n \in Nat : \E w : RunsTo(w, n, b, x, cuts) /\ w[n] = c

Answered(given, b, x, cuts) ==
    IF b.framework = x.framework
    THEN \E c : Reached(c, b, x, cuts) /\ ~Live(c, x) /\ given = Result(c, x)
    ELSE given = Refused

LEMMA ReachedStart ==
    ASSUME NEW b, NEW x, NEW cuts
    PROVE  Reached(Start(b, cuts), b, x, cuts)
  <1> DEFINE w == [i \in {0} |-> Start(b, cuts)]
  <1>1. RunsTo(w, 0, b, x, cuts) /\ w[0] = Start(b, cuts)
    BY DEF RunsTo
  <1> QED BY <1>1 DEF Reached

LEMMA ReachedAfter ==
    ASSUME NEW b, NEW x, NEW cuts, NEW c, Reached(c, b, x, cuts), Live(c, x)
    PROVE  Reached(After(c, x), b, x, cuts)
  <1>1. PICK n \in Nat : \E w : RunsTo(w, n, b, x, cuts) /\ w[n] = c
    BY DEF Reached
  <1>2. PICK w : RunsTo(w, n, b, x, cuts) /\ w[n] = c
    BY <1>1
  <1> DEFINE v == [i \in 0..(n + 1) |-> IF i <= n THEN w[i] ELSE After(c, x)]
  <1>3. \A i \in Nat : (i <= n => v[i] = w[i]) /\ (i = n + 1 => v[i] = After(c, x))
    OBVIOUS
  <1> HIDE DEF v
  <1>4. \A i \in Nat : i < n + 1 => Live(v[i], x) /\ v[i + 1] = After(v[i], x)
    <2> SUFFICES ASSUME NEW i \in Nat, i < n + 1 PROVE Live(v[i], x) /\ v[i + 1] = After(v[i], x)
      OBVIOUS
    <2>1. v[i] = w[i]
      BY <1>3
    <2>2. CASE i < n
      <3>1. v[i + 1] = w[i + 1]
        BY <1>3, <2>2
      <3> QED BY <1>2, <2>1, <2>2, <3>1 DEF RunsTo
    <2>3. CASE i = n
      <3>1. v[i + 1] = After(c, x)
        BY <1>3, <2>3
      <3> QED BY <1>2, <2>1, <2>3, <3>1
    <2> QED BY <2>2, <2>3
  <1>5. v[0] = w[0] /\ v[n + 1] = After(c, x) /\ n + 1 \in Nat
    BY <1>3
  <1>6. RunsTo(v, n + 1, b, x, cuts)
    BY <1>2, <1>4, <1>5 DEF RunsTo
  <1> QED BY <1>5, <1>6 DEF Reached

LEMMA RunsAgree ==
    ASSUME NEW b, NEW x, NEW cuts, NEW n \in Nat, NEW w, NEW m \in Nat, NEW v,
           RunsTo(w, n, b, x, cuts), RunsTo(v, m, b, x, cuts), n <= m
    PROVE  w[n] = v[n]
  <1> DEFINE Bad == {i \in Nat : i <= n /\ w[i] # v[i]}
  <1>1. SUFFICES ASSUME Bad # {} PROVE FALSE
    OBVIOUS
  <1>2. PICK i \in Bad : \A k \in Bad : i <= k
    <2>1. Bad \in SUBSET Nat
      OBVIOUS
    <2> HIDE DEF Bad
    <2> QED BY <1>1, <2>1, LeastNat
  <1>3. i \in Nat /\ i <= n /\ w[i] # v[i]
    OBVIOUS
  <1>4. i # 0
    BY <1>3 DEF RunsTo
  <1>5. i - 1 \in Nat /\ i - 1 < n /\ i - 1 < m /\ (i - 1) + 1 = i /\ ~(i <= i - 1)
    BY <1>3, <1>4
  <1>6. w[i - 1] = v[i - 1]
    BY <1>2, <1>5
  <1>7. w[i] = After(w[i - 1], x) /\ v[i] = After(v[i - 1], x)
    BY <1>5 DEF RunsTo
  <1> QED BY <1>3, <1>6, <1>7

LEMMA AnsweredOnce ==
    ASSUME NEW b, NEW x, NEW cuts, NEW one, Answered(one, b, x, cuts),
           NEW other, Answered(other, b, x, cuts)
    PROVE  one = other
  <1>1. CASE b.framework # x.framework
    BY <1>1 DEF Answered
  <1>2. CASE b.framework = x.framework
    <2>1. PICK c : Reached(c, b, x, cuts) /\ ~Live(c, x) /\ one = Result(c, x)
      BY <1>2 DEF Answered
    <2>2. PICK d : Reached(d, b, x, cuts) /\ ~Live(d, x) /\ other = Result(d, x)
      BY <1>2 DEF Answered
    <2>3. PICK n \in Nat : \E w : RunsTo(w, n, b, x, cuts) /\ w[n] = c
      BY <2>1 DEF Reached
    <2>4. PICK w : RunsTo(w, n, b, x, cuts) /\ w[n] = c
      BY <2>3
    <2>5. PICK m \in Nat : \E v : RunsTo(v, m, b, x, cuts) /\ v[m] = d
      BY <2>2 DEF Reached
    <2>6. PICK v : RunsTo(v, m, b, x, cuts) /\ v[m] = d
      BY <2>5
    <2>7. n <= m => w[n] = v[n]
      BY <2>4, <2>6, RunsAgree
    <2>8. m <= n => v[m] = w[m]
      BY <2>4, <2>6, RunsAgree
    <2>9. ~(n < m)
      BY <2>1, <2>4, <2>6, <2>7 DEF RunsTo
    <2>10. ~(m < n)
      BY <2>2, <2>4, <2>6, <2>8 DEF RunsTo
    <2>11. n = m
      BY <2>9, <2>10
    <2> QED BY <2>1, <2>2, <2>4, <2>6, <2>7, <2>11
  <1> QED BY <1>1, <1>2

-----------------------------------------------------------------------------
(* When no record's graft is found, a recorded plan is the declared one.     *)

NoneFound ==
    /\ Resolving
    /\ \A i \in DOMAIN records :
          ~Resolves(external, records[i].graft) /\ ~Contradicts(base, records[i])

LEMMA NoneFoundPlan ==
    ASSUME declared \in Seq(Declarations), records \in Seq(Records), NoneFound
    PROVE  RecordPlan = declared
  <1> DEFINE W == Winners(base, records, declared, external)
  <1>1. declared \in Seq(Cuts) /\ records \in Seq(RecordedGrafts)
    BY OverlayAssumption
  <1>2. W \in Seq(RecordedGrafts) /\ ToSet(W) = {}
    <2>1. \A i \in DOMAIN records : ~Wins(base, declared, external, records[i])
      BY DEF NoneFound, Wins
    <2> QED BY <1>1, <2>1, FoundWinners
  <1> HIDE DEF W
  <1>3. DOMAIN W = {}
    BY <1>2 DEF ToSet
  <1>4. \A cut : SplitCut(base, cut, W) = <<cut>>
    BY <1>3 DEF SplitCut
  <1> DEFINE parts == [i \in DOMAIN declared |-> SplitCut(base, declared[i], W)]
  <1>5. RecordPlan = FlattenSeq(parts)
    BY DEF RecordPlan, RecordedPlan, W
  <1>6. parts = [i \in DOMAIN declared |-> <<declared[i]>>]
    BY <1>4
  <1> QED BY <1>1, <1>5, <1>6, FlattenSingles

Config == [plan |-> plan, slots |-> slots, graft |-> graft, effective |-> effective, seen |-> seen]

RunInv ==
    /\ declared \in Seq(Declarations) /\ records \in Seq(Records)
    /\ NoneFound =>
          /\ asked # "none" => /\ base.framework = external.framework
                               /\ Reached(Config, base, external, declared)
          /\ static # NotAsked => Answered(static, base, external, declared)
          /\ recorded # NotAsked => Answered(recorded, base, external, declared)

LEMMA RunInitInv == OverlayInit => RunInv
  BY DEF OverlayInit, RunInv

LEMMA RunNextInv == RunInv /\ [OverlayNext]_overlayVars => RunInv'
  <1> SUFFICES ASSUME RunInv, [OverlayNext]_overlayVars PROVE RunInv'
    OBVIOUS
  <1>1. CASE Declare \/ FindRecord
    <2>1. static' = NotAsked /\ recorded' = NotAsked /\ asked' = "none"
      BY <1>1 DEF Declare, FindRecord, Asked, asking
    <2>2. declared' \in Seq(Declarations) /\ records' \in Seq(Records)
      <3>1. CASE Declare
        <4>1. PICK cut \in Declarations : declared' = Append(declared, cut)
          BY <3>1 DEF Declare
        <4>2. records' = records
          BY <3>1 DEF Declare
        <4> QED BY <4>1, <4>2 DEF RunInv
      <3>2. CASE FindRecord
        <4>1. PICK record \in Records : records' = Append(records, record)
          BY <3>2 DEF FindRecord
        <4>2. declared' = declared
          BY <3>2 DEF FindRecord
        <4> QED BY <4>1, <4>2 DEF RunInv
      <3> QED BY <1>1, <3>1, <3>2
    <2> QED BY <2>1, <2>2 DEF RunInv
  <1>2. CASE ~(Declare \/ FindRecord)
    <2>1. UNCHANGED inputs
      BY <1>2 DEF OverlayNext, AskStatic, AskRecorded, Begin, OpenCut, GraftSlot, RefusePlan,
                  ReturnTree, Answer, overlayVars
    <2>2. /\ base' = base /\ external' = external /\ declared' = declared /\ records' = records
          /\ NoneFound' <=> NoneFound
      BY <2>1 DEF inputs, NoneFound, Resolving
    <2>3. SUFFICES ASSUME NoneFound
                   PROVE  /\ asked' # "none" => /\ base.framework = external.framework
                                                /\ Reached(Config', base, external, declared)
                          /\ static' # NotAsked => Answered(static', base, external, declared)
                          /\ recorded' # NotAsked => Answered(recorded', base, external, declared)
      BY <2>2 DEF RunInv
    <2>4. /\ asked # "none" => /\ base.framework = external.framework
                               /\ Reached(Config, base, external, declared)
          /\ static # NotAsked => Answered(static, base, external, declared)
          /\ recorded # NotAsked => Answered(recorded, base, external, declared)
      BY <2>3 DEF RunInv
    <2>5. \A name : Begin(name, declared) => Config' = Start(base, declared)
      BY DEF Begin, Config, Start
    <2>6. ASSUME NEW name, Begin(name, declared), base.framework = external.framework
          PROVE  /\ Reached(Config', base, external, declared)
                 /\ static' = static /\ recorded' = recorded
      <3>1. Reached(Config', base, external, declared)
        BY <2>5, <2>6, ReachedStart
      <3> QED BY <2>6, <3>1 DEF Begin
    <2>7. CASE AskStatic
      <3>1. CASE base.framework = external.framework
        BY <2>4, <2>6, <2>7, <3>1 DEF AskStatic
      <3>2. CASE base.framework # external.framework
        <4>1. static' = Refused /\ recorded' = recorded /\ asked' = "none"
          BY <2>7, <3>2 DEF AskStatic, asking
        <4> QED BY <2>4, <3>2, <4>1 DEF Answered
      <3> QED BY <3>1, <3>2
    <2>8. CASE AskRecorded
      <3>1. CASE base.framework = external.framework
        <4>1. Begin("recorded", RecordPlan)
          BY <2>3, <2>8, <3>1 DEF AskRecorded, NoneFound, Resolving, RecordPlan
        <4>2. RecordPlan = declared
          BY <2>3, NoneFoundPlan DEF RunInv
        <4>3. Begin("recorded", declared)
          BY <4>1, <4>2
        <4> QED BY <2>4, <2>6, <3>1, <4>3
      <3>2. CASE base.framework # external.framework
        <4>1. recorded' = Refused /\ static' = static /\ asked' = "none"
          BY <2>8, <3>2 DEF AskRecorded, asking
        <4> QED BY <2>4, <3>2, <4>1 DEF Answered
      <3> QED BY <3>1, <3>2
    <2> DEFINE c == Config
    <2>9. /\ c.plan = plan /\ c.slots = slots /\ c.graft = graft /\ c.effective = effective
          /\ c.seen = seen
      BY DEF Config
    <2>10. /\ c' = [plan |-> plan', slots |-> slots', graft |-> graft', effective |-> effective', seen |-> seen']
      BY DEF Config
    <2>11. CASE OpenCut
      <3>1. /\ asked # "none" /\ slots = <<>> /\ asked' = asked /\ static' = static /\ recorded' = recorded
            /\ plan # <<>> /\ Resolves(external, Head(plan).graft) /\ TargetsResolve(effective, Head(plan))
            /\ plan' = Tail(plan) /\ slots' = CutTargets(effective, Head(plan))
            /\ graft' = [face |-> FaceById(external, Resolved(external, Head(plan).graft)),
                         full |-> Head(plan).full]
            /\ effective' = effective /\ seen' = seen
        BY <2>11 DEF OpenCut, CutResolves
      <3> HIDE DEF c
      <3>2. Live(c, external) /\ After(c, external) = c'
        BY <2>9, <2>10, <3>1 DEF Live, After
      <3> QED BY <2>4, <3>1, <3>2, ReachedAfter DEF c
    <2>12. CASE GraftSlot
      <3>1. /\ asked # "none" /\ slots # <<>> /\ asked' = asked /\ static' = static /\ recorded' = recorded
            /\ Head(slots) \notin seen /\ CanGraft(effective, Head(slots), graft.face, graft.full)
            /\ effective' = ApplyOverlayFace(effective, Head(slots), graft.face, graft.full, external)
            /\ plan' = plan /\ slots' = Tail(slots) /\ graft' = graft /\ seen' = seen \cup {Head(slots)}
        BY <2>12 DEF GraftSlot, SlotTakes
      <3> HIDE DEF c
      <3>2. Live(c, external) /\ After(c, external) = c'
        BY <2>9, <2>10, <3>1 DEF Live, After
      <3> QED BY <2>4, <3>1, <3>2, ReachedAfter DEF c
    <2>13. ASSUME NEW given, Answer(given), asked # "none", ~Live(c, external), given = Result(c, external)
           PROVE  /\ asked' = "none"
                  /\ static' # NotAsked => Answered(static', base, external, declared)
                  /\ recorded' # NotAsked => Answered(recorded', base, external, declared)
      <3>1. /\ asked' = "none" /\ static' \in {given, static} /\ recorded' \in {given, recorded}
        BY <2>13 DEF Answer
      <3>2. Answered(given, base, external, declared)
        BY <2>4, <2>13 DEF Answered
      <3> QED BY <2>4, <3>1, <3>2
    <2>14. CASE RefusePlan
      <3>1. asked # "none" /\ Answer(Refused)
        BY <2>14 DEF RefusePlan
      <3> HIDE DEF c
      <3>2. ~Live(c, external) /\ Result(c, external) = Refused
        BY <2>9, <2>14 DEF RefusePlan, SlotTakes, CutResolves, Live, Result
      <3> QED BY <2>13, <3>1, <3>2
    <2>15. CASE ReturnTree
      <3>1. asked # "none" /\ Answer(effective)
        BY <2>15 DEF ReturnTree
      <3> HIDE DEF c
      <3>2. ~Live(c, external) /\ Result(c, external) = effective
        BY <2>9, <2>15 DEF ReturnTree, Live, Result
      <3> QED BY <2>13, <3>1, <3>2
    <2>16. CASE UNCHANGED overlayVars
      BY <2>4, <2>16 DEF overlayVars, asking, Config
    <2> QED BY <1>2, <2>7, <2>8, <2>11, <2>12, <2>14, <2>15, <2>16 DEF OverlayNext
  <1> QED BY <1>1, <1>2

(* "A bad record can never break a graft the declaration could satisfy"      *)
(* (apply.rs:70-71): when the external tree has the graft of no record, and  *)
(* the declarations are about the base tree, overlay_recorded answers what   *)
(* overlay_static does, a refusal or the same tree.                          *)
THEOREM UnresolvedRecordsDoNoHarm == OverlaySpec => []UnresolvedRecordsHarmless
  <1>1. RunInv => UnresolvedRecordsHarmless
    BY AnsweredOnce DEF RunInv, UnresolvedRecordsHarmless, NoneFound, Resolving
  <1> QED BY <1>1, RunInitInv, RunNextInv, PTL DEF OverlaySpec

(* The table of docs/graft.md: in a tree that overlay_recorded answers every *)
(* declared slot that is not below a "full" one holds what the precedence of *)
(* records and declarations names, and records without a graft do no harm.   *)
THEOREM PrecedenceIsHeld ==
    ASSUME TreesApart, PathsDiffer
    PROVE  OverlaySpec => []PrecedenceHolds
  <1>1. CutsInv /\ UnresolvedRecordsHarmless => PrecedenceHolds
    BY DEF CutsInv, PrecedenceHolds
  <1>2. CutsInv /\ [OverlayNext]_overlayVars => CutsInv'
    BY CutsNextInv
  <1> QED BY <1>1, <1>2, CutsInitInv, UnresolvedRecordsDoNoHarm, PTL DEF OverlaySpec
=============================================================================
