--------------------------------- MODULE Shapes ---------------------------------
(***************************************************************************)
(* Properties of objects in quickjs.c.  The names are kept in a shape, a   *)
(* table that objects with the same history share; the values in an array  *)
(* of the object, at the same places.  Shapes that can be shared are in a  *)
(* table of the runtime (hashed); one that is changed otherwise than by    *)
(* adding is taken out of it, or cloned when it is shared.                 *)
(*                                                                         *)
(* Objects have one prototype.  An atom is a number and hashes to its low  *)
(* bits.  The table of the runtime is the set of shapes that are in it.    *)
(* Memory is never short.  The script gives each property the number of    *)
(* its name as value, so that values at a wrong place show.                *)
(***************************************************************************)
EXTENDS Integers, Sequences, FiniteSets, SequencesExt

CONSTANTS
  Holes,             \* names of objects
  Atoms,             \* positive numbers
  InitialSize, InitialHashSize,   \* JS_PROP_INITIAL_SIZE and _HASH_SIZE
  CompactAt          \* deleted properties that are worth compacting

ASSUME ShapesAssumption ==
  /\ IsFiniteSet(Holes) /\ Atoms \subseteq Nat \ {0} /\ CompactAt \in Nat
  /\ {InitialSize, InitialHashSize} \subseteq Nat \ {0}

NullAtom == 0
NoShape == 0
Junk == 0           \* a place of the array that was not written; values are positive
ShapeIds == 1 .. Cardinality(Holes) + 1

VARIABLES
  shapes,      \* shapes[i]: a shape, or <<>> where none is
  owner,       \* owner[o]: shape and prop of an object, shape NoShape when there is none
  shapeTable   \* shapes in the table of the runtime

shapeVars == <<shapes, owner, shapeTable>>

(* hash is the sum of what was added, as if few bits were left of it. *)
EmptyShape ==
  [refs |-> 1, hashed |-> TRUE, hash |-> 0, prop |-> <<>>, size |-> InitialSize, deleted |-> 0,
   bucket |-> [h \in 0 .. InitialHashSize - 1 |-> 0]]
ShapesInit ==
  /\ shapes = [i \in ShapeIds |-> <<>>]
  /\ owner = [o \in Holes |-> [shape |-> NoShape, prop |-> <<>>]]
  /\ shapeTable = {}

-----------------------------------------------------------------------------
(* A store has the three variables as its fields. *)
Store == [shapes |-> shapes, owner |-> owner, table |-> shapeTable]
Stored(s) == shapes' = s.shapes /\ owner' = s.owner /\ shapeTable' = s.table
ShapeOf(s, o) == s.shapes[s.owner[o].shape]
FreeId(s) == CHOOSE i \in ShapeIds : s.shapes[i] = <<>>

ShapeHash(h, atom, flags) == (h + atom + (IF flags THEN 1 ELSE 0)) % 2
HashMask(sh) == Cardinality(DOMAIN sh.bucket)
Bucket(atom, size) == atom % size

(* find_own_property1: the place of atom, 0 if it is not found *)
PlacedFrom(sh, atom, n) ==
  LET f[h \in 0 .. Len(sh.prop)] ==
        IF h = 0 \/ sh.prop[h].atom = atom THEN h ELSE f[sh.prop[h].next]
  IN f[n]
Place(sh, atom) == PlacedFrom(sh, atom, sh.bucket[Bucket(atom, HashMask(sh))])

(* One entry at the end, first of its chain *)
WithEntry(sh, atom, flags) ==
  LET h == Bucket(atom, HashMask(sh)) IN
  [sh EXCEPT !.prop = Append(@, [atom |-> atom, flags |-> flags, next |-> sh.bucket[h]]),
             !.bucket[h] = Len(sh.prop) + 1]
(* The tables made again from a list of entries, with size buckets *)
Rebuilt(sh, size, entries) ==
  FoldLeft(LAMBDA t, e : IF e.atom = NullAtom
                         THEN [t EXCEPT !.prop = Append(@, [atom |-> NullAtom, flags |-> FALSE, next |-> 0])]
                         ELSE WithEntry(t, e.atom, e.flags),
           [sh EXCEPT !.prop = <<>>, !.bucket = [h \in 0 .. size - 1 |-> 0]], entries)

Larger(a, b) == IF a > b THEN a ELSE b
Grown(n, size) ==     \* doubled until it is not less than size
  LET f[k \in 0 .. size] == IF k = 0 THEN n ELSE IF f[k - 1] < size THEN 2 * f[k - 1] ELSE f[k - 1]
  IN f[size]
Halved(n, size) ==
  LET f[k \in 0 .. n] == IF k = 0 THEN n ELSE IF f[k - 1] \div 2 >= size THEN f[k - 1] \div 2 ELSE f[k - 1]
  IN f[n]
(* js_realloc of an object's array *)
Reallocated(prop, size) == [i \in 1 .. size |-> IF i <= Len(prop) THEN prop[i] ELSE Junk]

(* resize_properties.  The slip leaves the chains as they were. *)
ResizedShapeStale(sh, size) ==
  [sh EXCEPT !.size = size,
             !.bucket = [h \in 0 .. Grown(HashMask(sh), size) - 1 |->
                           IF h \in DOMAIN sh.bucket THEN sh.bucket[h] ELSE 0]]
ResizedShape(sh, size) ==
  LET n == Grown(HashMask(sh), size) IN
  [(IF n = HashMask(sh) THEN sh ELSE Rebuilt(sh, n, sh.prop)) EXCEPT !.size = size]

(* compact_properties: entries and values move together. *)
Kept(sh) == SelectSeq([i \in DOMAIN sh.prop |-> i], LAMBDA i : sh.prop[i].atom # NullAtom)
CompactedValues(sh, prop) == [j \in DOMAIN Kept(sh) |-> prop[Kept(sh)[j]]]
Compacted(s, o) ==
  LET sh == ShapeOf(s, o)
      size == Larger(InitialSize, Len(sh.prop) - sh.deleted)
      entries == SelectSeq(sh.prop, LAMBDA e : e.atom # NullAtom)
  IN [s EXCEPT !.shapes[s.owner[o].shape] =
                 [Rebuilt(sh, Halved(HashMask(sh), size), entries) EXCEPT !.size = size, !.deleted = 0],
               !.owner[o].prop = Reallocated(CompactedValues(sh, @), size)]

(* js_free_shape: one reference less *)
ShapeReleased(s, i) ==
  IF s.shapes[i].refs = 1 THEN [s EXCEPT !.shapes[i] = <<>>, !.table = @ \ {i}]
  ELSE [s EXCEPT !.shapes[i].refs = @ - 1]
(* js_clone_shape for object o, which leaves its own *)
Cloned(s, o, hashed) ==
  LET i == FreeId(s)
      t == [s EXCEPT !.shapes[i] = [ShapeOf(s, o) EXCEPT !.refs = 1, !.hashed = hashed],
                     !.table = IF hashed THEN @ \cup {i} ELSE @,
                     !.owner[o].shape = i]
  IN ShapeReleased(t, s.owner[o].shape)

(* js_shape_prepare_update.  The slip changes a shared shape. *)
PreparedShared(s, o) ==
  [s EXCEPT !.shapes[s.owner[o].shape].hashed = FALSE, !.table = @ \ {s.owner[o].shape}]
Prepared(s, o) ==
  LET i == s.owner[o].shape IN
  IF ~s.shapes[i].hashed THEN s
  ELSE IF s.shapes[i].refs # 1 THEN Cloned(s, o, FALSE)
  ELSE [s EXCEPT !.shapes[i].hashed = FALSE, !.table = @ \ {i}]

-----------------------------------------------------------------------------
(* find_hashed_shape_prop: shapes of the table that are sh and one more; the
   slip compares the hash and the number of entries only. *)
SameEntries(a, b) == \A i \in DOMAIN a : a[i].atom = b[i].atom /\ a[i].flags = b[i].flags
IsExtensionByHash(sh1, sh, atom, flags) ==
  sh1.hash = ShapeHash(sh.hash, atom, flags) /\ Len(sh1.prop) = Len(sh.prop) + 1
IsExtension(sh1, sh, atom, flags) ==
  /\ sh1.hash = ShapeHash(sh.hash, atom, flags) /\ Len(sh1.prop) = Len(sh.prop) + 1
  /\ SameEntries(sh.prop, sh1.prop)
  /\ sh1.prop[Len(sh1.prop)].atom = atom /\ sh1.prop[Len(sh1.prop)].flags = flags
Extensions(s, sh, atom, flags) == {i \in s.table : IsExtension(s.shapes[i], sh, atom, flags)}

(* add_shape_property *)
WithShapeProperty(s, o, atom, flags) ==
  LET i == s.owner[o].shape
      sh == s.shapes[i]
      full == Len(sh.prop) >= sh.size
      size == Larger(Len(sh.prop) + 1, (sh.size * 3) \div 2)
      big == IF full THEN ResizedShape(sh, size) ELSE sh
  IN [s EXCEPT !.shapes[i] = [WithEntry(big, atom, flags) EXCEPT !.hash = ShapeHash(@, atom, flags)],
               !.owner[o].prop = IF full THEN Reallocated(@, size) ELSE @]

(* add_property, and the value that is written then *)
Extended(s, o, atom, flags) ==
  LET sh == ShapeOf(s, o)
      found == Extensions(s, sh, atom, flags)
      i == CHOOSE x \in found : TRUE
      moved == [s EXCEPT !.owner[o] = [shape |-> i, prop |-> Reallocated(@.prop, s.shapes[i].size)],
                         !.shapes[i].refs = @ + 1]
  IN IF sh.hashed /\ found # {} THEN ShapeReleased(moved, s.owner[o].shape)
     ELSE WithShapeProperty(IF sh.hashed /\ sh.refs # 1 THEN Cloned(s, o, TRUE) ELSE s, o, atom, flags)
Written(s, o, place, v) == [s EXCEPT !.owner[o].prop[place] = v]

-----------------------------------------------------------------------------
There(o) == owner[o].shape # NoShape
PlaceIn(o, atom) == Place(ShapeOf(Store, o), atom)

(* JS_NewObjectProtoClass: an empty shape of the table, or a new one *)
NewObject(o) ==
  /\ ~There(o)
  /\ LET empty == {i \in shapeTable : shapes[i].prop = <<>>}
         i == IF empty # {} THEN CHOOSE x \in empty : TRUE ELSE FreeId(Store)
         sh == IF empty # {} THEN [shapes[i] EXCEPT !.refs = @ + 1] ELSE EmptyShape
     IN Stored([shapes |-> [shapes EXCEPT ![i] = sh], table |-> shapeTable \cup {i},
                owner |-> [owner EXCEPT ![o] = [shape |-> i, prop |-> Reallocated(<<>>, sh.size)]]])
FreeObject(o) ==
  /\ There(o)
  /\ Stored([ShapeReleased(Store, owner[o].shape) EXCEPT
               !.owner[o] = [shape |-> NoShape, prop |-> <<>>]])

AddProperty(o, atom, flags) ==
  /\ There(o) /\ PlaceIn(o, atom) = 0
  /\ LET s == Extended(Store, o, atom, flags) IN Stored(Written(s, o, Len(ShapeOf(s, o).prop), atom))

(* delete_property: the entry leaves its chain and is emptied. *)
WithoutEntry(sh, h) ==
  [sh EXCEPT !.bucket = [b \in DOMAIN @ |-> IF @[b] = h THEN sh.prop[h].next ELSE @[b]],
             !.prop = [i \in DOMAIN @ |->
                         IF i = h THEN [atom |-> NullAtom, flags |-> FALSE, next |-> @[h].next]
                         ELSE IF @[i].next = h THEN [@[i] EXCEPT !.next = sh.prop[h].next] ELSE @[i]],
             !.deleted = @ + 1]
DeleteProperty(o, atom) ==
  /\ There(o) /\ PlaceIn(o, atom) # 0
  /\ ShapeOf(Store, o).prop[PlaceIn(o, atom)].flags
  /\ LET h == PlaceIn(o, atom)
         s == Prepared(Store, o)
         sh == WithoutEntry(ShapeOf(s, o), h)
         t == Written([s EXCEPT !.shapes[s.owner[o].shape] = sh], o, h, Junk)
     IN Stored(IF sh.deleted >= CompactAt /\ sh.deleted >= Len(sh.prop) \div 2
               THEN Compacted(t, o) ELSE t)

(* js_update_property_flags *)
UpdatePropertyFlags(o, atom, flags) ==
  /\ There(o) /\ PlaceIn(o, atom) # 0 /\ ShapeOf(Store, o).prop[PlaceIn(o, atom)].flags # flags
  /\ LET s == Prepared(Store, o) IN
     Stored([s EXCEPT !.shapes[s.owner[o].shape].prop[PlaceIn(o, atom)].flags = flags])

ShapesNext ==
  \E o \in Holes :
    \/ NewObject(o) \/ FreeObject(o)
    \/ \E atom \in Atoms :
         \/ DeleteProperty(o, atom)
         \/ \E flags \in BOOLEAN : AddProperty(o, atom, flags) \/ UpdatePropertyFlags(o, atom, flags)
ShapesSpec == ShapesInit /\ [][ShapesNext]_shapeVars

-----------------------------------------------------------------------------
(***************************************************************************)
(* Each object behaves as if it had properties of its own, in the order    *)
(* they were added: sharing, cloning, growing and compacting cannot be     *)
(* seen.                                                                   *)
(***************************************************************************)
PropertiesOf(o) ==
  IF ~There(o) THEN <<>>
  ELSE LET sh == ShapeOf(Store, o) IN
       <<[j \in DOMAIN Kept(sh) |->
            [name |-> sh.prop[Kept(sh)[j]].atom, configurable |-> sh.prop[Kept(sh)[j]].flags,
             value |-> owner[o].prop[Kept(sh)[j]]]]>>
Own == INSTANCE PropertyMap WITH Names <- Atoms, Contents <- Atoms, objects <- [o \in Holes |-> PropertiesOf(o)]
BehavesAsOwn == Own!Spec

(***************************************************************************)
(* A lookup through the chains of a shape finds exactly the entries in it. *)
(***************************************************************************)
LookupFindsAll ==
  \A o \in Holes : There(o) => \A atom \in Atoms :
    LET sh == ShapeOf(Store, o)
        places == {i \in DOMAIN sh.prop : sh.prop[i].atom = atom}
    IN places = {Place(sh, atom)} \ {0}

(***************************************************************************)
(* The array of an object is as large as its shape says and every entry    *)
(* has a place in it; a shape is counted once for each object, only shapes *)
(* in the table are shared, and those have no deleted entries.             *)
(***************************************************************************)
StorageAgrees ==
  /\ \A o \in Holes : There(o) =>
       /\ shapes[owner[o].shape] # <<>>
       /\ Len(owner[o].prop) = ShapeOf(Store, o).size
       /\ Len(ShapeOf(Store, o).prop) <= ShapeOf(Store, o).size
  /\ \A i \in ShapeIds : shapes[i] # <<>> =>
       /\ shapes[i].refs = Cardinality({o \in Holes : owner[o].shape = i}) /\ shapes[i].refs > 0
       /\ shapes[i].hashed <=> i \in shapeTable
       /\ shapes[i].refs > 1 \/ shapes[i].hashed => i \in shapeTable /\ shapes[i].deleted = 0
       /\ shapes[i].deleted = Cardinality({j \in DOMAIN shapes[i].prop : shapes[i].prop[j].atom = NullAtom})

(***************************************************************************)
(* The hash chains of every shape reach all its properties, after          *)
(* resizing, deleting and compacting, and the values of an object are      *)
(* stored as its shape says.                                               *)
(***************************************************************************)
ShapesSound ==
  /\ LookupFindsAll
  /\ StorageAgrees
=============================================================================
