------------------------------ MODULE MapRecords ------------------------------
(***************************************************************************)
(* Map, Set and their weak forms in quickjs.c: the list of records in the  *)
(* order of insertion, the hash table over it, and what walks the list     *)
(* while scripts change it: iterators, forEach and clear.  A record that   *)
(* is deleted while something stands on it stays in the list, empty.       *)
(*                                                                         *)
(* Keys are numbers, and stand for their own hash.  Of the values, what    *)
(* matters is an iterator over this map that nothing but the value refers  *)
(* to: freeing the value is then the end of the iterator.  (A key that is  *)
(* one behaves alike.)  In a weak map keys die, and nothing walks it.      *)
(***************************************************************************)
EXTENDS Integers, Sequences, FiniteSets, SequencesExt

CONSTANTS
  Keys,            \* numbers
  Cursors,         \* iterators, and calls of forEach
  FirstThreshold,  \* records that make the table of a new map grow
  MaxRecords       \* bound: records that are ever made

ASSUME MapAssumption == Keys \subseteq Nat /\ {FirstThreshold, MaxRecords} \subseteq Nat

NoKey == -1
NoCursor == "none"
Unused == -2   \* a cursor nobody has
Done == -1     \* one that reached the end
Fresh == 0     \* one that was not asked yet

VARIABLES
  isWeak,      \* is_weak
  records,     \* records: number, key, empty, ref_count, and the iterator
               \* that only this record's value refers to
  table,       \* hash_table: chains of numbers of records
  hashBits, recordCount, threshold,
  cursor,      \* number of the record a cursor stands on
  computing,   \* key whose callback getOrInsertComputed is running
  alive,       \* keys that live
  strayed,     \* a walk went on from a record that was freed: anything follows
  made, seen   \* history: records made so far; those each cursor returned

mapVars == <<isWeak, records, table, hashBits, recordCount, threshold, cursor,
             computing, alive, strayed, made, seen>>

MapInit ==
  /\ isWeak \in BOOLEAN
  /\ records = <<>>
  /\ table = [h \in 0 .. 1 |-> <<>>]
  /\ hashBits = 1 /\ recordCount = 0 /\ threshold = FirstThreshold
  /\ cursor = [c \in Cursors |-> Unused]
  /\ computing = NoKey /\ alive = Keys /\ strayed = FALSE
  /\ made = 0 /\ seen = [c \in Cursors |-> {}]

-----------------------------------------------------------------------------
(* The functions of the code change a map and the cursors over it. *)
Current == [recs |-> records, table |-> table, bits |-> hashBits,
            count |-> recordCount, limit |-> threshold, made |-> made,
            cursor |-> cursor, seen |-> seen]
Becomes(m) ==
  /\ records' = m.recs /\ table' = m.table /\ hashBits' = m.bits
  /\ recordCount' = m.count /\ threshold' = m.limit /\ made' = m.made
  /\ cursor' = m.cursor /\ seen' = m.seen

MapHashKey(k, bits) == k % 2 ^ bits
Indices(m, id) == {i \in DOMAIN m.recs : m.recs[i].id = id}
Numbered(m, id) == m.recs[CHOOSE i \in Indices(m, id) : TRUE]
Matches(r, k) == ~r.empty /\ r.key = k /\ (isWeak => r.key \in alive)

(* map_find_record: numbers of the records of the chain that match *)
Found(m, k) ==
  SelectSeq(m.table[MapHashKey(k, m.bits)], LAMBDA id : Matches(Numbered(m, id), k))

(* map_hash_resize: dead keys are not put into the new table.  The slip
   hashes with the bits of the old one. *)
Rehashing(r) == ~r.empty /\ (isWeak => r.key \in alive)
NewHashOld(k, bits) == MapHashKey(k, bits - 1)
NewHash(k, bits) == MapHashKey(k, bits)
Resized(m) ==
  LET bits == m.bits + 1
      kept == SelectSeq(m.recs, Rehashing)
      chain(h) == SelectSeq(kept, LAMBDA r : NewHash(r.key, bits) = h)
  IN [m EXCEPT !.bits = bits, !.limit = 2 * 2 ^ bits,
               !.table = [h \in 0 .. 2 ^ bits - 1 |->
                            Reverse([i \in DOMAIN chain(h) |-> chain(h)[i].id])]]

(* map_add_record *)
Added(m, k, v) ==
  LET id == m.made + 1
      n == [m EXCEPT !.recs = Append(@, [id |-> id, key |-> k, empty |-> FALSE, refs |-> 1, owns |-> v]),
                     !.table[MapHashKey(k, m.bits)] = <<id>> \o @,
                     !.count = @ + 1, !.made = id]
  IN IF n.count >= n.limit THEN Resized(n) ELSE n

(* map_decref_record: at zero the record leaves the list. *)
Unlocked(m, id) ==
  [m EXCEPT !.recs = IF Numbered(m, id).refs = 1
                     THEN SelectSeq(@, LAMBDA r : r.id # id)
                     ELSE [i \in DOMAIN @ |-> IF @[i].id = id THEN [@[i] EXCEPT !.refs = @ - 1]
                                              ELSE @[i]]]

(* js_map_iterator_finalizer *)
Finalized(m, c) ==
  IF c = NoCursor THEN m
  ELSE [IF m.cursor[c] > Fresh THEN Unlocked(m, m.cursor[c]) ELSE m
          EXCEPT !.cursor[c] = Unused, !.seen[c] = {}]

Emptied(m, id) ==
  [m EXCEPT !.recs = [i \in DOMAIN @ |-> IF @[i].id = id
                        THEN [@[i] EXCEPT !.empty = TRUE, !.key = NoKey, !.owns = NoCursor]
                        ELSE @[i]]]

(* map_delete_record_internal: what is freed with the key and the value goes
   first. *)
Deleted(m, id) ==
  IF Numbered(m, id).empty THEN m
  ELSE [Unlocked(Emptied(Finalized(m, Numbered(m, id).owns), id), id) EXCEPT !.count = @ - 1]

Unchained(m, id) == [m EXCEPT !.table = [h \in DOMAIN @ |-> Remove(@[h], id)]]
(* map_delete_record *)
WithoutKey(m, k) ==
  IF Found(m, k) = <<>> THEN m
  ELSE LET id == Found(m, k)[1] IN Deleted(Unchained(m, id), id)

-----------------------------------------------------------------------------
Usable(k) == k \in alive

(* Cursors in use that no record owns, and the values a script may store *)
Loose == {c \in Cursors : /\ cursor[c] # Unused
                          /\ \A i \in DOMAIN records : records[i].owns # c}
Storable == {NoCursor} \cup Loose

(* js_map_set: a key that is there keeps its place, and its value is freed. *)
Replaced(m, id, v) ==
  LET freed == Finalized(m, Numbered(m, id).owns) IN
  [freed EXCEPT !.recs = [i \in DOMAIN @ |-> IF @[i].id = id THEN [@[i] EXCEPT !.owns = v] ELSE @[i]]]
MapSet(k, v) ==
  /\ Usable(k)
  /\ \/ Found(Current, k) = <<>> /\ made < MaxRecords /\ Becomes(Added(Current, k, v))
     \/ Found(Current, k) # <<>> /\ Becomes(Replaced(Current, Found(Current, k)[1], v))
  /\ UNCHANGED <<isWeak, computing, alive, strayed>>
MapDelete(k) ==
  /\ Usable(k) /\ Found(Current, k) # <<>>
  /\ Becomes(WithoutKey(Current, k))
  /\ UNCHANGED <<isWeak, computing, alive, strayed>>

(* list_for_each_safe of js_map_clear: el1 is taken before el is deleted, and
   may be freed with the value of el. *)
After(m, id) ==
  LET i == CHOOSE j \in Indices(m, id) : TRUE IN
  IF i = Len(m.recs) THEN Done ELSE m.recs[i + 1].id
Strays(m, id) == id # Done /\ Indices(m, id) = {}
ClearsNext(walk) ==
  IF walk.el = Done \/ Strays(walk.map, walk.el) THEN walk
  ELSE [map |-> Deleted(walk.map, walk.el), el |-> After(walk.map, walk.el)]

(* js_map_clear: the table is emptied first. *)
MapClear ==
  /\ ~isWeak /\ records # <<>>
  /\ LET cleared == [Current EXCEPT !.table = [h \in DOMAIN @ |-> <<>>]]
         walk == FoldLeft(LAMBDA w, r : ClearsNext(w),
                          [map |-> cleared, el |-> records[1].id], records)
     IN /\ strayed' = Strays(walk.map, walk.el)
        /\ Becomes(IF strayed' THEN Current ELSE walk.map)
  /\ UNCHANGED <<isWeak, computing, alive>>

(* js_map_getOrInsert, computed: a callback runs when the key is missing, and
   what it may have added for the key is deleted afterwards. *)
GetOrInsertCalls(k) ==
  /\ computing = NoKey /\ Usable(k) /\ Found(Current, k) = <<>> /\ made < MaxRecords
  /\ computing' = k
  /\ Becomes(Current) /\ UNCHANGED <<isWeak, alive, strayed>>
GetOrInsertReturns(v) ==
  /\ computing # NoKey /\ made < MaxRecords
  /\ Becomes(Added(WithoutKey(Current, computing), computing, v))
  /\ computing' = NoKey
  /\ UNCHANGED <<isWeak, alive, strayed>>
GetOrInsertThrows ==
  /\ computing # NoKey /\ computing' = NoKey
  /\ Becomes(Current) /\ UNCHANGED <<isWeak, alive, strayed>>

-----------------------------------------------------------------------------
(* js_create_map_iterator, or the call of forEach *)
CursorMade(c) ==
  /\ ~isWeak /\ cursor[c] = Unused
  /\ Becomes([Current EXCEPT !.cursor[c] = Fresh])
  /\ UNCHANGED <<isWeak, computing, alive, strayed>>

(* The first record behind the one a cursor stands on that is not empty.  The
   slip looks at every second record only. *)
Behind(m, id) == IF id = Fresh THEN 0 ELSE CHOOSE i \in Indices(m, id) : TRUE
FollowingSkips(m, id) == {i \in DOMAIN m.recs : i > Behind(m, id) + 1 /\ ~m.recs[i].empty}
Following(m, id) == {i \in DOMAIN m.recs : i > Behind(m, id) /\ ~m.recs[i].empty}
NextRecord(m, id) ==
  LET f == Following(m, id) IN
  IF f = {} THEN Done ELSE m.recs[CHOOSE i \in f : \A j \in f : i <= j].id
Held(m, c, id) ==
  IF id = Done THEN [m EXCEPT !.cursor[c] = Done]
  ELSE [m EXCEPT !.cursor[c] = id, !.seen[c] = @ \cup {id},
                 !.recs = [i \in DOMAIN @ |-> IF @[i].id = id THEN [@[i] EXCEPT !.refs = @ + 1]
                                              ELSE @[i]]]

(* js_map_iterator_next, or the next round of js_map_forEach *)
CursorNext(c) ==
  /\ cursor[c] >= Fresh
  /\ LET here == cursor[c]
         left == IF here = Fresh THEN Current ELSE Unlocked(Current, here)
     IN Becomes(Held(left, c, NextRecord(Current, here)))
  /\ UNCHANGED <<isWeak, computing, alive, strayed>>

(* The next round of js_map_forEach when what the callback returned is the last
   reference to iterator d: it is freed when el has already moved on. *)
ForEachFrees(c, d) ==
  /\ {c, d} \subseteq Loose /\ c # d /\ cursor[c] > Fresh
  /\ LET left == Finalized(Unlocked(Current, cursor[c]), d) IN
     /\ strayed' = Strays(left, After(Current, cursor[c]))
     /\ Becomes(IF strayed' THEN Current ELSE Held(left, c, NextRecord(Current, cursor[c])))
  /\ UNCHANGED <<isWeak, computing, alive>>

(* A script lets go of an iterator; forEach ended by an exception *)
CursorDropped(c) ==
  /\ c \in Loose
  /\ Becomes(Finalized(Current, c))
  /\ UNCHANGED <<isWeak, computing, alive, strayed>>

-----------------------------------------------------------------------------
(* Weak maps: a key dies, and the collector calls map_delete_weakrefs. *)
KeyDies(k) ==
  /\ isWeak /\ k \in alive /\ computing # k
  /\ alive' = alive \ {k}
  /\ Becomes(Current) /\ UNCHANGED <<isWeak, computing, strayed>>
MapDeleteWeakrefs ==
  /\ isWeak
  /\ LET dead == SelectSeq(records, LAMBDA r : r.key \notin alive) IN
     /\ dead # <<>>
     /\ Becomes(FoldLeft(LAMBDA m, r : Deleted(Unchained(m, r.id), r.id), Current, dead))
  /\ UNCHANGED <<isWeak, computing, alive, strayed>>

MapStep ==
  \/ \E k \in Keys : MapDelete(k) \/ GetOrInsertCalls(k) \/ KeyDies(k)
  \/ \E k \in Keys, v \in Storable : MapSet(k, v)
  \/ \E v \in Storable : GetOrInsertReturns(v)
  \/ MapClear \/ GetOrInsertThrows \/ MapDeleteWeakrefs
  \/ \E c \in Cursors : CursorMade(c) \/ CursorNext(c) \/ CursorDropped(c)
  \/ \E c, d \in Cursors : ForEachFrees(c, d)
MapNext == ~strayed /\ MapStep
MapSpec == MapInit /\ [][MapNext]_mapVars

-----------------------------------------------------------------------------
LiveRecords == {i \in DOMAIN records : Rehashing(records[i])}

(***************************************************************************)
(* A lookup finds a key exactly when the list has a record of it, and each *)
(* key has one record at most: the table agrees with the list through      *)
(* growing, deleting, clearing, and keys that died before or after growing.*)
(***************************************************************************)
LookupExact ==
  /\ \A k \in alive :
       LET there == {records[i].id : i \in {j \in LiveRecords : records[j].key = k}}
       IN /\ Cardinality(there) <= 1
          /\ Range(Found(Current, k)) = there
  /\ \A h \in DOMAIN table : \A j \in DOMAIN table[h] : Indices(Current, table[h][j]) # {}

(***************************************************************************)
(* A record is kept exactly as long as it holds a key or something stands  *)
(* on it: cursors never stand on freed records, the assertion mr->empty of *)
(* map_decref_record holds, and size counts the records with a key.  An    *)
(* iterator that lives in a value lives in one, and dies with it.          *)
(***************************************************************************)
LocksExact ==
  /\ \A c \in Cursors : cursor[c] > Fresh => Indices(Current, cursor[c]) # {}
  /\ \A i \in DOMAIN records :
       /\ records[i].refs = (IF records[i].empty THEN 0 ELSE 1)
                            + Cardinality({c \in Cursors : cursor[c] = records[i].id})
       /\ records[i].refs > 0
       /\ records[i].owns # NoCursor =>
            /\ cursor[records[i].owns] # Unused
            /\ \A j \in DOMAIN records \ {i} : records[j].owns # records[i].owns
  /\ recordCount = Cardinality({i \in DOMAIN records : ~records[i].empty})

(***************************************************************************)
(* The records clear and forEach go on from are not locked.  They are      *)
(* freed under them in one case only: the record is empty already, and     *)
(* the iterators that stood on it are freed with a value or a result, one  *)
(* of them by the step from the record before it.                          *)
(***************************************************************************)
StraysByIteratorOnly ==
  strayed =>
    \E i \in 1 .. Len(records) - 1 :
      LET next == records[i + 1]
          onNext == {c \in Cursors : cursor[c] = next.id}
      IN /\ next.empty
         /\ \/ records[i].owns \in onNext /\ onNext \cap Loose = {}
            \/ (\E c \in Loose : cursor[c] = records[i].id) /\ \E d \in Loose : onNext = {d}

(***************************************************************************)
(* A walk that ends has returned every entry that is in the map then, also *)
(* those added during the walk, whatever was deleted around it.            *)
(***************************************************************************)
WalksReachAll ==
  [][\A c \in Cursors : cursor[c] >= Fresh /\ cursor'[c] = Done =>
       {records[i].id : i \in LiveRecords} \subseteq seen[c]]_mapVars

(***************************************************************************)
(* Entries are returned in the order of insertion, none of them twice.     *)
(***************************************************************************)
WalksInOrder ==
  [][\A c \in Cursors : cursor'[c] > Fresh /\ cursor'[c] # cursor[c] =>
       \A id \in seen[c] : id < cursor'[c]]_mapVars

(***************************************************************************)
(* The hash table finds exactly the records of the map, after any number   *)
(* of insertions, deletions and resizings; a record lives exactly as long  *)
(* as it holds a key or an iterator or forEach stands on it, also when     *)
(* iterators are freed by the deletion of a record; and clear and forEach  *)
(* go on from a freed record only when an iterator that stood on it, then  *)
(* empty, was freed by what they freed themselves (that case is a flaw of  *)
(* the code, and where the model ends).                                    *)
(***************************************************************************)
MapSound ==
  /\ LookupExact
  /\ LocksExact
  /\ StraysByIteratorOnly

(***************************************************************************)
(* A walk over a map that is changed meanwhile, also by being cleared,     *)
(* returns every entry that is there when it ends, each one once and in    *)
(* the order of insertion.                                                 *)
(***************************************************************************)
WalksRight ==
  /\ WalksReachAll
  /\ WalksInOrder
=============================================================================
