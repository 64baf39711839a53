------------------------------- MODULE HashMap -------------------------------
(***************************************************************************)
(* The hash array mapped trie of HashMap: nodes that are never changed,    *)
(* addition and removal of an entry, search, iteration, equality, hash and *)
(* traversal, and the public Map calls on it.  One step is one call; each  *)
(* helper of the code is an operator on nodes.                             *)
(*                                                                         *)
(*   source                             here                               *)
(*   HashMapBitmapNode: bitmap_         bits, a set of digits              *)
(*     array(), keys and values in turn array                              *)
(*     a pair without key, with a node  a pair with key Null               *)
(*   HashMapArrayNode: nodes_, count_   nodes, count                       *)
(*   HashMap: root_, null_value_, ...   a map's root, nullValue, ...       *)
(*   shift, a multiple of 5             level                              *)
(*                                                                         *)
(* The code returns a node itself when nothing is changed and compares     *)
(* pointers to see that.  A node that was changed differs from the old     *)
(* one, so comparing nodes as values is the same.  "this == other" is      *)
(* equality of records too: two maps with equal records have equal         *)
(* entries, or, with a key that is not a number, are no two maps of a run. *)
(***************************************************************************)
EXTENDS Variants, TLC

CONSTANTS
    Calls,          \* pairs of a key and a value that add() may get
    Width,          \* digits of a hash: 32
    MaxBitmap,      \* pairs in a bitmap node: 16
    BitmapAt,       \* with so many children an array node becomes a bitmap: 8
    MaxCount        \* bound: entries in a map

ASSUME HashMapAssumption ==
    /\ Width \in Nat \ {0, 1}
    /\ BitmapAt \in 2..MaxBitmap /\ MaxBitmap < Width
    /\ MaxCount \in Nat

VARIABLES
    map,            \* the last map that was made
    aborted         \* which check failed, or "no"

vars == <<map, aborted>>

\* == and hash() of variants, which go by way of objects back to variants
RECURSIVE Equal(_, _), Hash(_)

Keys == {call[1] : call \in Calls}

Digits == 0..Width - 1

Bit(hash, level) == (hash \div Width^level) % Width

Bitmap(bits, array) == [kind |-> "bitmap", bits |-> bits, array |-> array]

EmptyBitmapNode == Bitmap({}, <<>>)

ArrayNode(count, nodes) == [kind |-> "array", count |-> count, nodes |-> nodes]

\* How many pairs come before the one of a bit.
Index(node, bit) == Cardinality({b \in node.bits : b < bit})

KeyAt(node, i) == node.array[2 * i]

ValueAt(node, i) == node.array[2 * i + 1]

-----------------------------------------------------------------------------
(* Search and iteration *)

RECURSIVE Find(_, _, _, _, _)

FindInBitmap(node, level, hash, k, notFound) ==
    LET i == Index(node, Bit(hash, level)) IN
    IF Bit(hash, level) \notin node.bits THEN notFound
    ELSE CASE IsNull(KeyAt(node, i)) -> Find(ToObject(ValueAt(node, i)), level + 1, hash, k, notFound)
           [] Equal(KeyAt(node, i), k) -> ValueAt(node, i)
           [] OTHER -> notFound

FindInArray(node, level, hash, k, notFound) ==
    LET child == node.nodes[Bit(hash, level)]
    IN  IF child = NoObject THEN notFound ELSE Find(child, level + 1, hash, k, notFound)

Find(node, level, hash, k, notFound) ==
    IF node.kind = "bitmap" THEN FindInBitmap(node, level, hash, k, notFound)
                            ELSE FindInArray(node, level, hash, k, notFound)

RECURSIVE Entries(_)

EntriesOfBitmap(node) ==
    FlattenSeq([i \in 1..Cardinality(node.bits) |->
        IF IsNull(KeyAt(node, i - 1)) THEN Entries(ToObject(ValueAt(node, i - 1)))
                                      ELSE <<<<KeyAt(node, i - 1), ValueAt(node, i - 1)>>>>])

EntriesOfArray(node) ==
    FlattenSeq([i \in 1..Width |->
        IF node.nodes[i - 1] = NoObject THEN <<>> ELSE Entries(node.nodes[i - 1])])

\* iterate_map of nodes: the pairs of a key and a value, in the order in which
\* a predicate that is always true gets them.
Entries(node) == IF node.kind = "bitmap" THEN EntriesOfBitmap(node) ELSE EntriesOfArray(node)

-----------------------------------------------------------------------------
(* Addition: records of a node, whether an entry was added (added_leaf), and *)
(* whether a check failed                                                    *)

RECURSIVE AddTo(_, _, _, _, _)

Leaf(level, hash, k, v) == AddTo(EmptyBitmapNode, level, hash, k, v)

\* Mutant of NewNode: the key is taken for the other one with the same hash.
NewNodeByHash(level, k1, v1, hash2, k2, v2) ==
    AddTo(Leaf(level, Hash(k1), k1, v1).node, level, hash2, IF Hash(k1) = hash2 THEN k1 ELSE k2, v2)

\* Nodes for collisions are not implemented.
NewNode(level, k1, v1, hash2, k2, v2) ==
    IF Hash(k1) = hash2
      THEN [node |-> EmptyBitmapNode, added |-> FALSE, failed |-> TRUE]
      ELSE AddTo(Leaf(level, Hash(k1), k1, v1).node, level, hash2, k2, v2)

CopyAndSet(node, index, v) == Bitmap(node.bits, Set(node.array, index, v))

\* Mutant of Updated: an entry that gets another value is counted.
UpdatedCounting(node) == [node |-> node, added |-> TRUE, failed |-> FALSE]

Updated(node) == [node |-> node, added |-> FALSE, failed |-> FALSE]

UpdateAt(node, i, level, hash, k, v) ==
    LET key   == KeyAt(node, i)
        value == ValueAt(node, i)
        child == AddTo(ToObject(value), level + 1, hash, k, v)
        split == NewNode(level + 1, key, value, hash, k, v)
    IN  CASE IsNull(key) ->
               [child EXCEPT !.node = CopyAndSet(node, 2 * i + 1, ObjectVariant(@))]
          [] ~IsNull(key) /\ Equal(key, k) ->
               Updated(IF Equal(value, v) THEN node ELSE CopyAndSet(node, 2 * i + 1, v))
          [] OTHER ->
               [split EXCEPT !.node = Bitmap(node.bits, Set(Set(node.array, 2 * i, Null),
                                                            2 * i + 1, ObjectVariant(@)))]

\* Each entry moves down to a node of its own.
ToArrayNode(node, level, count) ==
    ArrayNode(count, [bit \in Digits |->
       LET i == Index(node, bit) IN
       CASE bit \notin node.bits -> NoObject
         [] bit \in node.bits /\ IsNull(KeyAt(node, i)) -> ToObject(ValueAt(node, i))
         [] OTHER -> Leaf(level + 1, Hash(KeyAt(node, i)), KeyAt(node, i), ValueAt(node, i)).node])

\* Mutant of InsertPair: the pairs behind the new one are copied one cell too few.
InsertPairShort(array, i, n, k, v) ==
    Copy(Set(Set(Copy(NewArray(2 * (n + 1)), 0, array, 0, 2 * i), 2 * i, k), 2 * i + 1, v),
         2 * (i + 1), array, 2 * i, 2 * (n - i) - 1)

InsertPair(array, i, n, k, v) ==
    Copy(Set(Set(Copy(NewArray(2 * (n + 1)), 0, array, 0, 2 * i), 2 * i, k), 2 * i + 1, v),
         2 * (i + 1), array, 2 * i, 2 * (n - i))

AddToBitmap(node, level, hash, k, v) ==
    LET bit  == Bit(hash, level)
        i    == Index(node, bit)
        n    == Cardinality(node.bits)
        leaf == Leaf(level + 1, hash, k, v)
    IN  IF bit \in node.bits THEN UpdateAt(node, i, level, hash, k, v)
        ELSE IF n >= MaxBitmap
          THEN [leaf EXCEPT !.node = [ToArrayNode(node, level, n + 1) EXCEPT !.nodes[bit] = leaf.node]]
          ELSE [node |-> Bitmap(node.bits \cup {bit}, InsertPair(node.array, i, n, k, v)),
                added |-> TRUE, failed |-> FALSE]

AddToArray(node, level, hash, k, v) ==
    LET bit  == Bit(hash, level)
        leaf == Leaf(level + 1, hash, k, v)
        new  == AddTo(node.nodes[bit], level + 1, hash, k, v)
    IN  IF node.nodes[bit] = NoObject
          THEN [leaf EXCEPT !.node = ArrayNode(node.count + 1, [node.nodes EXCEPT ![bit] = leaf.node])]
          ELSE [new EXCEPT !.node = ArrayNode(node.count, [node.nodes EXCEPT ![bit] = new.node])]

AddTo(node, level, hash, k, v) ==
    IF node.kind = "bitmap" THEN AddToBitmap(node, level, hash, k, v)
                            ELSE AddToArray(node, level, hash, k, v)

-----------------------------------------------------------------------------
(* Removal: records of a node and whether a check failed *)

RECURSIVE RemoveFrom(_, _, _, _)

Passed(node) == [node |-> node, failed |-> FALSE]

CopyWithoutPair(new, array, i) ==
    Copy(Copy(new, 0, array, 0, 2 * i),
         2 * i, array, 2 * (i + 1), Cardinality(DOMAIN new) - 2 * i)

\* removeAt
RemovePair(node, i, bit) ==
    IF node.bits = {bit} THEN NoObject
    ELSE Bitmap(node.bits \ {bit},
                CopyWithoutPair(NewArray(2 * Cardinality(node.bits) - 2), node.array, i))

RemoveFromBitmap(node, level, hash, k) ==
    LET bit   == Bit(hash, level)
        i     == Index(node, bit)
        key   == KeyAt(node, i)
        new   == RemoveFrom(ToObject(ValueAt(node, i)), level + 1, hash, k)
    IN  CASE bit \notin node.bits -> Passed(node)
          [] bit \in node.bits /\ IsNull(key) ->
               [new EXCEPT !.node = IF @ = NoObject THEN RemovePair(node, i, bit)
                                    ELSE CopyAndSet(node, 2 * i + 1, ObjectVariant(@))]
          [] bit \in node.bits /\ ~IsNull(key) /\ Equal(key, k) -> Passed(RemovePair(node, i, bit))
          [] OTHER -> Passed(node)

\* array() is asked for while the bitmap of the new node is still empty, so it
\* has no cells, and every write to it is past its end.  A debug build ends
\* there; what a release build does is undefined, and the model ends.
ToBitmapNode(node, removed) ==
    LET array == Cleared(NewArray(2 * Cardinality(EmptyBitmapNode.bits)))
        bits  == {bit \in Digits \ {removed} : node.nodes[bit] # NoObject}
        At(bit) == 2 * Cardinality({b \in bits : b < bit}) + 1
    IN  [node |-> Bitmap(bits, [i \in 0..2 * Cardinality(bits) - 1 |->
                      IF \E bit \in bits : At(bit) = i
                        THEN ObjectVariant(node.nodes[CHOOSE bit \in bits : At(bit) = i])
                        ELSE Null]),
         failed |-> \E bit \in bits : ~InBounds(array, At(bit))]

\* Mutant of Emptied: the count stays.
EmptiedUncounted(node, bit) == ArrayNode(node.count, [node.nodes EXCEPT ![bit] = NoObject])

Emptied(node, bit) == ArrayNode(node.count - 1, [node.nodes EXCEPT ![bit] = NoObject])

RemoveFromArray(node, level, hash, k) ==
    LET bit == Bit(hash, level)
        new == RemoveFrom(node.nodes[bit], level + 1, hash, k)
    IN  CASE node.nodes[bit] = NoObject -> Passed(node)
          [] node.nodes[bit] # NoObject /\ new.node # NoObject ->
               [new EXCEPT !.node = ArrayNode(node.count, [node.nodes EXCEPT ![bit] = new.node])]
          [] node.nodes[bit] # NoObject /\ new.node = NoObject /\ node.count <= BitmapAt ->
               ToBitmapNode(node, bit)
          [] OTHER -> Passed(Emptied(node, bit))

RemoveFrom(node, level, hash, k) ==
    IF node.kind = "bitmap" THEN RemoveFromBitmap(node, level, hash, k)
                            ELSE RemoveFromArray(node, level, hash, k)

-----------------------------------------------------------------------------
(* Maps *)

Map(count, root, hasNull, nullValue) ==
    [kind |-> "map", count |-> count, root |-> root, hasNull |-> hasNull, nullValue |-> nullValue]

EmptyMap == Map(0, NoObject, FALSE, Null)

Get(m, k, notFound) ==
    IF IsNull(k) THEN IF m.hasNull THEN m.nullValue ELSE notFound
    ELSE IF m.root = NoObject THEN notFound ELSE Find(m.root, 0, Hash(k), k, notFound)

\* The map itself stands for "not found".
ContainsKey(m, k) ==
    LET notFound == ObjectVariant(m) IN
    IF IsNull(k) THEN m.hasNull
    ELSE m.root # NoObject /\ ~Equal(Find(m.root, 0, Hash(k), k, notFound), notFound)

Iterate(m) ==
    (IF m.hasNull THEN <<<<Null, m.nullValue>>>> ELSE <<>>)
    \o (IF m.root = NoObject THEN <<>> ELSE Entries(m.root))

AddNull(m, v) ==
    IF m.hasNull /\ Equal(v, m.nullValue) THEN m
    ELSE Map(IF m.hasNull THEN m.count ELSE m.count + 1, m.root, TRUE, v)

AddKey(m, k, v) ==
    AddTo(IF m.root = NoObject THEN EmptyBitmapNode ELSE m.root, 0, Hash(k), k, v)

WithRoot(m, new) ==
    Map(IF new.added THEN m.count + 1 ELSE m.count, new.node, m.hasNull, m.nullValue)

\* HashMap::add, if no check fails.
Plus(m, k, v) == IF IsNull(k) THEN AddNull(m, v) ELSE WithRoot(m, AddKey(m, k, v))

AddFails(m, k, v) == ~IsNull(k) /\ AddKey(m, k, v).failed

RemoveNull(m) == IF m.hasNull THEN Map(m.count - 1, m.root, FALSE, Null) ELSE m

RemoveKey(m, k) == IF m.root = NoObject THEN Passed(NoObject) ELSE RemoveFrom(m.root, 0, Hash(k), k)

Minus(m, k) ==
    LET new == RemoveKey(m, k) IN
    IF IsNull(k) THEN RemoveNull(m)
    ELSE IF new.node = m.root THEN m
    ELSE Map(m.count - 1, new.node, m.hasNull, m.nullValue)

\* Mutant of EqualMap: the counts are not compared.
EqualMapUncounted(m, other) ==
    \/ m = other
    \/ /\ other # NoObject /\ other.kind = "map"
       /\ \A entry \in ToSet(Iterate(m)) :
            Equal(entry[2], Get(other, entry[1], ObjectVariant(other)))

\* The other map stands for "not found".
EqualMap(m, other) ==
    \/ m = other
    \/ /\ other # NoObject /\ other.kind = "map" /\ m.count = other.count
       /\ \A entry \in ToSet(Iterate(m)) :
            Equal(entry[2], Get(other, entry[1], ObjectVariant(other)))

EqualObject(obj, other) ==
    CASE obj.kind = "map"       -> EqualMap(obj, other)
      [] obj.kind = "ByteArray" -> EqualByteArray(obj, other)
      [] OTHER                  -> obj = other

HashOfMap(m) ==
    HashCombine(FoldLeft(LAMBDA sum, entry :
                             sum + HashCombine(HashCombine(0, Hash(entry[1])), Hash(entry[2])),
                         0, Iterate(m)) % HashRange,
                MurmurHash3(m.count))

HashCode(obj) ==
    CASE obj.kind = "map"       -> HashOfMap(obj)
      [] obj.kind = "ByteArray" -> HashOfByteArray(obj)

Equal(v, w) ==
    /\ v[1] = w[1]
    /\ CASE v[1] \in FloatTypes -> EqualFloats(v[2], w[2])
         [] v[1] = "Object"     -> IF v[2] = NoObject THEN w[2] = NoObject
                                                      ELSE EqualObject(v[2], w[2])
         [] OTHER               -> v[2] = w[2]

Hash(v) ==
    CASE v[1] \in FloatTypes -> HashOfDouble(v[2])
      [] v[1] = "Object"     -> IF v[2] = NoObject THEN 0 ELSE HashCode(v[2])
      [] OTHER               -> MurmurHash3(v[2])

\* AbstractValue::equals
EqualValues(a, b) ==
    a[1] = b[1] /\ (a = NullValue \/ Equal(ToVariant(a), ToVariant(b)))

-----------------------------------------------------------------------------
(* Calls *)

Init == map = EmptyMap /\ aborted = "no"

\* Map::add
Add(key, value) ==
    LET k == ToVariant(key)
        v == ToVariant(value)
    IN  /\ aborted = "no"
        /\ map.count < MaxCount \/ ContainsKey(map, k)
        /\ IF AddFails(map, k, v)
             THEN aborted' = "collision" /\ UNCHANGED map
             ELSE map' = Plus(map, k, v) /\ UNCHANGED aborted

\* HashMap::remove, which the public Map lacks
Drop(key) ==
    LET k == ToVariant(key) IN
    /\ aborted = "no"
    /\ IF ~IsNull(k) /\ RemoveKey(map, k).failed
         THEN aborted' = "past the end" /\ UNCHANGED map
         ELSE map' = Minus(map, k) /\ UNCHANGED aborted

\* Map::get
MapGet(m, key) == ToValue(Get(m, ToVariant(key), Null))

Next ==
    \/ \E call \in Calls : Add(call[1], call[2])
    \/ \E key \in Keys : Drop(key)

Spec == Init /\ [][Next]_vars

-----------------------------------------------------------------------------
(* Traversal: what the visitor of a collection gets *)

TraverseBitmap(node) == Traversed(node.array)

TraverseArray(node) == Range(node.nodes) \ {NoObject}

\* Mutant of TraverseMap: the value of the null key is forgotten.
TraverseMapWithoutNull(m) == {m.root} \ {NoObject}

TraverseMap(m) ==
    {m.root, IF m.hasNull /\ m.nullValue[1] = "Object" THEN m.nullValue[2] ELSE NoObject} \ {NoObject}

Traverse(obj) ==
    CASE obj.kind = "map"    -> TraverseMap(obj)
      [] obj.kind = "bitmap" -> TraverseBitmap(obj)
      [] obj.kind = "array"  -> TraverseArray(obj)
      [] OTHER               -> {}

-----------------------------------------------------------------------------
(* Properties *)

KeyVariants == {ToVariant(key) : key \in Keys}

Representative(k) == CHOOSE j \in KeyVariants : Equal(j, k)

\* One of all keys that are equal; a NaN is not equal to itself.
Searchable == {Representative(k) : k \in {k \in KeyVariants : Equal(k, k)}}

\* The keys a search reaches (containsKey) and their values (get).
Content(m) == [k \in {k \in Searchable : ContainsKey(m, k)} |-> Get(m, k, Null)]

\* Every node is of its type, has a child or an entry for each digit it says,
\* no cell is left unset, and every key lies on the path of its hash; nodes are
\* not empty, and the count of an array node is that of its children, which
\* decides when it is rebuilt.
RECURSIVE WellFormed(_, _, _)
WellFormed(node, level, prefix) ==
    LET Below(child, bit) == WellFormed(child, level + 1, prefix + bit * Width^level) IN
    IF node.kind = "array"
      THEN /\ node.count = Cardinality({bit \in Digits : node.nodes[bit] # NoObject})
           /\ node.count >= BitmapAt
           /\ \A bit \in Digits : node.nodes[bit] # NoObject => Below(node.nodes[bit], bit)
      ELSE /\ node.bits # {} /\ Cardinality(node.bits) <= MaxBitmap
           /\ DOMAIN node.array = 0..2 * Cardinality(node.bits) - 1
           /\ Unset \notin Range(node.array)
           /\ \A bit \in node.bits :
                LET i == Index(node, bit) IN
                IF IsNull(KeyAt(node, i)) THEN Below(ToObject(ValueAt(node, i)), bit)
                ELSE Hash(KeyAt(node, i)) % Width^(level + 1) = prefix + bit * Width^level

TrieIsWellFormed == map.root # NoObject => WellFormed(map.root, 0, 0)

\* Iteration meets exactly the keys that a search finds, each once and with
\* the value found, and count() says how many they are; equal keys (the two
\* zeros) find the same.  A key that is not a number is met and counted, and
\* never found.
IterationAgrees ==
    \E content \in {Content(map)}, entries \in {Iterate(map)} :
    \E found \in {SelectSeq(entries, LAMBDA entry : Equal(entry[1], entry[1]))} :
    /\ {<<Representative(entry[1]), entry[2]>> : entry \in ToSet(found)}
         = {<<k, content[k]>> : k \in DOMAIN content}
    /\ Len(found) = Cardinality(DOMAIN content)
    /\ map.count = Len(entries)
    /\ \A k \in KeyVariants :
         /\ ContainsKey(map, k) = (Equal(k, k) /\ Representative(k) \in DOMAIN content)
         /\ ContainsKey(map, k) => Get(map, k, Null) = content[Representative(k)]

\* A map made by adding entries one after the other, in a fixed order.
Made(content) ==
    FoldSet(LAMBDA k, m : Plus(m, k, content[k]), EmptyMap, DOMAIN content)

Colliding(j, k) == ~IsNull(j) /\ ~IsNull(k) /\ Hash(j) = Hash(k) /\ ~Equal(j, k)

Unlike(content, k) == k \notin DOMAIN content /\ \A j \in DOMAIN content : ~Colliding(j, k)

ValueVariants == {ToVariant(call[2]) : call \in Calls}

\* An entry less, another value, or another key.
Altered(content) ==
    UNION {{[k \in DOMAIN content \ {j} |-> content[k]]}
           \cup {[content EXCEPT ![j] = v] : v \in ValueVariants}
           \cup {(k :> content[j]) @@ [i \in DOMAIN content \ {j} |-> content[i]] :
                   k \in {k \in Searchable : Unlike(content, k)}} : j \in DOMAIN content}

\* The same keys, with equal values.
Alike(content, other) ==
    DOMAIN content = DOMAIN other /\ \A k \in DOMAIN content : Equal(content[k], other[k])

\* A map whose own value for some key is taken for "not found".
Confused(content, other) == \E k \in DOMAIN content : Equal(content[k], ObjectVariant(other))

\* equals() tells whether two maps have the same entries, from either side and
\* whatever the calls that made them, and maps with the same entries have the
\* same hash: every map is compared with new ones that have the same entries or
\* almost the same.  Left out are maps with a value equal to the other map,
\* which stands for "not found" in the comparison, and keys that are no numbers.
EqualityIsContent ==
    \A content \in {Content(map)} :
    map.count = Cardinality(DOMAIN content) =>
    \A altered \in {content} \cup Altered(content) : \E other \in {Made(altered)} :
      /\ ~Confused(content, other) => EqualMap(map, other) = Alike(content, altered)
      /\ ~Confused(altered, map)   => EqualMap(other, map) = Alike(altered, content)
      /\ altered = content => HashCode(map) = HashCode(other)

Finite == INSTANCE FiniteMap WITH
    Keys <- Searchable, Values <- ValueVariants, content <- Content(map)

\* The program ends in add() exactly when the map has another key with the same
\* hash: two numbers of different types will do, and a NaN added twice.
EndsOnCollision(k, v) ==
    AddFails(map, k, v) = \E entry \in ToSet(Iterate(map)) : Colliding(entry[1], k)

\* If it does not, the key has the new value and the other keys what they had,
\* unless the value equals the one the key has, which is kept.  A key that is
\* not a number changes nothing that a search finds.
AddIsSeen(content, k, v, new) ==
    IF ~Equal(k, k) THEN Content(new) = content
    ELSE \E rep \in {Representative(k)} :
           IF rep \in DOMAIN content /\ Equal(content[rep], v) THEN new = map
           ELSE Content(new) = Finite!With(content, rep, v)

\* get() of the public Map gives back a value that equals what was added, or
\* null for an object.
GetGivesBack(key, value, new) ==
    Equal(ToVariant(key), ToVariant(key)) =>
      EqualValues(MapGet(new, key), IF IsPrimitive(value) THEN value ELSE NullValue)

\* Without its key a map has the entries it had, and is the same map if it did
\* not have the key.
RemovalIsSeen(content, k) ==
    IF ContainsKey(map, k) THEN Content(Minus(map, k)) = Finite!Without(content, Representative(k))
                           ELSE Minus(map, k) = map

\* Whatever calls made a map, add() and remove() have their effect on it, and
\* none but theirs, or end the program for a known reason.
CallsTakeEffect ==
    \E content \in {Content(map)} :
      /\ \A call \in Calls :
           LET k == ToVariant(call[1])
               v == ToVariant(call[2])
           IN  /\ EndsOnCollision(k, v)
               /\ AddFails(map, k, v)
                  \/ \E new \in {Plus(map, k, v)} :
                       AddIsSeen(content, k, v, new) /\ GetGivesBack(call[1], call[2], new)
      /\ \A k \in KeyVariants :
           (~IsNull(k) => ~RemoveKey(map, k).failed) => RemovalIsSeen(content, k)

\* A collection that starts at the map visits every object that is a key or a
\* value of an entry.
RECURSIVE Visited(_)
Visited(obj) == Traverse(obj) \cup UNION {Visited(child) : child \in Traverse(obj)}

TraversalMeetsEntries ==
    \A entry \in ToSet(Iterate(map)) : \A i \in 1..2 :
      entry[i][1] = "Object" /\ ~IsNull(entry[i]) => ToObject(entry[i]) \in Visited(map)

\* add() and remove() do to what get() and containsKey() say of every key what
\* they do to a finite map.
ImplementsFiniteMap == Finite!Spec

\* The check of VariantArray::set holds in every call: no write to the array of
\* a new node is past its end.
WritesAreInBounds == aborted # "past the end"

=============================================================================
