------------------------------ MODULE Variants ------------------------------
(***************************************************************************)
(* Values as the heap keeps them: variants (a type and data), the arrays   *)
(* of variants inside trie nodes, byte arrays, what == and hash() say of   *)
(* their data, and the public values they come from.                       *)
(*                                                                         *)
(*   source                           here                                 *)
(*   Variant: type_, data_            <<type, data>>                       *)
(*   an integer or a bool             the number, as hash() widens it      *)
(*   a float or a double              a number for the bits of the double  *)
(*   nullptr                          NoObject                             *)
(*   VariantArray                     a function from 0..length - 1        *)
(*   ByteArray: size_, data()         size, data                           *)
(*                                                                         *)
(* MurmurHash3 is library code: here it is the number the bytes spell,     *)
(* modulo the number of hashes.                                            *)
(***************************************************************************)
EXTENDS Integers, Sequences, FiniteSets, SequencesExt

CONSTANTS
    NoObject,
    MinusZero,      \* the bits of -0.0; those of 0.0 are 0
    NaNs,           \* the bits of values that are not a number
    QuietNaN,       \* numeric_limits<double>::quiet_NaN()
    HashRange       \* 2^32

ASSUME VariantsAssumption ==
    /\ HashRange \in Nat \ {0} /\ MinusZero \in Nat \ {0}
    /\ QuietNaN \in NaNs /\ NaNs \subseteq Nat \ {0, MinusZero}

FloatTypes == {"Float32", "Float64"}

IntegerTypes ==
    {"Bool", "Int8", "UInt8", "Int16", "UInt16", "Int32", "UInt32", "Int64", "UInt64"}

Null == <<"Object", NoObject>>

ObjectVariant(obj) == <<"Object", obj>>

IsNull(v) == v = Null

ToObject(v) == v[2]

-----------------------------------------------------------------------------
(* Equality and hashes of data *)

\* == of doubles
EqualFloats(x, y) ==
    /\ x \notin NaNs /\ y \notin NaNs
    /\ x = y \/ {x, y} = {0, MinusZero}

MurmurHash3(bits) == bits % HashRange

HashOfDouble(x) ==
    MurmurHash3(CASE x = MinusZero -> 0 [] x \in NaNs -> QuietNaN [] OTHER -> x)

\* The shifts and the exclusive or are abstracted to arithmetic that depends on
\* the order of the calls as they do.
HashCombine(seed, hash) == (3 * seed + hash + 1) % HashRange

-----------------------------------------------------------------------------
(* Byte arrays *)

\* ByteArray::valueOf: the bytes and a zero after them.
ByteArray(bytes) == [kind |-> "ByteArray", size |-> Len(bytes), data |-> Append(bytes, 0)]

Bytes(array) == SubSeq(array.data, 1, array.size)

EqualByteArray(array, other) ==
    other # NoObject /\ other.kind = "ByteArray" /\ Bytes(array) = Bytes(other)

HashOfByteArray(array) == MurmurHash3(FoldLeft(LAMBDA n, b : 8 * n + b, 0, Bytes(array)))

-----------------------------------------------------------------------------
(* Arrays of variants.  Their memory is not cleared when it is allocated:  *)
(* a cell holds Unset until it is written.                                 *)

Unset == <<"Unset">>

NewArray(length) == [i \in 0..length - 1 |-> Unset]

Cleared(array) == [i \in DOMAIN array |-> Null]

\* WORTHY_DCHECK(index < length_)
InBounds(array, index) == index \in DOMAIN array

Set(array, index, v) == [i \in DOMAIN array |-> IF i = index THEN v ELSE array[i]]

\* copy(dst_index, src, src_index, length)
Copy(array, to, src, from, length) ==
    [i \in DOMAIN array |-> IF i \in to..to + length - 1 THEN src[from + i - to] ELSE array[i]]

\* The pointers a traversal visits.
Traversed(array) == {array[i][2] : i \in {i \in DOMAIN array : array[i][1] = "Object"}} \ {NoObject}

-----------------------------------------------------------------------------
(* Public values: the same, but null has a type of its own, and so has each *)
(* kind of object, which a handle stands for                                *)

NullValue == <<"Null", NoObject>>

IsPrimitive(value) == value[1] \in FloatTypes \cup IntegerTypes

ToVariant(value) ==
    CASE value = NullValue    -> Null
      [] IsPrimitive(value)   -> value
      [] OTHER                -> ObjectVariant(value[2])

\* Objects are not converted back: a TODO of the code.
ToValue(v) == IF v[1] = "Object" THEN NullValue ELSE v

=============================================================================
