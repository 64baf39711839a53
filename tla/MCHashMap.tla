----------------------------- MODULE MCHashMap -----------------------------
(***************************************************************************)
(* The keys and values HashMap is checked with.  Hashes have three digits  *)
(* of four values, and each key is there for a case: numbers of two types  *)
(* and two zeros with one hash, a byte array, keys that share their first  *)
(* digit (0, 4, 8), a NaN that shares two digits with 1, and null.         *)
(***************************************************************************)
EXTENDS HashMap

Int64(n) == <<"Int64", n>>

Float64(bits) == <<"Float64", bits>>

\* Its hash is 4.
AString == <<"String", ByteArray(<<0, 4>>)>>

\* {1: null} and {4: {1: null}}: the second equals the first, but not the other
\* way round.
InnerMap == <<"Map", Plus(EmptyMap, Int64(1), Null)>>

OuterMap == <<"Map", Plus(EmptyMap, Int64(4), ToVariant(InnerMap))>>

\* With a hash of 17.
ANaN == Float64(7)

MCCalls ==
    {<<key, NullValue>> : key \in {Int64(0), Float64(0), Float64(MinusZero), Int64(1), ANaN,
                                   <<"Int16", 8>>, AString, NullValue}}
    \cup {<<Int64(3), value>> : value \in {Int64(1), InnerMap, OuterMap}}
    \cup {<<NullValue, InnerMap>>}

MCNaNs == {7, 17}

=============================================================================
