---------------------------- MODULE TypeSignatures ----------------------------
(***************************************************************************)
(* The types of expressions: TypeSignature (type_signature.h), its numeric *)
(* conversions (compiler_helpers.cc) and the metadata signatures it is     *)
(* read from (cor_debug_helper.cc).                                        *)
(*                                                                         *)
(* A signature is a stream of PdbStream: sig_len is what is left of it.    *)
(* CorSigUncompressData is external and reads the same compressed integers *)
(* as a symbol file has.                                                   *)
(***************************************************************************)
EXTENDS PdbStream, TLC

CONSTANTS
    SzArrayNames,       \* names of types with "[]"
    ArrayNames          \* names of types with "[,]"

-----------------------------------------------------------------------------
(* Element types *)

\* CorElementType, as far as a signature of C# has them.
ElementType ==
    1 :> "VOID" @@ 2 :> "BOOLEAN" @@ 3 :> "CHAR" @@ 4 :> "I1" @@ 5 :> "U1"
    @@ 6 :> "I2" @@ 7 :> "U2" @@ 8 :> "I4" @@ 9 :> "U4" @@ 10 :> "I8"
    @@ 11 :> "U8" @@ 12 :> "R4" @@ 13 :> "R8" @@ 14 :> "STRING" @@ 16 :> "BYREF"
    @@ 17 :> "VALUETYPE" @@ 18 :> "CLASS" @@ 19 :> "VAR" @@ 20 :> "ARRAY"
    @@ 21 :> "GENERICINST" @@ 24 :> "I" @@ 25 :> "U" @@ 28 :> "OBJECT"
    @@ 29 :> "SZARRAY" @@ 30 :> "MVAR"

IsIntegralType(t) == t \in {"I1", "U1", "I2", "U2", "I4", "U4", "I8", "U8", "CHAR"}

IsNumericalType(t) == IsIntegralType(t) \/ t \in {"R4", "R8"}

IsObjectType(t) == t \in {"OBJECT", "CLASS", "VALUETYPE"}

\* ConvertCorElementTypeToString: fails for the types it does not list.
ClassName ==
    [BOOLEAN |-> "System.Boolean", I1 |-> "System.SByte", CHAR |-> "System.Char",
     U1 |-> "System.Byte", I2 |-> "System.Int16", U2 |-> "System.UInt16",
     I4 |-> "System.Int32", U4 |-> "System.UInt32", I8 |-> "System.Int64",
     U8 |-> "System.UInt64", R4 |-> "System.Single", R8 |-> "System.Double",
     I |-> "System.IntPtr", U |-> "System.UIntPtr", STRING |-> "System.String",
     OBJECT |-> "System.Object"]

kArrayClassName == "System.Array"

\* The table has no entry for Boolean, Single and Double, and the first of its
\* two entries for Char is BOOLEAN.
ConvertStringToCorElementType(name) ==
    LET listed == {"I1", "U1", "I2", "U2", "I4", "U4", "I8", "U8", "STRING", "OBJECT"}
    IN CASE name = ClassName.CHAR -> "BOOLEAN"
         [] \E t \in listed : ClassName[t] = name ->
                CHOOSE t \in listed : ClassName[t] = name
         [] name \in SzArrayNames -> "SZARRAY"
         [] name \in ArrayNames -> "ARRAY"
         [] OTHER -> "OBJECT"

-----------------------------------------------------------------------------
(* Numeric conversions *)

ConversionTargets ==
    [I1 |-> {"I1", "I2", "I4", "I8", "R4", "R8"},
     U1 |-> {"U1", "I2", "U2", "I4", "U4", "I8", "U8", "R4", "R8"},
     I2 |-> {"I2", "I4", "I8", "R4", "R8"},
     U2 |-> {"U2", "I4", "U4", "I8", "U8", "R4", "R8"},
     I4 |-> {"I4", "I8", "R4", "R8"},
     U4 |-> {"U4", "I8", "U8", "R4", "R8"},
     I8 |-> {"I8", "R4", "R8"},
     U8 |-> {"U8", "R4", "R8"},
     CHAR |-> {"CHAR", "U2", "I4", "U4", "I8", "U8", "R4", "R8"},
     R4 |-> {"R4", "R8"},
     R8 |-> {"R8"}]

IsImplicitNumericConversionable(source, target) ==
    source \in DOMAIN ConversionTargets /\ target \in ConversionTargets[source]

\* U2 is not among them.
IsNumericallyPromotedToInt(t) == t \in {"CHAR", "I1", "U1", "I2"}

IsSignedIntegralType(t) == t \in {"I1", "I2", "I4", "I8"}

\* Faulty variant: a signed operand does not make an unsigned int long.
PromotionKeepsU4(a, b) ==
    LET either == {a, b}
    IN CASE ~IsNumericalType(a) /\ ~IsNumericalType(b) -> "none"
         [] "R8" \in either -> "R8"
         [] "R4" \in either /\ "R8" \notin either -> "R4"
         [] OTHER -> IF "I8" \in either THEN "I8"
                     ELSE IF "U8" \in either THEN "U8"
                     ELSE IF "U4" \in either THEN "U4" ELSE "I4"

\* The type both operands are computed in; "none" is a type mismatch.  Refuses
\* two operands that are not numbers, not one.
BinaryNumericalPromotion(a, b) ==
    LET either == {a, b}
        signed == \E t \in either : IsSignedIntegralType(t)
    IN IF ~IsNumericalType(a) /\ ~IsNumericalType(b) THEN "none"
       ELSE IF "R8" \in either THEN "R8"
       ELSE IF "R4" \in either THEN "R4"
       ELSE IF "U8" \in either THEN IF signed THEN "none" ELSE "U8"
       ELSE IF "I8" \in either THEN "I8"
       ELSE IF "U4" \in either THEN IF signed THEN "I8" ELSE "U4"
       ELSE "I4"

-----------------------------------------------------------------------------
(* TypeSignature *)

Signature(cor_type, type_name) ==
    [cor_type |-> cor_type, type_name |-> type_name, generic_types |-> <<>>,
     is_array |-> FALSE, array_rank |-> 0]

Primitive(t) == Signature(t, ClassName[t])

NoSignature == Signature("END", "")

\* compare() = 0.  The rank counts only when one of the two is not an array.
RECURSIVE Equal(_, _)
Equal(a, b) ==
    /\ a.cor_type = b.cor_type
    /\ a.type_name = b.type_name
    /\ ~(a.is_array # b.is_array /\ a.array_rank # b.array_rank)
    /\ Len(a.generic_types) = Len(b.generic_types)
    /\ \A k \in DOMAIN a.generic_types : Equal(a.generic_types[k], b.generic_types[k])

-----------------------------------------------------------------------------
(* Metadata signatures *)

ParseCompressedBytes(s) == ReadCompressedUInt32(s)

\* The first byte has the bits of the calling convention in common with it.
kField == 6

kProperty == 8

HasBits(byte, mask) == \E k \in 0..7 : (byte \div 2^k) % 2 = 1 /\ (mask \div 2^k) % 2 = 1

ParseAndCheckFirstByte(s, convention) ==
    LET r == ParseCompressedBytes(s)
    IN IF r.ok /\ HasBits(r.v, convention) THEN r ELSE Fails(r.s)

\* Faulty variant: the numbers behind the count are not skipped.
SkipCountOnly(s) == ParseCompressedBytes(s)

\* A count and as many compressed integers.
SkipNumbers(count) ==
    IF count.ok
    THEN FoldLeft(LAMBDA r, k : IF r.ok THEN ParseCompressedBytes(r.s) ELSE r,
                  count, [k \in 1..count.v |-> k])
    ELSE count

ParseAndSkipBasedOnFirstByteSignature(s) == SkipNumbers(ParseCompressedBytes(s))

\* The two lowest bits of an encoded token say which table the rest is a row of.
TokenTables == <<"def", "ref", "spec">>

DecodeToken(encoded) ==
    [table |-> TokenTables[(encoded % 4) + 1], rid |-> encoded \div 4]

\* names are those of the rows of the tables "def" and "ref".
GetTypeNameFromMdToken(token, names) ==
    IF token.table = "spec" THEN NoName ELSE names[token.table][token.rid]

\* The parts of a type, each given what was read before it: a reading that
\* fails gives the signature as far as it was filled in.  bare has nothing but
\* the element type.
ArrayOf(bare, element) ==
    [bare EXCEPT !.type_name = kArrayClassName, !.is_array = TRUE,
                 !.generic_types = <<element>>]

ParseSzArray(bare, element) ==
    Result(element.ok, element.s, IF element.ok THEN ArrayOf(bare, element.v) ELSE bare)

\* The rank, the sizes and the lower bounds of the dimensions.
ParseArrayShape(bare, element, rank) ==
    LET sizes == ParseAndSkipBasedOnFirstByteSignature(rank.s)
        bounds == ParseAndSkipBasedOnFirstByteSignature(sizes.s)
    IN IF element.ok /\ rank.ok /\ sizes.ok /\ bounds.ok
       THEN Result(TRUE, bounds.s, [ArrayOf(bare, element.v) EXCEPT !.array_rank = rank.v])
       ELSE Result(FALSE, element.s, bare)

ParseArray(bare, element) ==
    ParseArrayShape(bare, element, ParseCompressedBytes(element.s))

\* CLASS and VALUETYPE
ParseNamedType(bare, number, names) ==
    LET name == GetTypeNameFromMdToken(DecodeToken(number.v), names)
    IN IF ~number.ok THEN Result(FALSE, number.s, bare)
       ELSE IF name = NoName THEN Result(FALSE, number.s, bare)
       ELSE Result(TRUE, number.s, Signature(ConvertStringToCorElementType(name), name))

\* VAR
ParseTypeParameter(bare, number, generics) ==
    IF number.ok /\ number.v < Len(generics)
    THEN Result(TRUE, number.s, generics[number.v + 1])
    ELSE Result(FALSE, number.s, bare)

AddTypeArgument(r, n) ==
    Result(n.ok, n.s, IF n.ok THEN [r.v EXCEPT !.generic_types = Append(@, n.v)] ELSE r.v)

\* Reads one type.  generics are the types that stand for the parameters of the
\* class.
RECURSIVE ParseTypeFromSig(_, _, _)

\* GENERICINST: element is the type without its arguments, count their number.
ParseTypeArguments(bare, element, count, names, generics) ==
    LET named == [bare EXCEPT !.type_name = element.v.type_name]
    IN IF ~element.ok THEN Result(FALSE, element.s, bare)
       ELSE IF ~count.ok THEN Result(FALSE, count.s, named)
       ELSE FoldLeft(LAMBDA r, k :
                         IF r.ok THEN AddTypeArgument(r, ParseTypeFromSig(r.s, names, generics))
                         ELSE r,
                     Result(TRUE, count.s, named), [k \in 1..count.v |-> k])

ParseGenericInst(bare, element, names, generics) ==
    ParseTypeArguments(bare, element, ParseCompressedBytes(element.s), names, generics)

ParseElementType(t, s, names, generics) ==
    CASE t \in DOMAIN ClassName -> Result(TRUE, s, Primitive(t))
      [] t = "SZARRAY" ->
            ParseSzArray(Signature(t, ""), ParseTypeFromSig(s, names, generics))
      [] t = "ARRAY" ->
            ParseArray(Signature(t, ""), ParseTypeFromSig(s, names, generics))
      [] t = "GENERICINST" ->
            ParseGenericInst(Signature(t, ""), ParseTypeFromSig(s, names, generics),
                             names, generics)
      [] t \in {"CLASS", "VALUETYPE"} ->
            ParseNamedType(Signature(t, ""), ParseCompressedBytes(s), names)
      [] t = "VAR" ->
            ParseTypeParameter(Signature(t, ""), ParseCompressedBytes(s), generics)
      [] OTHER -> Result(FALSE, s, Signature(t, ""))

\* The element type of the first byte.
CorElementType(byte) ==
    IF byte.ok /\ byte.v \in DOMAIN ElementType THEN ElementType[byte.v] ELSE "END"

ParseTypeFromSig(s, names, generics) ==
    ParseElementType(CorElementType(ReadByte(s)), ReadByte(s).s, names, generics)

ParseFieldSig(s, names, generics) ==
    LET first == ParseAndCheckFirstByte(s, kField)
    IN IF first.ok THEN ParseTypeFromSig(first.s, names, generics)
       ELSE Result(FALSE, first.s, NoSignature)

\* The number of parameters is read and not used.
ParsePropertySig(s, names, generics) ==
    LET first == ParseAndCheckFirstByte(s, kProperty)
        parameters == ParseCompressedBytes(first.s)
    IN IF first.ok /\ parameters.ok THEN ParseTypeFromSig(parameters.s, names, generics)
       ELSE Result(FALSE, first.s, NoSignature)
=============================================================================
