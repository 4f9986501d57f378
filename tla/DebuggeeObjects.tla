---------------------------- MODULE DebuggeeObjects ----------------------------
(***************************************************************************)
(* How the values of a stopped debuggee become DbgObjects and are shown:   *)
(* DbgObjectFactory (dbg_object_factory.cc), the objects it makes          *)
(* (dbg_primitive.h, dbg_string.cc, dbg_array.cc, dbg_class.cc,            *)
(* dbg_enum.cc), their members (dbg_class_field.cc, dbg_class_property.cc) *)
(* and the constants of a method (dbg_stack_frame.cc).                     *)
(*                                                                         *)
(* An ICorDebugValue is lost when the debuggee runs, and evaluating a      *)
(* property makes it run.  So an object keeps a copy of a value type, with *)
(* all its members, and a strong handle to anything else, whose members    *)
(* are read when they are shown.                                           *)
(*                                                                         *)
(* A 64-bit number is the set of its bits.  bad is the one call that       *)
(* fails, or NoFailure.  The members of arrays and collections are in      *)
(* BreakpointReport: here such an object has none.                         *)
(***************************************************************************)
EXTENDS NameLookup

CONSTANTS
    Types,                      \* ICorDebugTypes
    Values,                     \* ICorDebugValues of the stopped debuggee
    Locals,                     \* the local variables of the frame: names and values
    LocalConstants,             \* its constants: names and signature blobs
    FrameModule,                \* the module of its method
    Collections,                \* kListClassName, kHashSetClassName, kDictionaryClassName
    kReferenceDepth,            \* 10
    kDefaultObjectEvalDepth,    \* 5
    PropertyEvaluation,         \* the option of the debugger
    Failures,                   \* the calls that may fail
    Beyond,                     \* what a byte behind the end of an array may be
    MaxHits,                    \* bound on the hits of a behaviour
    MaxFailures                 \* bound on the failing calls of a hit

\* A null pointer, and a class that a type does not have.
Nil == ""

NoClass == [module |-> 0, type |-> 0]

\* A static member has a value in each type of its class, and it is a value
\* without members: how the members of a cached object are shared is in
\* BreakpointReport.
WithoutMembers(member) ==
    member.static /\ ~member.literal => \A t \in DOMAIN member.value :
        LET v == Values[member.value[t]]
        IN /\ v.kind # "object"
           /\ v.kind = "reference" /\ v.to # Nil => Values[v.to].kind = "string"

ASSUME StaticsAssumption ==
    \A m \in DOMAIN Modules : \A k \in DOMAIN Modules[m].types :
        LET class == Modules[m].types[k]
        IN /\ \A j \in DOMAIN class.fields : WithoutMembers(class.fields[j])
           /\ \A j \in DOMAIN class.properties : WithoutMembers(class.properties[j])

ASSUME LimitsAssumption ==
    /\ kReferenceDepth \in Nat \ {0}
    /\ kDefaultObjectEvalDepth \in Nat \ {0}
    /\ MaxHits \in Nat /\ MaxFailures \in Nat
    /\ Beyond \subseteq Byte /\ Beyond # {}

\* s, whose elements TLC works out once and not at each use.
Strict(s) == SubSeq(s, 1, Cardinality(DOMAIN s))

-----------------------------------------------------------------------------
(* Numbers *)

\* Bytes of the C++ type that an element type is read as.
Width ==
    [BOOLEAN |-> 1, CHAR |-> 1, I1 |-> 1, U1 |-> 1, I2 |-> 2, U2 |-> 2, I4 |-> 4, U4 |-> 4,
     I8 |-> 8, U8 |-> 8, I |-> 8, U |-> 8, R4 |-> 4, R8 |-> 8]

SignedTypes == {"CHAR", "I1", "I2", "I4", "I8", "I"}

Bits(bytes) ==
    {8 * (p[1] - 1) + p[2] :
        p \in {q \in (DOMAIN bytes) \X (0..7) : (bytes[q[1]] \div 2^q[2]) % 2 = 1}}

\* The number at the start of bytes, converted to 64 bits.  Bytes that are read
\* and are not there have the value beyond.
ULONG64(t, bytes, beyond) ==
    LET width == Width[t]
        read == [k \in 1..width |-> IF k \in DOMAIN bytes THEN bytes[k] ELSE beyond]
        low == Bits(read)
    IN IF t \in SignedTypes /\ 8 * width - 1 \in low THEN low \cup (8 * width)..63 ELSE low

\* 0 for a type that is not integral.
ExtractEnumValue(t, bytes, beyond) ==
    IF t \in DOMAIN Width \ {"BOOLEAN", "R4", "R8"} THEN ULONG64(t, bytes, beyond) ELSE {}

-----------------------------------------------------------------------------
(* Objects *)

\* A DbgObject that has just been allocated.  enum holds the underlying value
\* and its type; native is the type parameter of a DbgPrimitive.
DbgObject(kind, depth) ==
    [kind |-> kind, depth |-> depth, cor |-> "END", native |-> "END", is_null |-> FALSE,
     initialize_hr |-> "S_OK", object_handle |-> Nil, value |-> {}, text |-> <<>>,
     class |-> NoClass, class_name |-> NoName, debug_type |-> Nil, generics |-> <<>>,
     rank |-> 0, enum_type |-> "END", enum_bytes |-> <<>>,
     processed |-> FALSE, fields |-> <<>>, properties |-> <<>>]

NoObject == DbgObject("none", 0)

\* What a function returns: the object, and in order the static members and the
\* enums it has come across, and a null pointer it has followed.
Made(o, log) == [ok |-> TRUE, o |-> o, log |-> log]

NotMadeBut(log) == [ok |-> FALSE, o |-> NoObject, log |-> log]

NotMade == NotMadeBut(<<>>)

NullPointerLog == <<[what |-> "crash"]>>

TypeString(name, arguments, rank) ==
    [ok |-> TRUE, name |-> name, arguments |-> arguments, rank |-> rank]

NoTypeString == [TypeString(NoName, <<>>, 0) EXCEPT !.ok = FALSE]

\* A boxed native integer has VALUETYPE for its element type and is shown as
\* an integer of 64 bits.
GetTypeString(o) ==
    CASE o.kind = "primitive" ->
            LET core == IF o.cor \in {"I", "U"} THEN o.cor
                        ELSE IF o.native = "I" THEN "I8"
                        ELSE IF o.native = "U" THEN "U8"
                        ELSE o.native
            IN TypeString(ClassName[core], <<>>, 0)
      [] o.kind = "string" -> TypeString(ClassName.STRING, <<>>, 0)
      [] o.kind \notin {"primitive", "string"} ->
            IF o.initialize_hr = "FAIL" THEN NoTypeString
            ELSE IF \E k \in DOMAIN o.generics : ~o.generics[k].ok THEN NoTypeString
            ELSE IF o.kind = "array"
                 THEN [o.generics[1] EXCEPT !.rank = @ + o.rank]
            ELSE TypeString(o.class_name, o.generics, 0)

-----------------------------------------------------------------------------
(* ICorDebugValue (cor_debug_helper.cc) *)

\* The values that v leads to, v first: a reference that is null ends them.
Follow(chain, value) ==
    IF value.kind = "reference" /\ value.to # Nil THEN Append(chain, value.to) ELSE chain

References(v) ==
    FoldLeft(LAMBDA chain, k : Follow(chain, Values[Last(chain)]), <<v>>,
             [k \in 1..kReferenceDepth |-> k])

Dereferenced(chain, bad) ==
    IF \/ Len(chain) > kReferenceDepth
       \/ \E k \in DOMAIN chain : bad = <<"Dereference", chain[k]>>
    THEN [ok |-> FALSE]
    ELSE [ok |-> TRUE, v |-> Last(chain), is_null |-> Values[Last(chain)].kind = "reference"]

\* Follows references to a value that is none or is null.
Dereference(v, bad) == Dereferenced(References(v), bad)

Unboxed(found, value, bad) ==
    IF value.kind # "box" THEN found
    ELSE IF bad = <<"GetObject", found.v>> THEN [ok |-> FALSE]
    ELSE [found EXCEPT !.v = value.to]

Unbox(found, bad) == IF ~found.ok THEN found ELSE Unboxed(found, Values[found.v], bad)

DereferenceAndUnbox(v, bad) == Unbox(Dereference(v, bad), bad)

\* An HRESULT: a value without ICorDebugValue2 has no type of its own.
GetICorDebugType(v, bad) ==
    IF bad = <<"ICorDebugValue2", v>> THEN "E_NOINTERFACE"
    ELSE IF bad = <<"GetExactType", v>> THEN "FAIL"
    ELSE "S_OK"

Element(v) == Types[Values[v].type].element

\* A handle is the value it keeps alive; a value type has none.
HandleTo(v, value, bad) ==
    IF \/ value.kind \notin {"string", "array", "object"}
       \/ Types[value.type].element = "VALUETYPE"
       \/ bad = <<"CreateHandle", v>>
    THEN Nil
    ELSE v

CreateStrongHandle(v, bad) == IF v = Nil THEN Nil ELSE HandleTo(v, Values[v], bad)

-----------------------------------------------------------------------------
(* Constants *)

CodeUnits(bytes) ==
    [k \in 1..(Len(bytes) \div 2) |-> bytes[2 * k - 1] + 256 * bytes[2 * k]]

NumericConst(t, number) ==
    [ok |-> TRUE,
     o |-> [DbgObject("primitive", 0) EXCEPT
               !.cor = CASE t = "I" -> "I8" [] t = "U" -> "U8" [] OTHER -> t,
               !.native = t, !.value = number],
     n |-> IF t \in {"R4", "R8"} THEN {} ELSE number]

\* A constant of type t.  n is its numeric value, which floating point and
\* strings do not have.
CreateDbgObjectFromLiteralConst(t, bytes) ==
    IF t \in DOMAIN Width THEN NumericConst(t, ULONG64(t, bytes, 0))
    ELSE IF t = "STRING"
         THEN [ok |-> TRUE, n |-> {},
               o |-> [DbgObject("string", 0) EXCEPT !.cor = t, !.text = CodeUnits(bytes)]]
    ELSE [ok |-> FALSE]

\* What ProcessConstantSigBlob takes a constant to occupy.
ConstantSize == [Width EXCEPT !.I = 1, !.U = 1] @@ [STRING |-> 0]

\* Faulty variant: the value is read from where its type is.
ConstantSigBlobFromType(blob) ==
    LET t == ElementType[blob[1]]
        size == ConstantSize[t]
    IN IF t = "STRING" \/ Len(blob) <= size THEN [ok |-> FALSE]
       ELSE [ok |-> TRUE, type |-> t, value |-> SubSeq(blob, 1, size),
             remaining |-> SubSeq(blob, size + 2, Len(blob))]

\* The type, the bytes of the value and, for the constant of an enum, the
\* bytes of its token.
ProcessConstantSigBlob(blob) ==
    LET t == IF blob[1] \in DOMAIN ElementType THEN ElementType[blob[1]] ELSE "END"
        rest == Tail(blob)
        size == ConstantSize[t]
    IN IF blob = <<>> \/ t \notin DOMAIN ConstantSize \/ Len(rest) < size THEN [ok |-> FALSE]
       ELSE IF t = "STRING"
            THEN IF Len(rest) % 2 # 0 THEN [ok |-> FALSE]
                 ELSE [ok |-> TRUE, type |-> t, value |-> rest, remaining |-> <<>>]
       ELSE [ok |-> TRUE, type |-> t, value |-> SubSeq(rest, 1, size),
             remaining |-> SubSeq(rest, size + 1, Len(rest))]

\* A class whose name can be read.
ReadableClass(class, bad) ==
    [ok |-> NamesOf(class.module, bad).def[class.type] # NoName, class |-> class]

ClassOfTypeDef(rid, m, bad) ==
    IF rid \notin DOMAIN Modules[m].types THEN [ok |-> FALSE]
    ELSE ReadableClass([module |-> m, type |-> rid], bad)

ClassResolved(resolved, bad) ==
    IF resolved.ok THEN ReadableClass(resolved.v, bad) ELSE [ok |-> FALSE]

ClassOfReference(rid, m, bad) ==
    IF rid \notin DOMAIN Modules[m].refs \/ bad = <<"EnumerateAssemblies">>
    THEN [ok |-> FALSE]
    ELSE ClassResolved(
            GetMdTypeDefAndMetaDataFromTypeRef(
                rid, m,
                EnumerateICorDebugSpecifiedType([k \in DOMAIN Modules |-> k], bad), bad),
            bad)

\* The class of an encoded token of module m.
GetTypeInfoFromEncodedToken(encoded, m, bad) ==
    CASE encoded % 4 = 0 -> ClassOfTypeDef(encoded \div 4, m, bad)
      [] encoded % 4 = 1 -> ClassOfReference(encoded \div 4, m, bad)
      [] OTHER -> [ok |-> FALSE]

\* The token of the enum is the third byte of the field's signature.
GetEnumInfoFromFieldMetaDataSignature(signature, m, bad) ==
    IF Len(signature) < 3 THEN [ok |-> FALSE]
    ELSE GetTypeInfoFromEncodedToken(signature[3], m, bad)

kEnumClassName == "System.Enum"

RECURSIVE ConstantEnum(_, _, _, _)

LocalEnum(info, t, n, bad) ==
    IF info.ok THEN ConstantEnum(info.class, t, n, bad) ELSE NotMade

\* The token is read as it is stored, by the number of its bytes.
ProcessLocalEnumConstant(t, n, remaining, bad) ==
    IF Len(remaining) \notin {1, 2, 4, 8} \/ ~HasMetadataImport(FrameModule, bad)
    THEN NotMade
    ELSE LocalEnum(GetTypeInfoFromEncodedToken(
                       FoldLeft(LAMBDA sum, k : sum + remaining[k] * 256^(k - 1), 0,
                                [k \in DOMAIN remaining |-> k]),
                       FrameModule, bad),
                   t, n, bad)

\* The object of a local constant, if it has one.
LocalLiteral(sig, literal, bad) ==
    IF ~literal.ok THEN NotMade
    ELSE IF sig.remaining = <<>> THEN Made(literal.o, <<>>)
    ELSE ProcessLocalEnumConstant(sig.type, literal.n, sig.remaining, bad)

LocalOfSignature(sig, bad) ==
    IF ~sig.ok THEN NotMade
    ELSE LocalLiteral(sig, CreateDbgObjectFromLiteralConst(sig.type, sig.value), bad)

LocalConstant(blob, bad) == LocalOfSignature(ProcessConstantSigBlob(blob), bad)

-----------------------------------------------------------------------------
(* Fields and properties *)

RECURSIVE CreateDbgObject(_, _, _), CreateDbgObjectOfType(_, _)

FieldOf(class, k) == ClassOf(class).fields[k]

\* A member, field or property k of its class, before its value is known.  type
\* is the type of the object that it has been made for.
Member(f, kind, class, t, k, depth) ==
    [name |-> f.name, kind |-> kind, class |-> class, type |-> t, index |-> k,
     depth |-> depth, static |-> f.static, hr |-> "S_OK", value |-> NoObject]

Without(member) == [m |-> member, log |-> <<>>]

FailedField(member) == Without([member EXCEPT !.hr = "FAIL"])

WithValue(member, made) ==
    [m |-> [member EXCEPT !.value = made.o, !.hr = IF made.ok THEN "S_OK" ELSE "FAIL"],
     log |-> made.log]

EnumOfField(member, info, t, n, bad) ==
    IF info.ok THEN WithValue(member, ConstantEnum(info.class, t, n, bad))
    ELSE FailedField(member)

\* The field of an enum itself has no value: its type would lead back to it.
\* The base of a class that cannot be read is asked for all the same, by a token
\* without a value: that the base has no name is one outcome of it.
ProcessConstEnumField(member, f, n, bad) ==
    IF bad = <<"GetBaseName", member.class>> THEN FailedField(member)
    ELSE IF ClassOf(member.class).base = kEnumClassName THEN Without(member)
    ELSE EnumOfField(member,
                     GetEnumInfoFromFieldMetaDataSignature(f.sig, member.class.module, bad),
                     f.default_type, n, bad)

ConstOfField(member, f, literal, bad) ==
    IF ~literal.ok THEN FailedField(member)
    ELSE IF f.sig[2] \in DOMAIN ElementType /\ ElementType[f.sig[2]] = "VALUETYPE"
         THEN ProcessConstEnumField(member, f, literal.n, bad)
    ELSE WithValue(member, Made(literal.o, <<>>))

ProcessConstField(member, f, bad) ==
    ConstOfField(member, f, CreateDbgObjectFromLiteralConst(f.default_type, f.default), bad)

\* DbgClassField: field k of the object v, or of a class when v is Nil.  Its
\* properties are asked for twice: without the first answer it has none, without
\* the second only its name is missing.
InitializeMember(member, f, v, bad) ==
    IF bad = <<"GetFieldProps", member.class, member.index>>
    THEN FailedField([member EXCEPT !.name = NoName, !.static = FALSE])
    ELSE IF bad = <<"GetFieldName", member.class, member.index>>
         THEN FailedField([member EXCEPT !.name = NoName])
    ELSE IF f.literal THEN ProcessConstField(member, f, bad)
    ELSE IF f.static THEN Without(member)
    ELSE IF v = Nil \/ bad = <<"GetFieldValue", v, member.index>> THEN FailedField(member)
    ELSE WithValue(member, CreateDbgObject(Values[v].fields[f.name], member.depth, bad))

InitializeField(f, class, t, k, v, depth, bad) ==
    InitializeMember(Member(f, "field", class, t, k, depth), f, v, bad)

LogOfMember(m) == IF m.static THEN <<[what |-> "static", member |-> m]>> ELSE <<>>

\* The static field among what is logged.
LogOfField(initialized) == initialized.log \o LogOfMember(initialized.m)

Fields(initialized) ==
    [ok |-> TRUE, fields |-> Strict([k \in DOMAIN initialized |-> initialized[k].m]),
     log |-> FlattenSeq([k \in DOMAIN initialized |-> LogOfField(initialized[k])])]

InitializeFields(fields, class, t, v, depth, bad) ==
    Strict([k \in DOMAIN fields |-> InitializeField(fields[k], class, t, k, v, depth, bad)])

\* The fields of a class in order.  A static one is what the cache has or gets.
ProcessFields(class, t, v, depth, bad) ==
    IF bad = <<"EnumFields", class>> THEN [ok |-> FALSE]
    ELSE Fields(InitializeFields(ClassOf(class).fields, class, t, v, depth - 1, bad))

\* The members of an enum, whose constants leave their values in the dictionary.
EnumLog(class, fields) ==
    fields.log \o <<[what |-> "enum", class |-> class, fields |-> fields.fields]>>

EnumOfFields(o, fields) ==
    IF fields.ok THEN Made(o, EnumLog(o.class, fields)) ELSE NotMade

\* DbgEnum for a constant of class.
ConstantEnum(class, t, n, bad) ==
    EnumOfFields([DbgObject("enum", 1) EXCEPT !.cor = "VALUETYPE", !.class = class,
                                              !.class_name = ClassOf(class).name,
                                              !.enum_type = t, !.value = n],
                 ProcessFields(class, Nil, Nil, 1, bad))

\* DbgClassProperty: without the second answer its name is missing.
InitializeProperty(p, class, t, k, depth, bad) ==
    LET m == Member(p, "property", class, t, k, depth)
    IN IF bad = <<"GetPropertyName", class, k>>
       THEN [m EXCEPT !.name = NoName, !.hr = "FAIL"] ELSE m

\* The names of the properties that a field stands for.
Backed(fields) ==
    {fields[k].name :
        k \in {j \in DOMAIN fields : /\ FieldOf(fields[j].class, fields[j].index).backing
                                     /\ fields[j].name # NoName}}

Properties(members) ==
    [ok |-> TRUE, properties |-> members,
     log |-> FlattenSeq([k \in DOMAIN members |-> LogOfMember(members[k])])]

\* The properties without a backing field.  Whether a property is static is in
\* its signature, which there is none of without the first answer.
ProcessProperties(o, fields, bad) ==
    LET properties == ClassOf(o.class).properties
        Initialized(k) == InitializeProperty(properties[k], o.class, o.debug_type, k,
                                             o.depth - 1, bad)
    IN IF bad = <<"EnumProperties", o.class>> THEN [ok |-> FALSE, log |-> <<>>]
       ELSE IF \E k \in DOMAIN properties : bad = <<"GetPropertyProps", o.class, k>>
            THEN [ok |-> FALSE, log |-> NullPointerLog]
       ELSE Properties(SelectSeq(Strict([k \in DOMAIN properties |-> Initialized(k)]),
                                 LAMBDA p : p.name \notin Backed(fields)))

WithProperties(o, fields, properties) ==
    IF ~properties.ok THEN NotMadeBut(fields.log \o properties.log)
    ELSE Made([o EXCEPT !.fields = fields.fields, !.properties = properties.properties],
              fields.log \o properties.log)

WithFields(o, fields, bad) ==
    IF ~fields.ok THEN NotMade
    ELSE WithProperties(o, fields, ProcessProperties(o, fields.fields, bad))

\* The members of the class object o, read from v.
ProcessClassMembersHelper(o, v, bad) ==
    IF bad = <<"ICorDebugObjectValue", v>> THEN NotMade
    ELSE IF o.depth <= 0 THEN Made(o, <<>>)
    ELSE WithFields(o, ProcessFields(o.class, o.debug_type, v, o.depth, bad), bad)

-----------------------------------------------------------------------------
(* DbgObjectFactory *)

\* DbgPrimitive::SetValue
SetFromBytes(o, v, bytes, bad) ==
    IF bytes = <<>> \/ bad = <<"GetValue", v>>
    THEN [ok |-> FALSE, o |-> [o EXCEPT !.initialize_hr = "FAIL"]]
    ELSE [ok |-> TRUE, o |-> [o EXCEPT !.value = ULONG64(o.native, bytes, 0)]]

SetValue(o, v, bad) == SetFromBytes(o, v, Values[v].bytes, bad)

ProcessClassName(class, bad) == NamesOf(class.module, bad).def[class.type]

\* NoName for a type without a base.
ProcessBaseClassName(t, bad) ==
    IF t = Nil THEN [ok |-> FALSE]
    ELSE IF bad = <<"GetBase", t>> THEN [ok |-> FALSE]
    ELSE [ok |-> TRUE, name |-> ClassOf(Types[t].class).base]

\* The primitive type that a class stands for.
PrimitiveNamed(class_name) == {t \in DOMAIN Width : ClassName[t] = class_name}

MadeIfSet(set) == IF set.ok THEN Made(set.o, <<>>) ELSE NotMade

ProcessPrimitiveType(v, class_name, bad) ==
    MadeIfSet(SetValue([DbgObject("primitive", 0) EXCEPT
                           !.native = CHOOSE t \in PrimitiveNamed(class_name) : TRUE],
                       v, bad))

\* The type of an enum is the first byte of the signature of its value, which
\* says that it is the signature of a field.
UnderlyingType(fields) ==
    LET value == {k \in DOMAIN fields : ~fields[k].static /\ fields[k].name = "value__"}
        sig == FieldOf(fields[Min(value)].class, fields[Min(value)].index).sig
    IN IF value = {} THEN "END" ELSE ElementType[sig[1]]

EnumOfBytes(o, bytes, fields) ==
    IF fields.ok
    THEN EnumOfFields([o EXCEPT !.kind = "enum", !.enum_bytes = bytes,
                                !.enum_type = UnderlyingType(fields.fields)],
                      fields)
    ELSE NotMade

ProcessEnum(o, v, bad) ==
    IF Values[v].bytes = <<>> \/ bad = <<"GetValue", v>> THEN NotMade
    ELSE EnumOfBytes(o, Values[v].bytes,
                     ProcessFields(o.class, o.debug_type, Nil, o.depth, bad))

\* Faulty variant: the members of a value type are left for later, too.
CreateDbgClassObjectLazily(t, depth, v, is_null, bad) ==
    LET class == Types[IF t = Nil THEN Values[v].type ELSE t].class
        class_name == ProcessClassName(class, bad)
        o == [DbgObject("class", depth) EXCEPT !.class = class, !.class_name = class_name,
                                               !.debug_type = t]
    IN IF class_name = NoName THEN NotMade
       ELSE IF is_null THEN Made(o, <<>>)
       ELSE IF PrimitiveNamed(class_name) # {} THEN ProcessPrimitiveType(v, class_name, bad)
       ELSE IF ~ProcessBaseClassName(t, bad).ok THEN NotMade
       ELSE IF ProcessBaseClassName(t, bad).name = kEnumClassName THEN ProcessEnum(o, v, bad)
       ELSE Made(o, <<>>)

WithMembers(members) ==
    IF ~members.ok THEN members ELSE Made([members.o EXCEPT !.processed = TRUE], members.log)

ClassObject(class, class_name, t, depth) ==
    [DbgObject(IF class_name \in Collections THEN "collection" ELSE "class", depth)
        EXCEPT !.class = class, !.class_name = class_name, !.debug_type = t]

\* An enum, a value type with all its members, or a class.
EnumOrClass(o, v, base, bad) ==
    IF ~base.ok THEN NotMade
    ELSE IF base.name = kEnumClassName THEN ProcessEnum(o, v, bad)
    ELSE IF Element(v) # "VALUETYPE" THEN Made(o, <<>>)
    ELSE WithMembers(ProcessClassMembersHelper(o, v, bad))

ObjectOfName(class, class_name, t, depth, v, is_null, bad) ==
    IF \/ bad \in {<<"GetClass", t>>, <<"GetModuleName", class.module>>}
       \/ ~HasMetadataImport(class.module, bad)
       \/ class_name = NoName
    THEN NotMade
    ELSE IF is_null
         THEN Made([ClassObject(class, class_name, t, depth) EXCEPT !.kind = "class"], <<>>)
    ELSE IF PrimitiveNamed(class_name) # {} THEN ProcessPrimitiveType(v, class_name, bad)
    ELSE EnumOrClass(ClassObject(class, class_name, t, depth), v,
                     ProcessBaseClassName(t, bad), bad)

ObjectOfClass(class, t, depth, v, is_null, bad) ==
    ObjectOfName(class, ProcessClassName(class, bad), t, depth, v, is_null, bad)

\* A class, a boxed primitive, an enum, or a value type.
CreateDbgClassObject(t, depth, v, is_null, bad) ==
    IF t = Nil /\ Values[v].kind # "object" THEN NotMade
    ELSE ObjectOfClass(Types[IF t = Nil THEN Values[v].type ELSE t].class,
                       t, depth, v, is_null, bad)

\* The types of the parameters of t, from empty objects.
TypesOfEmpty(t, empty, bad) ==
    IF bad = <<"EnumerateTypeParameters", t>> \/ \E k \in DOMAIN empty : ~empty[k].ok
    THEN [ok |-> FALSE]
    ELSE [ok |-> TRUE, v |-> [k \in DOMAIN empty |-> GetTypeString(empty[k].o)]]

ProcessParameterizedType(t, bad) ==
    LET Empty(generics) ==
            Strict([k \in DOMAIN generics |-> CreateDbgObjectOfType(generics[k], bad)])
    IN TypesOfEmpty(t, Empty(Types[t].generics), bad)

WithHandle(o, handle) ==
    IF handle = Nil THEN [o EXCEPT !.initialize_hr = "FAIL"]
    ELSE [o EXCEPT !.object_handle = handle]

WithParameters(o, parameters, t, v, bad) ==
    IF ~parameters.ok THEN [o EXCEPT !.initialize_hr = "FAIL"]
    ELSE IF Types[t].element = "VALUETYPE" \/ o.is_null
         THEN [o EXCEPT !.generics = parameters.v]
    ELSE WithHandle([o EXCEPT !.generics = parameters.v], CreateStrongHandle(v, bad))

InitializeClass(o, t, v, bad) ==
    IF t = Nil THEN o
    ELSE WithParameters(o, ProcessParameterizedType(t, bad), t, v, bad)

InitializeString(o, v, bad) ==
    IF o.is_null THEN o ELSE WithHandle(o, CreateStrongHandle(v, bad))

WithDimensions(o, v, bad) ==
    IF bad = <<"GetDimensions", v>> THEN [o EXCEPT !.initialize_hr = "FAIL"] ELSE o

\* The type of the elements is the one of an empty object.
ArrayOfEmpty(o, empty, rank, v, bad) ==
    LET typed == [o EXCEPT !.generics = <<GetTypeString(empty.o)>>, !.rank = rank]
    IN IF ~empty.ok THEN [o EXCEPT !.initialize_hr = "FAIL"]
       ELSE IF o.is_null THEN typed
       ELSE WithDimensions(WithHandle(typed, CreateStrongHandle(v, bad)), v, bad)

InitializeArray(o, t, v, bad) ==
    IF t = Nil THEN [o EXCEPT !.initialize_hr = "FAIL"]
    ELSE ArrayOfEmpty(o, CreateDbgObjectOfType(Types[t].of, bad), Types[t].rank, v, bad)

InitializePrimitive(o, v, bad) == IF v = Nil THEN o ELSE SetValue(o, v, bad).o

Initialize(o, t, v, is_null, bad) ==
    CASE o.kind = "primitive" -> InitializePrimitive(o, v, bad)
      [] o.kind = "string" -> InitializeString([o EXCEPT !.is_null = is_null], v, bad)
      [] o.kind = "array" -> InitializeArray([o EXCEPT !.is_null = is_null], t, v, bad)
      [] OTHER -> InitializeClass([o EXCEPT !.is_null = is_null], t, v, bad)

Initialized(allocated, v, t, cor, is_null, bad) ==
    IF ~allocated.ok THEN allocated
    ELSE IF v # Nil /\ bad = <<"GetAddress", v>> THEN NotMadeBut(allocated.log)
    ELSE Made([Initialize(allocated.o, t, v, is_null, bad) EXCEPT !.cor = cor], allocated.log)

Allocate(v, t, cor, is_null, depth, bad) ==
    CASE cor \in DOMAIN Width ->
            Made([DbgObject("primitive", 0) EXCEPT !.native = cor], <<>>)
      [] cor = "STRING" -> Made(DbgObject("string", 0), <<>>)
      [] cor \in {"SZARRAY", "ARRAY"} -> Made(DbgObject("array", depth), <<>>)
      [] cor \in {"CLASS", "VALUETYPE", "OBJECT"} ->
            CreateDbgClassObject(t, depth, v, is_null, bad)
      [] OTHER -> NotMade

\* An object for the value v, or an empty one of type t when v is Nil.
CreateDbgObjectHelper(v, t, cor, is_null, depth, bad) ==
    Initialized(Allocate(v, t, cor, is_null, depth, bad), v, t, cor, is_null, bad)

CreateDbgObjectOfType(t, bad) ==
    CreateDbgObjectHelper(Nil, t, Types[t].element, TRUE, 0, bad)

CreateOfFound(v, found, hr, depth, bad) ==
    IF hr = "FAIL" THEN NotMade
    ELSE CreateDbgObjectHelper(found.v, IF hr = "S_OK" THEN Values[found.v].type ELSE Nil,
                               Element(IF hr = "S_OK" THEN found.v ELSE v),
                               found.is_null, depth, bad)

CreateIfFound(v, found, depth, bad) ==
    IF ~found.ok THEN NotMade
    ELSE CreateOfFound(v, found, GetICorDebugType(found.v, bad), depth, bad)

CreateDbgObject(v, depth, bad) ==
    CreateIfFound(v, DereferenceAndUnbox(v, bad), depth, bad)

-----------------------------------------------------------------------------
(* What an object shows *)

IsEnumClass(class) == class # NoClass /\ ClassOf(class).base = kEnumClassName

\* Faulty variant: static members are kept by their name alone.
KeyOfName(member) == [module |-> 0, class |-> NoName, name |-> member.name]

\* Static members are kept by the module, the simple name of the class, and their
\* own name.  An enum is told its module after it has read its fields.
Key(member) ==
    [module |-> IF IsEnumClass(member.class) THEN 0 ELSE member.class.module,
     class |-> ClassOf(member.class).name, name |-> member.name]

\* Faulty variant: the value itself is taken for a constant.
AddAllFieldsToDict(dict, enum, cache) ==
    dict @@ (ClassOf(enum.class).name :>
                [k \in DOMAIN enum.fields |->
                    [name |-> enum.fields[k].name,
                     bytes |-> FieldOf(enum.class, enum.fields[k].index).default]])

\* The constants of an enum under its name: a field that could not be read is
\* not static and is left out, or has no name.
AddEnumValuesToDict(dict, enum, cache) ==
    LET constants == SelectSeq(enum.fields, LAMBDA m : m.static)
        Of(m) == [name |-> m.name, bytes |-> FieldOf(m.class, m.index).default]
    IN dict @@ (ClassOf(enum.class).name :>
                   [k \in DOMAIN constants |-> Of(cache[Key(constants[k])])])

\* Faulty variant: the bits of a constant stay in the value.
NamesKeepingBits(value, constants) ==
    LET named == SelectSeq(constants, LAMBDA c : c.value # {} /\ c.value \subseteq value)
    IN [k \in DOMAIN named |-> named[k].name]

\* The constant that is the value, or those that it is put together from.
EnumNames(value, constants) ==
    LET exact == {k \in DOMAIN constants : constants[k].value = value}
        Take(acc, c) ==
            IF c.value # acc.left /\ (c.value = {} \/ ~(c.value \subseteq acc.left)) THEN acc
            ELSE [left |-> acc.left \ c.value, names |-> Append(acc.names, c.name)]
    IN IF exact # {} THEN <<constants[Min(exact)].name>>
       ELSE FoldLeft(Take, [left |-> value, names |-> <<>>], constants).names

\* beyond is behind the value of an enum, and behind a constant.
EnumValue(o, beyond) ==
    IF o.enum_bytes = <<>> THEN o.value
    ELSE ExtractEnumValue(o.enum_type, o.enum_bytes, beyond)

EnumConstants(o, dict, beyond) ==
    [k \in DOMAIN dict[o.class_name] |->
        [name |-> dict[o.class_name][k].name,
         value |-> ExtractEnumValue(o.enum_type, dict[o.class_name][k].bytes, beyond)]]

Shown(path, status) ==
    [path |-> path, status |-> status, type |-> NoTypeString, value |-> {}, text |-> <<>>,
     names |-> <<>>]

\* ExtractStringFromReference: a constant has no handle and its text already.
StringOf(o, bad) ==
    IF o.object_handle = Nil THEN [ok |-> TRUE, text |-> o.text]
    ELSE IF bad \in {<<"Dereference", o.object_handle>>, <<"GetString", o.object_handle>>}
         THEN [ok |-> FALSE]
    ELSE [ok |-> TRUE, text |-> Values[o.object_handle].text]

PopulateValue(path, o, dict, bad, beyond) ==
    LET string == StringOf(o, bad)
    IN CASE o.initialize_hr = "FAIL" -> Shown(path, "error")
         [] o.kind = "primitive" /\ o.initialize_hr = "S_OK" ->
                [Shown(path, "value") EXCEPT !.value = o.value]
         [] o.kind = "string" /\ o.initialize_hr = "S_OK" ->
                IF string.ok THEN [Shown(path, "value") EXCEPT !.text = string.text]
                ELSE Shown(path, "error")
         [] o.kind = "enum" /\ o.initialize_hr = "S_OK" ->
                IF o.enum_type = "END" \/ o.class_name \notin DOMAIN dict
                THEN Shown(path, "error")
                ELSE [Shown(path, "value") EXCEPT
                         !.value = EnumValue(o, beyond),
                         !.names = EnumNames(EnumValue(o, beyond),
                                             EnumConstants(o, dict, beyond))]

\* Reads the members through the handle, unless they have been read.
MembersFound(o, found, bad) ==
    IF \/ ~found.ok \/ bad = <<"GetClass", o.object_handle>>
       \/ ~HasMetadataImport(o.class.module, bad)
    THEN NotMade
    ELSE ProcessClassMembersHelper(o, found.v, bad)

ProcessClassMembers(o, bad) ==
    IF o.processed THEN Made(o, <<>>)
    ELSE IF o.object_handle = Nil THEN NotMade
    ELSE MembersFound(o, Dereference(o.object_handle, bad), bad)

\* A static field is read from the type it was first made for.
EvaluateStatic(m, f, bad) ==
    IF ~m.static \/ f.literal \/ bad = <<"GetStaticFieldValue", m.class, m.index>>
    THEN NotMade
    ELSE CreateDbgObject(f.value[m.type], m.depth, bad)

EvaluateField(m, bad) ==
    IF m.hr = "FAIL" THEN NotMade
    ELSE IF m.value # NoObject THEN Made(m.value, <<>>)
    ELSE EvaluateStatic(m, FieldOf(m.class, m.index), bad)

PropertyValue(p, t) == IF p.static THEN p.value[t] ELSE p.value

\* The error of a result that cannot be made an object is asked of that object.
ResultOf(made) == IF made.ok THEN made ELSE NotMadeBut(made.log \o NullPointerLog)

\* The getter runs in the debuggee, and needs a reference to the object o unless
\* it is static.
EvaluateProperty(m, o, bad) ==
    LET p == ClassOf(m.class).properties[m.index]
    IN IF m.value # NoObject THEN Made(m.value, <<>>)
       ELSE IF \/ m.hr = "FAIL" \/ bad = <<"WaitForEval", p.name>>
               \/ ~m.static /\ o.object_handle = Nil
            THEN NotMade
       ELSE ResultOf(CreateDbgObject(PropertyValue(p, m.type), kDefaultObjectEvalDepth, bad))

\* For a static member, the one in the cache.
EvaluateMember(member, o, cache, bad) ==
    LET m == IF member.static THEN cache[Key(member)] ELSE member
    IN IF m.kind = "field" THEN EvaluateField(m, bad) ELSE EvaluateProperty(m, o, bad)

-----------------------------------------------------------------------------
(* A hit *)

VARIABLES
    hits,               \* hits so far
    queue,              \* VariableWrappers that wait to be shown
    shown,              \* the variables of the report
    static_members,     \* static_class_members_, cleared for a hit
    enum_values_dict,   \* never cleared
    crashed,            \* the debugger has followed a null pointer
    failures,           \* calls that have failed in this hit (history)
    unread              \* enums with a constant that could not be read when they were
                        \* put into the dictionary (history)

vars == <<hits, queue, shown, static_members, enum_values_dict, crashed, failures, unread>>

\* A static member that the cache already has is not put into it again, and an
\* enum whose name the dictionary already has leaves no constants in it.
Remember(known, e) ==
    CASE e.what = "static" /\ Key(e.member) \notin DOMAIN known.statics ->
            [known EXCEPT !.statics = @ @@ (Key(e.member) :> e.member)]
      [] e.what = "enum" /\ ClassOf(e.class).name \notin DOMAIN known.enums ->
            [known EXCEPT
                !.enums = AddEnumValuesToDict(@, e, known.statics),
                !.unread = IF \E k \in DOMAIN e.fields :
                                 e.fields[k].name = NoName /\ FieldOf(e.class, k).static
                           THEN @ \cup {ClassOf(e.class).name} ELSE @]
      [] e.what = "crash" -> [known EXCEPT !.crashed = TRUE]
      [] OTHER -> known

Known ==
    [statics |-> static_members, enums |-> enum_values_dict, unread |-> unread,
     crashed |-> crashed]

Learned(known, log) == FoldLeft(Remember, known, log)

Keep(known) ==
    /\ static_members' = known.statics
    /\ enum_values_dict' = known.enums
    /\ unread' = known.unread
    /\ crashed' = known.crashed

Bad == {NoFailure} \cup IF failures < MaxFailures THEN Failures ELSE {}

Count(bad) == failures' = failures + IF bad = NoFailure THEN 0 ELSE 1

Init ==
    /\ hits = 0 /\ queue = <<>> /\ shown = {}
    /\ static_members = <<>> /\ enum_values_dict = <<>>
    /\ crashed = FALSE /\ failures = 0 /\ unread = {}

Wrapped(path, level, o) == [path |-> path, level |-> level, o |-> o]

\* The report of the hit before is complete.
NextHit ==
    /\ ~crashed /\ queue = <<>> /\ hits < MaxHits
    /\ hits' = hits + 1 /\ shown' = {} /\ failures' = 0
    /\ static_members' = <<>>
    /\ queue' = <<Wrapped(<<>>, 0, NoObject)>>
    /\ UNCHANGED <<enum_values_dict, crashed, unread>>

Wrap(source, made) ==
    [k \in DOMAIN source |-> Wrapped(<<source[k].name>>, 1, made[k].o)]

\* What waits to be shown, what is shown already, and the log.  A variable
\* without an object is reported as an error, a constant without one is left out.
Collected(source, made, errors) ==
    [queue |-> SelectSeq(Wrap(source, made), LAMBDA w : w.o # NoObject),
     shown |-> {Shown(<<source[k].name>>, "error") :
                   k \in {j \in DOMAIN source : errors /\ ~made[j].ok}},
     log |-> FlattenSeq([k \in DOMAIN made |-> made[k].log])]

ProcessLocalVariables(locals, bad) ==
    Collected(locals,
              Strict([k \in DOMAIN locals |->
                         CreateDbgObject(locals[k].value, kDefaultObjectEvalDepth, bad)]),
              TRUE)

ProcessLocalConstants(constants, bad) ==
    Collected(constants,
              Strict([k \in DOMAIN constants |-> LocalConstant(constants[k].blob, bad)]),
              FALSE)

Joined(a, b) ==
    [queue |-> a.queue \o b.queue, shown |-> a.shown \cup b.shown, log |-> a.log \o b.log]

Variables(bad) ==
    Joined(ProcessLocalVariables(Locals, bad), ProcessLocalConstants(LocalConstants, bad))

ProcessVariables ==
    /\ ~crashed /\ queue # <<>> /\ Head(queue).level = 0
    /\ \E bad \in Bad : \E read \in {Variables(bad)} :
        /\ queue' = read.queue
        /\ shown' = read.shown
        /\ Keep(Learned(Known, read.log))
        /\ Count(bad)
    /\ UNCHANGED hits

Composite(o) == o.kind \in {"class", "array", "collection"}

\* What the class, array or collection o has for members, as far as its depth
\* goes.
MembersOf(o, bad) ==
    CASE o.kind # "array" /\ o.depth <= 0 -> NotMade
      [] o.kind = "class" /\ o.depth > 0 -> ProcessClassMembers(o, bad)
      [] o.kind = "array" \/ (o.kind = "collection" /\ o.depth > 0) -> Made(o, <<>>)

\* The properties are left out when the debugger does not evaluate them.
Evaluated(members) ==
    members.fields \o IF PropertyEvaluation THEN members.properties ELSE <<>>

EvaluateMembers(members, o, cache, bad) ==
    Strict([k \in DOMAIN members |-> EvaluateMember(members[k], o, cache, bad)])

\* The values of static members stay in the cache.
KeepValues(cache, members, made) ==
    FoldLeft(LAMBDA c, k : IF members[k].static /\ made[k].ok
                           THEN [c EXCEPT ![Key(members[k])].value = made[k].o] ELSE c,
             cache, [k \in DOMAIN members |-> k])

PathOf(w, member) == Append(w.path, member.name)

\* The variables that are added to the queue, the entries, and what is known now.
Listed(w, ok, members, made, known) ==
    [queue |-> SelectSeq([k \in DOMAIN made |->
                             Wrapped(PathOf(w, members[k]), w.level + 1, made[k].o)],
                         LAMBDA c : c.o # NoObject),
     shown |-> {[Shown(w.path, IF ok THEN "members" ELSE "error") EXCEPT
                    !.type = GetTypeString(w.o)]}
               \cup {Shown(PathOf(w, members[k]), "error") :
                        k \in {j \in DOMAIN made : ~made[j].ok}},
     known |-> Learned([known EXCEPT !.statics = KeepValues(@, members, made)],
                       FlattenSeq([k \in DOMAIN made |-> made[k].log]))]

PopulatedFrom(w, ok, members, known, bad) ==
    LET List(made) == Listed(w, ok, members, made, known)
    IN List(EvaluateMembers(members, w.o, known.statics, bad))

\* PopulateMembers of the variable w.
Populated(w, known, bad) ==
    LET From(read) == PopulatedFrom(w, read.ok, Evaluated(read.o), Learned(known, read.log), bad)
    IN From(MembersOf(w.o, bad))

\* PerformBFS up to the members: the type, the limit of levels, null and values.
Entry(w, dict, bad, beyond) ==
    LET type == GetTypeString(w.o)
        entry == IF ~type.ok THEN Shown(w.path, "error")
                 ELSE IF w.level >= kDefaultObjectEvalDepth THEN Shown(w.path, "limit")
                 ELSE IF w.o.is_null THEN Shown(w.path, "null")
                 ELSE PopulateValue(w.path, w.o, dict, bad, beyond)
    IN [entry EXCEPT !.type = type]

HasMembers(w) ==
    /\ Composite(w.o) /\ GetTypeString(w.o).ok /\ ~w.o.is_null
    /\ w.level < kDefaultObjectEvalDepth

\* A turn of PerformBFS for a variable that has no members to show.
PopulateVariable ==
    /\ ~crashed /\ queue # <<>> /\ Head(queue).level > 0
    /\ ~HasMembers(Head(queue))
    /\ \E bad \in Bad, beyond \in Beyond :
        /\ shown' = shown \cup {Entry(Head(queue), enum_values_dict, bad, beyond)}
        /\ Count(bad)
    /\ queue' = Tail(queue)
    /\ UNCHANGED <<hits, static_members, enum_values_dict, crashed, unread>>

\* A turn of PerformBFS for a class, an array or a collection.
PopulateMembers ==
    /\ ~crashed /\ queue # <<>> /\ Head(queue).level > 0
    /\ HasMembers(Head(queue))
    /\ \E bad \in Bad : \E read \in {Populated(Head(queue), Known, bad)} :
        /\ queue' = Tail(queue) \o read.queue
        /\ shown' = shown \cup read.shown
        /\ Keep(read.known)
        /\ Count(bad)
    /\ UNCHANGED hits

Next == NextHit \/ ProcessVariables \/ PopulateVariable \/ PopulateMembers

Spec == Init /\ [][Next]_vars
-----------------------------------------------------------------------------
(* Properties *)

Statuses == {"value", "null", "members", "limit", "error"}

\* The caches hold static members and constants that have a value, a variable
\* is queued below the level where its members would be left out, and it is
\* reported once (static_class_members_, enum_values_dict, PerformBFS).
TypeOK ==
    /\ hits \in 0..MaxHits /\ failures \in 0..MaxFailures
    /\ \A k \in DOMAIN queue : queue[k].level \in 0..kDefaultObjectEvalDepth
    /\ \A e \in shown : e.status \in Statuses
    /\ \A e, g \in shown : e.path = g.path => e = g
    /\ \A key \in DOMAIN static_members : static_members[key].static
    /\ \A name \in DOMAIN enum_values_dict : \A k \in DOMAIN enum_values_dict[name] :
            enum_values_dict[name][k].bytes # <<>>

\* What the debuggee has at the end of references and boxes.
RECURSIVE Content(_)
Content(v) ==
    LET Of(value) == IF value.kind \in {"reference", "box"} /\ value.to # Nil
                     THEN Content(value.to) ELSE v
    IN Of(Values[v])

\* The member of a value of type t: a field, a static one, or the result of a
\* getter.  Nil for a constant and for what t does not have.
MembersNamed(members, name, static) ==
    {k \in DOMAIN members :
        members[k].name = name /\ members[k].static = static /\ ~members[k].literal}

StaticOf(t, name) ==
    LET c == ClassOf(Types[t].class)
    IN {c.fields[k].value[t] : k \in MembersNamed(c.fields, name, TRUE)}
       \cup {c.properties[k].value[t] : k \in MembersNamed(c.properties, name, TRUE)}

GetterOf(t, name) ==
    LET p == ClassOf(Types[t].class).properties
    IN {p[k].value : k \in MembersNamed(p, name, FALSE)}

OnlyOf(vs) == IF vs = {} THEN Nil ELSE CHOOSE v \in vs : TRUE

MemberOfValue(value, name) ==
    IF name \in DOMAIN value.fields THEN value.fields[name]
    ELSE OnlyOf(StaticOf(value.type, name) \cup GetterOf(value.type, name))

MemberOf(v, name) == MemberOfValue(Values[Content(v)], name)

ValueOfLocal ==
    [name \in {Locals[k].name : k \in DOMAIN Locals} |->
        Locals[CHOOSE k \in DOMAIN Locals : Locals[k].name = name].value]

\* The value that a path from a local variable leads to.
At(path) == FoldLeft(MemberOf, ValueOfLocal[path[1]], Tail(path))

\* The types whose static members are not told from those of t: the types of the
\* generic class of t, and those of a class of its module with the same simple
\* name, which is nested in another one.
Namesakes(t) ==
    {u \in DOMAIN Types :
        /\ Types[u].class # NoClass
        /\ Types[u].class.module = Types[t].class.module
        /\ ClassOf(Types[u].class).name = ClassOf(Types[t].class).name}

\* What else may be shown at the path of a static member.
OfNamesakes(path) ==
    IF Len(path) = 1 THEN {}
    ELSE LET t == Values[Content(At(Front(path)))].type
         IN IF StaticOf(t, Last(path)) = {} THEN {}
            ELSE UNION {StaticOf(u, Last(path)) : u \in Namesakes(t)}

\* The entries of the report that show a value of the debuggee, and the ones
\* that show a constant of the method.
OfLocals ==
    {e \in shown : /\ e.path[1] \in DOMAIN ValueOfLocal
                   /\ e.path[Len(e.path)] # NoName
                   /\ At(e.path) # Nil}

ConstantsShown ==
    {p \in shown \X Range(LocalConstants) : p[1].path = <<p[2].name>>}

RECURSIVE TypeName(_)
TypeName(t) ==
    LET NameOf(type) ==
            IF type.element \in DOMAIN ClassName /\ type.class = NoClass
            THEN TypeString(ClassName[type.element], <<>>, 0)
            ELSE IF type.of # Nil THEN [TypeName(type.of) EXCEPT !.rank = @ + type.rank]
            ELSE TypeString(ClassOf(type.class).name,
                            [k \in DOMAIN type.generics |-> TypeName(type.generics[k])], 0)
    IN NameOf(Types[t])

\* Entry e shows the value v.
ShowsValue(e, v) ==
    \A value \in {Values[Content(v)]} :
        /\ e.type = TypeName(value.type)
        /\ (e.status = "null") <=> (value.kind = "reference")
        /\ e.status = "value" /\ ~IsEnumClass(Types[value.type].class) =>
                e.value = value.number /\ e.text = value.text

\* What is shown for a path is what the debuggee has there: nothing has been
\* lost or mixed up by copying values, by reading members later through a
\* handle, by the cache of static members, or by getters that ran in between,
\* whatever calls have failed.  Only a static member may be that of another
\* class of the same module and simple name (GetStaticCacheKey).
ShownIsTrue ==
    \A e \in OfLocals :
        e.status \in {"value", "null", "members"} =>
            \/ ShowsValue(e, At(e.path))
            \/ \E v \in OfNamesakes(e.path) : ShowsValue(e, v)

\* Errors that no failing call has to explain: a property of a value type, to
\* which no reference exists, and too long a chain of references.
PropertyOfStruct(t, name) ==
    /\ Types[t].element = "VALUETYPE"
    /\ GetterOf(t, name) # {}

Unreadable(path) ==
    \/ ~Dereference(At(path), NoFailure).ok
    \/ /\ Len(path) > 1
       /\ PropertyOfStruct(Values[Content(At(Front(path)))].type, Last(path))

\* A hit reports all there is, and an error for what it could not read: whatever
\* call fails, every local variable has an entry, and a class that is shown with
\* members has one for every field, without a name where the name could not be
\* read.  Without a failing call no error is shown without a cause, every
\* constant is shown but the characters and null strings, and the debugger does
\* not end itself (PopulateMembers, EvaluateAndCreateDbgObject).
ReportIsComplete ==
    /\ failures = 0 =>
        /\ ~crashed
        /\ \A e \in OfLocals : e.status = "error" => Unreadable(e.path)
        /\ hits > 0 /\ queue = <<>> =>
            \A c \in Range(LocalConstants) : c.readable =>
                \E e \in shown : e.path = <<c.name>>
    /\ hits > 0 /\ queue = <<>> /\ ~crashed =>
        /\ \A name \in DOMAIN ValueOfLocal : \E e \in shown : e.path = <<name>>
        /\ \A e \in OfLocals : e.status = "members" =>
                \A name \in DOMAIN Values[Content(At(e.path))].fields :
                    \E g \in shown : g.path \in {Append(e.path, name), Append(e.path, NoName)}

\* A constant of the method is shown with the value it was declared with.
ConstantIsExact ==
    \A p \in ConstantsShown :
        p[1].status = "value" => p[1].value = p[2].number /\ p[1].text = p[2].text

\* Enums whose constants all fit the type they are read with, and whose name
\* no other enum has.
Regular(class, c) ==
    /\ \A k \in DOMAIN c.fields : c.fields[k].static => Len(c.fields[k].default) = 2
    /\ \A m \in DOMAIN Modules : \A k \in Named(Modules[m].types, c.name) :
            class = [module |-> m, type |-> k]

\* The names are constants with different bits of the value.
Sound(used, value, bits) ==
    /\ \A k \in used : bits[k] \subseteq value
    /\ \A j, k \in used : j # k => bits[j] \cap bits[k] = {}

\* They are the constant that is the value where there is one, and otherwise
\* none could be added to them.
Complete(used, value, bits) ==
    IF \E k \in DOMAIN bits : bits[k] = value
    THEN \E k \in used : used = {k} /\ bits[k] = value
    ELSE \A k \in DOMAIN bits \ used :
            \/ bits[k] = {} \/ ~(bits[k] \subseteq value)
            \/ \E j \in used : bits[j] \cap bits[k] # {}

Explains(names, value, constants, bits, read) ==
    LET used == {k \in DOMAIN constants : constants[k].name \in Range(names)}
    IN /\ Range(names) \ {NoName} = {constants[k].name : k \in used}
       /\ Sound(used, value, bits)
       /\ read => Complete(used, value, bits) /\ NoName \notin Range(names)

NamedBy(names, value, class) ==
    \A c \in {ClassOf(class)} : Regular(class, c) =>
        \A constants \in {SelectSeq(c.fields, LAMBDA f : f.static)} :
            Explains(names, value, constants,
                     [k \in DOMAIN constants |-> ULONG64("I2", constants[k].default, 0)],
                     c.name \notin unread)

\* The names an enum is shown with are constants of its class that explain its
\* value: the constant that is the value where there is one, and otherwise
\* constants with different bits of it.  An enum that had a constant unread when
\* it was first met keeps it missing or without a name (AddEnumValuesToDict), but
\* is shown with no name that is wrong.
EnumIsExplained ==
    /\ \A e \in OfLocals : \A value \in {Values[Content(At(e.path))]} :
        \A class \in {Types[value.type].class} :
            e.status = "value" /\ IsEnumClass(class) => NamedBy(e.names, value.number, class)
    /\ \A p \in ConstantsShown :
        p[2].class # NoClass /\ p[1].status = "value" =>
            NamedBy(p[1].names, p[2].number, p[2].class)

=============================================================================
