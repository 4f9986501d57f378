-------------------------- MODULE MCDebuggeeObjects --------------------------
(***************************************************************************)
(* A frame of an application with structs in structs, a class that refers  *)
(* to itself, enums of both modules, values behind references, two nested  *)
(* structs of one name, and two types of a generic struct.                 *)
(***************************************************************************)
EXTENDS DebuggeeObjects

Field(name, sig, value) ==
    [name |-> name, static |-> FALSE, literal |-> FALSE, backing |-> FALSE, sig |-> sig,
     default |-> <<>>, default_type |-> "END", value |-> value]
\* value: in every type of the class.
Static(name, sig, value) == [Field(name, sig, value) EXCEPT !.static = TRUE]
Const(name, sig, t, bytes) ==
    [Static(name, sig, <<>>) EXCEPT !.literal = TRUE, !.default = bytes, !.default_type = t]
Backing(name, sig) == [Field(name, sig, Nil) EXCEPT !.backing = TRUE]
Property(name, value) ==
    [name |-> name, static |-> FALSE, literal |-> FALSE, value |-> value]
StaticProperty(name, value) == [Property(name, value) EXCEPT !.static = TRUE]
Class(name, base, fields, properties) ==
    [name |-> name, base |-> base, fields |-> fields, properties |-> properties]

\* An enum: its value and its constants, whose type is the token.
Constant(name, token, t, bytes) == Const(name, <<6, 17, token>>, t, bytes)
Enum(name, t, constants) ==
    Class(name, kEnumClassName, <<Field("value__", <<6, t>>, Nil)>> \o constants, <<>>)

AppModules == <<
    [types |-> <<
        Class("Point", "System.ValueType",
              <<Field("x", <<6, 8>>, Nil), Field("size", <<6, 17, 8>>, Nil),
                Static("shared", <<6, 8>>, [Point |-> "made"])>>,
              <<Property("Area", "x"), StaticProperty("Zero", [Point |-> "rTitle"])>>),
        Class("Size", "System.ValueType", <<Field("unit", <<6, 3>>, Nil)>>, <<>>),
        Class("Node", "System.Object",
              <<Field("next", <<6, 18, 12>>, Nil), Field("point", <<6, 17, 4>>, Nil),
                Backing("Color", <<6, 17, 16>>),
                Static("shared", <<6, 14>>, [Node |-> "rTitle"]),
                Const("LIMIT", <<6, 8>>, "I4", <<251, 255, 255, 255>>),
                Const("FAVORITE", <<6, 17, 16>>, "I2", <<2, 0>>)>>,
              <<Property("Color", "red"), Property("Self", "rNode")>>),
        Enum("Color", 6,
             <<Constant("Red", 16, "I2", <<1, 0>>), Constant("Blue", 16, "I2", <<2, 0>>),
               Constant("Pale", 16, "I2", <<6, 0>>), Constant("None", 16, "I2", <<0, 0>>)>>),
        Enum("Kind", 6, <<Constant("Old", 20, "I2", <<1, 0>>)>>),
        Enum("Tiny", 5, <<Constant("One", 24, "U1", <<1>>)>>),
        Class("Inner", "System.ValueType", <<Static("own", <<6, 8>>, [Inner |-> "x"])>>, <<>>),
        Class("Inner", "System.ValueType", <<>>, <<StaticProperty("own", [Inner2 |-> "made"])>>),
        Class("Box", "System.ValueType",
              <<Static("kept", <<6, 19, 0>>, [BoxInt |-> "x", BoxChar |-> "unit"])>>, <<>>)>>,
     refs |-> <<"Mode">>],
    [types |-> <<
        Enum("Kind", 6, <<Constant("New", 4, "I2", <<1, 0>>)>>),
        Class("System.Int32", "System.ValueType", <<Field("m_value", <<6, 8>>, Nil)>>, <<>>),
        Class("List", "System.Object", <<>>, <<>>),
        Enum("Mode", 6, <<Constant("Off", 16, "I2", <<0, 0>>),
                          Constant("On", 16, "I2", <<0, 128>>)>>)>>,
     refs |-> <<>>]>>

Plain(element) ==
    [element |-> element, class |-> NoClass, generics |-> <<>>, of |-> Nil, rank |-> 0]
Of(element, m, k) == [Plain(element) EXCEPT !.class = [module |-> m, type |-> k]]

AppTypes ==
    [int |-> Plain("I4"), char |-> Plain("CHAR"), ulong |-> Plain("U8"),
     string |-> Plain("STRING"),
     Point |-> Of("VALUETYPE", 1, 1), Size |-> Of("VALUETYPE", 1, 2),
     Node |-> Of("CLASS", 1, 3), Color |-> Of("VALUETYPE", 1, 4),
     Kind |-> Of("VALUETYPE", 1, 5), Tiny |-> Of("VALUETYPE", 1, 6),
     LibKind |-> Of("VALUETYPE", 2, 1), Mode |-> Of("VALUETYPE", 2, 4),
     Inner |-> Of("VALUETYPE", 1, 7), Inner2 |-> Of("VALUETYPE", 1, 8),
     BoxInt |-> [Of("VALUETYPE", 1, 9) EXCEPT !.generics = <<"int">>],
     BoxChar |-> [Of("VALUETYPE", 1, 9) EXCEPT !.generics = <<"char">>],
     boxed |-> Of("VALUETYPE", 2, 2),
     list |-> [Of("CLASS", 2, 3) EXCEPT !.generics = <<"int">>],
     ints |-> [Plain("SZARRAY") EXCEPT !.of = "int", !.rank = 1]]

Value(kind, type) ==
    [kind |-> kind, type |-> type, to |-> Nil, fields |-> <<>>, bytes |-> <<>>,
     text |-> <<>>, number |-> {}]
Ref(to, type) == [Value("reference", type) EXCEPT !.to = to]
Text(units) == [Value("string", "string") EXCEPT !.text = units]
Number(type, bytes, number) ==
    [Value("generic", type) EXCEPT !.bytes = bytes, !.number = number]
Object(type, fields) == [Value("object", type) EXCEPT !.fields = fields]
EnumOf(type, bytes, number) == [Number(type, bytes, number) EXCEPT !.kind = "object"]

MinusFive == <<251, 255, 255, 255>>
MinusFiveBits == (0..63) \ {2}

AppValues ==
    [x |-> Number("int", <<7, 0, 0, 0>>, {0, 1, 2}),
     made |-> Number("int", <<0, 1, 0, 0>>, {8}),
     unit |-> Number("char", <<65, 0>>, {0, 6}),
     size |-> Object("Size", [unit |-> "unit"]),
     point |-> Object("Point", [x |-> "x", size |-> "size"]),
     rNode |-> Ref("node", "Node"), null |-> Ref(Nil, "Node"),
     node |-> Object("Node", [next |-> "rNode", point |-> "point", Color |-> "all"]),
     red |-> EnumOf("Color", <<1, 0>>, {0}), all |-> EnumOf("Color", <<7, 0>>, {0, 1, 2}),
     kind |-> EnumOf("Kind", <<1, 0>>, {0}), lib_kind |-> EnumOf("LibKind", <<1, 0>>, {0}),
     tiny |-> EnumOf("Tiny", <<1>>, {0}), mode |-> EnumOf("Mode", <<0, 128>>, 15..63),
     title |-> Text(<<84>>), rTitle |-> Ref("title", "string"),
     five |-> Number("boxed", MinusFive, MinusFiveBits),
     box |-> [Value("box", "boxed") EXCEPT !.to = "five"], rBox |-> Ref("box", "boxed"),
     big |-> Number("ulong", [k \in 1..8 |-> 255], 0..63),
     r2 |-> Ref("rTitle", "string"), r3 |-> Ref("r2", "string"),
     list |-> Object("list", <<>>), rList |-> Ref("list", "list"),
     array |-> Value("array", "ints"), rArray |-> Ref("array", "ints"),
     inner |-> Object("Inner", <<>>), inner2 |-> Object("Inner2", <<>>),
     box_int |-> Object("BoxInt", <<>>), box_char |-> Object("BoxChar", <<>>)]

Local(name, value) == [name |-> name, value |-> value]
AppLocals == <<
    Local("p", "point"), Local("n", "rNode"), Local("z", "null"), Local("b", "rBox"),
    Local("u", "big"), Local("m", "mode"), Local("k", "kind"), Local("j", "lib_kind"),
    Local("t", "tiny"), Local("s", "r2"), Local("far", "r3"), Local("l", "rList"),
    Local("a", "rArray"), Local("i", "inner"), Local("i2", "inner2"),
    Local("g", "box_int"), Local("g2", "box_char")>>

LocalConst(name, blob, number, text, class, readable) ==
    [name |-> name, blob |-> blob, number |-> number, text |-> text, class |-> class,
     readable |-> readable]
AppLocalConstants == <<
    LocalConst("five", <<8>> \o MinusFive, MinusFiveBits, <<>>, NoClass, TRUE),
    LocalConst("text", <<14, 72, 0, 105, 1>>, {}, <<72, 361>>, NoClass, TRUE),
    LocalConst("char", <<3, 65, 0>>, {0, 6}, <<>>, NoClass, FALSE),
    LocalConst("none", <<14, 255>>, {}, <<>>, NoClass, FALSE),
    LocalConst("color", <<6, 3, 0, 16>>, {0, 1}, <<>>, [module |-> 1, type |-> 4], TRUE),
    LocalConst("mode", <<6, 0, 128, 5>>, 15..63, <<>>, [module |-> 2, type |-> 4], TRUE)>>

Node == [module |-> 1, type |-> 3]
Point == [module |-> 1, type |-> 1]
Color == [module |-> 1, type |-> 4]

AppFailures ==
    {<<"Dereference", v>> : v \in {"rNode", "rTitle", "node", "title"}}
    \cup {<<"GetObject", "box">>, <<"ICorDebugValue2", "node">>, <<"ICorDebugValue2", "x">>,
          <<"GetExactType", "node">>, <<"CreateHandle", "node">>, <<"CreateHandle", "title">>,
          <<"CreateHandle", "array">>, <<"GetValue", "x">>, <<"GetValue", "all">>,
          <<"GetBase", "Color">>, <<"GetClass", "Node">>, <<"GetClass", "node">>,
          <<"GetModuleName", 1>>, <<"EnumFields", Node>>, <<"EnumFields", Point>>,
          <<"EnumProperties", Node>>, <<"GetFieldProps", Node, 1>>,
          <<"GetFieldProps", Node, 4>>, <<"GetFieldValue", "node", 2>>,
          <<"ICorDebugObjectValue", "point">>, <<"EnumerateTypeParameters", "list">>,
          <<"GetDimensions", "array">>, <<"GetAddress", "five">>, <<"GetString", "title">>,
          <<"GetStaticFieldValue", Point, 3>>, <<"WaitForEval", "Self">>,
          <<"GetMetaDataInterface", 2>>, <<"GetTypeDefProps", 1, 3>>,
          <<"GetBaseName", Node>>, <<"EnumerateAssemblies">>,
          <<"GetFieldProps", Color, 1>>, <<"GetFieldProps", Color, 2>>,
          <<"GetFieldName", Color, 3>>, <<"GetFieldName", Node, 4>>, <<"EnumFields", Color>>,
          <<"GetPropertyProps", Node, 2>>, <<"GetPropertyName", Point, 2>>}

\* TLC keeps the value of a definition, but evaluates one that replaces a constant
\* anew wherever the constant is used.
MCModules == AppModules
MCTypes == AppTypes
MCValues == AppValues
MCLocals == AppLocals
MCLocalConstants == AppLocalConstants
MCFailures == AppFailures

=============================================================================
