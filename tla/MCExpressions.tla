---------------------------- MODULE MCExpressions ----------------------------
(***************************************************************************)
(* Three modules.  App has more types than one call enumerates, two of     *)
(* them with the simple name Item, and both defines and refers to Twin;    *)
(* Lib and Old both define Util, with another type for its field.          *)
(***************************************************************************)
EXTENDS Expressions

\* Declarations and their encoding in a signature.
Prim(name) == [t |-> "primitive", name |-> name]
Class(table, rid, name) == [t |-> "class", table |-> table, rid |-> rid, name |-> name]
Parameter(n) == [t |-> "parameter", number |-> n]
Array(decl, rank) == [t |-> "array", of |-> decl, rank |-> rank]
Generic(decl, arguments) == [t |-> "generic", of |-> decl, arguments |-> arguments]

Code(name) == CHOOSE k \in DOMAIN ElementType : ElementType[k] = name

RECURSIVE Encode(_)
Encode(decl) ==
    CASE decl.t = "primitive" -> <<Code(decl.name)>>
      [] decl.t = "class" -> <<18, 4 * decl.rid + IF decl.table = "def" THEN 0 ELSE 1>>
      [] decl.t = "parameter" -> <<19, decl.number>>
      [] decl.t = "array" ->
            IF decl.rank = 0 THEN <<29>> \o Encode(decl.of)
            \* One size, 129 in two bytes, and a lower bound of 0 for each dimension.
            ELSE <<20>> \o Encode(decl.of) \o <<decl.rank, 1, 128, 129, decl.rank>>
                 \o [k \in 1..decl.rank |-> 0]
      [] decl.t = "generic" ->
            <<21>> \o Encode(decl.of) \o <<Len(decl.arguments)>>
            \o FlattenSeq([k \in DOMAIN decl.arguments |-> Encode(decl.arguments[k])])

\* prefix is what the signature of a member begins with, and parts are the types
\* that follow.
Field(name, backing, static, decl, type) ==
    [name |-> name, backing |-> backing, static |-> static, decl |-> decl,
     prefix |-> <<6>>, parts |-> <<decl>>, type |-> type]
Property(name, static, decl) ==
    [name |-> name, static |-> static, decl |-> decl, prefix |-> <<40, 0>>, parts |-> <<decl>>]
Method(name, static, generics, decl, parameters) ==
    [name |-> name, static |-> static, generics |-> generics, decl |-> decl,
     prefix |-> Append(IF generics > 0 THEN <<48, generics>> ELSE <<32>>, Len(parameters)),
     parts |-> <<decl>> \o parameters]
Type(name, generics, fields, properties, methods) ==
    [name |-> name, generics |-> generics, fields |-> fields, properties |-> properties,
     methods |-> methods]
Plain(name) == Type(name, 0, <<>>, <<>>, <<>>)

Int32 == Prim("I4")
Str == Prim("STRING")

\* The runtime object of a class has CLASS for its type.
Object(name, generics) == [Signature("CLASS", name) EXCEPT !.generic_types = generics]
ListOfInt == Object("List", <<Primitive("I4")>>)

UtilRef == Class("ref", 1, "Util")
MapRef == Class("ref", 2, "Map")

Signed(members) ==
    [k \in DOMAIN members |->
        [sig |-> members[k].prefix
                 \o FlattenSeq([n \in DOMAIN members[k].parts |-> Encode(members[k].parts[n])])]
        @@ members[k]]

Declared == <<
    [types |-> <<
        Type("Main", 0,
             <<Field("count", FALSE, FALSE, Int32, Primitive("I4")),
               Field("total", FALSE, TRUE, Prim("U8"), Primitive("U8")),
               Field("Auto", TRUE, FALSE, UtilRef, Object("Util", <<>>))>>,
             <<Property("Auto", FALSE, UtilRef), Property("Own", FALSE, Str)>>,
             <<Method("Make", FALSE, 0, UtilRef, <<>>),
               Method("Twice", TRUE, 0, Int32, <<Int32>>),
               Method("Twice", TRUE, 0, Str, <<Str>>),
               Method("Pick", TRUE, 1, Int32, <<>>)>>),
        Type("Box", 1,
             <<Field("item", FALSE, FALSE, Parameter(0), Primitive("I4")),
               Field("grid", FALSE, FALSE,
                     Generic(MapRef, <<Array(Parameter(0), 2), Str>>), Object("Map", <<>>)),
               Field("shared", FALSE, TRUE, Parameter(0), Primitive("I4"))>>,
             <<Property("Row", FALSE, Array(Parameter(0), 0))>>, <<>>),
        Type("Tail", 0, <<Field("x", FALSE, TRUE, Prim("R4"), Primitive("R4"))>>, <<>>, <<>>),
        Plain("Item"), Plain("Twin"), Plain("Item")>>,
     refs |-> <<"Util", "Map", "List", "Gone", "Twin">>],
    [types |-> <<
        Type("Util", 0, <<Field("x", FALSE, FALSE, Int32, Primitive("I4"))>>, <<>>,
             <<Method("Same", FALSE, 0, Class("def", 1, "Util"), <<>>)>>),
        Type("List", 1, <<>>, <<Property("Count", FALSE, Int32)>>,
             <<Method("get_Item", FALSE, 0, Parameter(0), <<Int32>>)>>),
        Type("Map", 2, <<>>, <<>>, <<Method("get_Item", FALSE, 0, Parameter(0), <<Int32>>)>>),
        Plain("Twin")>>,
     refs |-> <<>>],
    [types |-> <<
        Type("Util", 0, <<Field("x", FALSE, FALSE, Str, Primitive("STRING"))>>, <<>>, <<>>)>>,
     refs |-> <<>>]>>

SignedType(type) ==
    [type EXCEPT !.fields = Signed(@), !.properties = Signed(@), !.methods = Signed(@)]

SignedModules ==
    [m \in DOMAIN Declared |->
        [types |-> [k \in DOMAIN Declared[m].types |-> SignedType(Declared[m].types[k])],
         refs |-> Declared[m].refs]]

\* TLC keeps the value of a definition, but evaluates one that replaces a constant
\* anew wherever the constant is used.
MCModules == SignedModules

Variable(name, type) == [name |-> name, type |-> type]

MCFrames == <<
    \* A method of Main.
    [module |-> 1, class |-> 1, is_static_method |-> FALSE,
     variables |-> <<Variable("b", Object("Box", <<Primitive("I4")>>)),
                     Variable("count", Primitive("U4")),
                     Variable("a2", [Signature("ARRAY", kArrayClassName) EXCEPT
                         !.is_array = TRUE, !.array_rank = 2,
                         !.generic_types = <<Primitive("I4")>>])>>,
     arguments |-> <<Variable("this", Object("Main", <<>>)), Variable("l", ListOfInt)>>,
     this_class |-> [module |-> 1, type |-> 1], type_arguments |-> <<Primitive("R4")>>],
    \* A static method of Main.
    [module |-> 1, class |-> 1, is_static_method |-> TRUE, variables |-> <<>>,
     arguments |-> <<Variable("l", ListOfInt)>>,
     this_class |-> [module |-> 1, type |-> 1], type_arguments |-> <<>>],
    \* A method of Box<string> with a type parameter of its own.
    [module |-> 1, class |-> 2, is_static_method |-> FALSE, variables |-> <<>>,
     arguments |-> <<Variable("this", Object("Box", <<Primitive("STRING")>>))>>,
     this_class |-> [module |-> 1, type |-> 2],
     type_arguments |-> <<Primitive("STRING"), Primitive("I4")>>]>>

Id(name) == [k |-> "identifier", name |-> name]
Member(source, name) == [k |-> "field", source |-> source, class |-> NoName, name |-> name]
Static(class, name) == [k |-> "field", source |-> Id(class), class |-> class, name |-> name]
Call(source, class, name, arguments) ==
    [k |-> "call", source |-> source, class |-> class, name |-> name, arguments |-> arguments]
Binary(op, a, b) == [k |-> "binary", op |-> op, left |-> a, right |-> b]
Unary(op, a) == [k |-> "unary", op |-> op, arg |-> a]
Literal(t) == [k |-> "literal", type |-> Primitive(t)]
Index(source, index) == [k |-> "index", source |-> source, index |-> index]
Cast(source, target) == [k |-> "cast", source |-> source, target |-> target]
Conditional(condition, if_true, if_false) ==
    [k |-> "conditional", condition |-> condition, if_true |-> if_true, if_false |-> if_false]

Numbers == {"CHAR", "I1", "U1", "I2", "U2", "I4", "U4", "I8", "U8", "R4", "R8"}

\* Expressions whose names are looked up, with every call that may fail, and
\* expressions of literals.
MCNameExpressions ==
    {Id(name) : name \in {"count", "total", "Auto", "Own", "l", "shared", "item"}}
    \cup {Member(Id("b"), name) : name \in {"item", "grid", "Row", "none"}}
    \cup {Member(Id("l"), "Count"), Member(Id("a2"), "Length"), Member(Id("Auto"), "x"),
          Member(Id("this"), "grid"), Static("Tail", "x"), Static("Util", "x"),
          Static("Gone", "x"), Static("Nowhere", "x"),
          Call(NoSource, NoName, "Make", <<>>), Call(NoSource, NoName, "Pick", <<>>),
          Call(NoSource, NoName, "Twice", <<Literal("STRING")>>),
          Call(NoSource, "Main", "Twice", <<Literal("I4")>>),
          Call(Call(NoSource, NoName, "Make", <<>>), NoName, "Same", <<>>),
          Index(Id("l"), Literal("I4")), Index(Id("a2"), Literal("U1")),
          Member(Index(Member(Id("b"), "grid"), Literal("I4")), "Length"),
          Cast(Call(NoSource, NoName, "Make", <<>>), "Util"), Cast(Id("count"), "System.Int64"),
          Conditional(Literal("BOOLEAN"), Id("l"), Id("b"))}

MCLiteralExpressions ==
    {Binary("add", Literal(a), Literal(b)) : a \in Numbers \cup {"STRING"}, b \in Numbers}
    \cup {Binary(op, Literal("I2"), Literal("U8")) : op \in {"lt", "bitwise_and", "shl"}}
    \cup {Binary(op, Literal("BOOLEAN"), Literal("BOOLEAN")) : op \in {"eq", "conditional_or"}}
    \cup {Unary(op, Literal(t)) :
             op \in {"plus", "minus", "bitwise_complement", "logical_complement"},
             t \in {"U2", "U4", "BOOLEAN"}}
    \cup {Conditional(Literal("BOOLEAN"), Literal("I4"), Literal("R4"))}

\* The documented example.
ExampleExpressions == {Binary("add", Literal("BOOLEAN"), Literal("I4"))}

MCFailures ==
    {<<"EnumTypeDefs", k>> : k \in 1..2} \cup {<<"EnumTypeRefs", k>> : k \in 1..2}
    \cup {<<"GetTypeDefProps", 1, k>> : k \in {2, 3, 6}}
    \cup {<<"GetTypeDefProps", 2, 1>>}
    \cup {<<"GetTypeRefProps", 1, k>> : k \in 1..2}
    \cup {<<"GetMetaDataInterface", m>> : m \in 1..3}
    \cup {<<"GetPropertyProps", k>> : k \in 1..2}
    \cup {<<call>> : call \in
            {"Next", "EnumerateAssemblies", "EnumerateModules", "EnumerateTypeParameters",
             "GetModuleFromMetaDataInterface", "GetFieldProps", "EnumProperties",
             "GetClassFromToken", "GetStaticFieldValue", "GetParameterizedType",
             "CreateDbgObject", "EnumMethodsWithName", "GetMethodProps", "EnumGenericParams",
             "GetFunctionFromToken"}}

NoExpressions == {}

NoFailures == {}

=============================================================================
