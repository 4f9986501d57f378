------------------------------ MODULE NameLookup ------------------------------
(***************************************************************************)
(* How the names of an expression are looked up in a stack frame once the  *)
(* class is known (module ClassLookup): base classes, members, variables   *)
(* and methods, as DbgStackFrame (dbg_stack_frame.cc), CorDebugHelper      *)
(* (cor_debug_helper.cc) and MethodInfo (method_info.cc) do.               *)
(***************************************************************************)
EXTENDS TypeSignatures, ClassLookup

-----------------------------------------------------------------------------
(* Base classes *)

\* The walk to the base classes ends at the first class that is not
\* System.Object, which has none.
IsBaseClass(class, target_class, bad) ==
    NamesOf(class.module, bad).def[class.type] = target_class

\* A class that was not found has no metadata to ask.
BaseAmong(assemblies, class, target_class, bad) ==
    IF assemblies.hr = "FAIL" THEN assemblies
    ELSE IF class.hr = "S_OK" /\ IsBaseClass(class.v, target_class, bad)
         THEN Ret("S_OK", assemblies.c, NoValue)
    ELSE Failed(assemblies.c)

ClassHasBase(class, target_class, bad) ==
    IF class.hr = "FAIL" THEN class
    ELSE BaseAmong(PopulateDebugAssemblies(class.c, bad), class, target_class, bad)

RECURSIVE IsBaseType(_, _, _, _, _)
IsBaseType(f, c, bad, source_type, target_type) ==
    IF \/ source_type.is_array # target_type.is_array
       \/ source_type.array_rank # target_type.array_rank
       \/ Len(source_type.generic_types) # Len(target_type.generic_types)
    THEN Failed(c)
    ELSE IF source_type.is_array
         THEN IsBaseType(f, c, bad, source_type.generic_types[1],
                         target_type.generic_types[1])
    ELSE ClassHasBase(GetClassTokenAndModule(f, c, bad, source_type.type_name),
                      target_type.type_name, bad)

-----------------------------------------------------------------------------
(* Fields and properties *)

GetFieldInfo(fields, name, backing, bad) ==
    LET named == {k \in Named(fields, name) : fields[k].backing = backing}
    IN IF named = {} \/ bad = <<"GetFieldProps">> THEN [ok |-> FALSE]
       ELSE [ok |-> TRUE, v |-> fields[Min(named)]]

\* A field of that name, and otherwise the one behind an auto-implemented property.
GetFieldAndAutoPropertyInfo(fields, name, bad) ==
    LET field == GetFieldInfo(fields, name, FALSE, bad)
    IN IF field.ok THEN field ELSE GetFieldInfo(fields, name, TRUE, bad)

\* DbgClassProperty::Initialize: the properties are read one after the other
\* until one has the name.
GetPropertyInfo(c, properties, name, bad) ==
    LET Broken(k) == bad = <<"GetPropertyProps", k>>
        stops == {k \in DOMAIN properties : Broken(k) \/ properties[k].name = name}
    IN IF bad = <<"EnumProperties">> THEN Failed(c)
       ELSE IF stops = {} THEN NotFound(c)
       ELSE IF Broken(Min(stops)) THEN Failed(c)
       ELSE Ret("S_OK", c, properties[Min(stops)])

\* The type that a field or a property has by its signature.
MemberOfType(c, static, type) ==
    IF type.ok THEN Ret("S_OK", c, [static |-> static, type |-> type.v]) ELSE Failed(c)

TypedField(c, field, names, generics) ==
    IF field.ok
    THEN MemberOfType(c, field.v.static,
                      ParseFieldSig(ConsumeStream(field.v.sig), names, generics))
    ELSE Failed(c)

GetFieldFromClass(c, class, name, generics, bad) ==
    TypedField(c, GetFieldAndAutoPropertyInfo(ClassOf(class).fields, name, bad),
               NamesOf(class.module, bad), generics)

TypedProperty(property, names, generics) ==
    IF property.hr = "S_OK"
    THEN MemberOfType(property.c, property.v.static,
                      ParsePropertySig(ConsumeStream(property.v.sig), names, generics))
    ELSE property

GetPropertyFromClass(c, class, name, generics, bad) ==
    TypedProperty(GetPropertyInfo(c, ClassOf(class).properties, name, bad),
                  NamesOf(class.module, bad), generics)

-----------------------------------------------------------------------------
(* Names of the frame *)

\* The values of variables: the first of that name.  "this" is an argument.
GetLocalVariable(f, c, name) ==
    LET locals == IF name = "this" THEN {} ELSE Named(f.variables, name)
        arguments == Named(f.arguments, name)
    IN IF locals # {} THEN Ret("S_OK", c, f.variables[Min(locals)].type)
       ELSE IF arguments # {} THEN Ret("S_OK", c, f.arguments[Min(arguments)].type)
       ELSE NotFound(c)

FrameClass(f) == [module |-> f.module, type |-> f.class]

\* The value of a static field; the one of a generic class belongs to the
\* instantiated type.
GetStaticFieldValue(f, bad) ==
    /\ bad \notin {<<"GetClassFromToken">>, <<"GetStaticFieldValue">>, <<"CreateDbgObject">>}
    /\ f.generics = <<>> \/ bad # <<"GetParameterizedType">>

\* The field is searched in the class of the method, its value in the object.
ValueOfField(f, c, bad, name, field, members) ==
    IF ~HasMetadataImport(f.module, bad) THEN Failed(c)
    ELSE IF ~field.ok THEN NotFound(c)
    ELSE IF field.v.static
         THEN IF GetStaticFieldValue(f, bad) THEN Ret("S_OK", c, field.v.type) ELSE Failed(c)
    ELSE IF \/ f.is_static_method
            \/ Named(f.arguments, "this") = {} \/ Named(members, name) = {}
         THEN Failed(c)
    ELSE Ret("S_OK", c, members[Min(Named(members, name))].type)

GetFieldAndAutoPropFromFrame(f, c, bad, name) ==
    ValueOfField(f, c, bad, name,
                 GetFieldAndAutoPropertyInfo(ClassOf(FrameClass(f)).fields, name, bad),
                 ClassOf(f.this_class).fields)

GetPropertyFromFrame(f, c, bad, name) ==
    IF ~HasMetadataImport(f.module, bad) THEN Failed(c)
    ELSE GetPropertyFromClass(c, FrameClass(f), name, f.generics, bad)

\* The types of the class come first, those of the method are left out.  A
\* class whose parameters cannot be counted is taken for one without.
InitializeClassGenericTypeParameters(f, bad) ==
    LET n == IF bad = <<"EnumGenericParams">> THEN 0 ELSE ClassOf(FrameClass(f)).generics
        types == EnumerateICorDebugSpecifiedType(f.type_arguments, bad)
    IN IF n = 0 THEN [ok |-> TRUE, v |-> <<>>]
       ELSE IF \/ bad \in {<<"EnumerateTypeParameters">>, <<"CreateDbgObject">>}
               \/ Len(types) < n
            THEN [ok |-> FALSE]
       ELSE [ok |-> TRUE, v |-> SubSeq(types, 1, n)]

-----------------------------------------------------------------------------
(* Methods *)

kGeneric == 16

kExplicitThis == 64

\* A call as it is looked for.
MethodInfo(name, argument_types) ==
    [method_name |-> name, argument_types |-> argument_types,
     returned_type |-> NoSignature, is_static |-> FALSE, has_generic_types |-> FALSE]

\* A type that is read into the signature that an earlier overload has left:
\* generic types are added to it and an array stays one.
ReadInto(old, s, parsed) ==
    IF parsed.ok /\ ReadByte(s).v = 19 THEN parsed.v
    ELSE [cor_type |-> parsed.v.cor_type,
          type_name |-> IF parsed.v.type_name = NoName THEN old.type_name
                        ELSE parsed.v.type_name,
          generic_types |-> old.generic_types \o parsed.v.generic_types,
          is_array |-> old.is_array \/ parsed.v.is_array,
          array_rank |-> IF parsed.v.array_rank = 0 THEN old.array_rank
                         ELSE parsed.v.array_rank]

\* IsBaseType returns an HRESULT that is tested as a Boolean: S_OK refuses the
\* argument.
RefusedByBase(base, rest) ==
    IF base.hr = "S_OK" THEN Failed(base.c) ELSE Ret("S_OK", base.c, rest)

ParameterMatches(f, c, bad, argument, parameter) ==
    IF ~parameter.ok THEN Failed(c)
    ELSE IF Equal(argument, parameter.v) THEN Ret("S_OK", c, parameter.s)
    ELSE RefusedByBase(IsBaseType(f, c, bad, argument, parameter.v), parameter.s)

\* Compares n parameters, from s on, with the first n arguments.
ParametersMatch(f, c, bad, names, generics, s, arguments, n) ==
    FoldLeft(LAMBDA r, k :
                 IF r.hr = "FAIL" THEN r
                 ELSE ParameterMatches(f, r.c, bad, arguments[k],
                                       ParseTypeFromSig(r.v, names, generics)),
             Ret("S_OK", c, s), [k \in 1..n |-> k])

\* The end of the attempt: info with the type returned, and whether the
\* parameters match.
MethodMatches(matched, bad, method, info) ==
    LET found == [info EXCEPT !.is_static = method.static,
                              !.has_generic_types = method.generics > 0]
    IN IF matched.hr = "FAIL" THEN Ret("FAIL", matched.c, info)
       ELSE IF bad = <<"EnumGenericParams">> THEN Ret("FAIL", matched.c, found)
       ELSE Ret("S_OK", matched.c, found)

\* From the parameters on; explicit is 1 for a method with an explicit this,
\* whose type, this, is the last one read.
MatchFromThis(f, c, bad, names, method, generics, info, this, explicit) ==
    IF ~this.ok THEN Ret("FAIL", c, info)
    ELSE MethodMatches(ParametersMatch(f, c, bad, names, generics, this.s,
                                       info.argument_types,
                                       Len(info.argument_types) - explicit),
                       bad, method, info)

\* From the type that is returned on, which is read at s.
MatchFromReturned(f, c, bad, names, method, generics, info, s, returned, explicit) ==
    MatchFromThis(f, c, bad, names, method, generics,
                  [info EXCEPT !.returned_type = ReadInto(@, s, returned)],
                  IF returned.ok /\ explicit = 1
                  THEN ParseTypeFromSig(returned.s, names, generics) ELSE returned,
                  explicit)

\* The value is info as the attempt leaves it, of one that fails too.
MatchMethodArgument(f, c, bad, names, method, generics, info) ==
    LET convention == ParseCompressedBytes(ConsumeStream(method.sig))
        explicit == IF HasBits(convention.v, kExplicitThis) THEN 1 ELSE 0
        generic == IF HasBits(convention.v, kGeneric)
                   THEN ParseCompressedBytes(convention.s) ELSE convention
        count == ParseCompressedBytes(generic.s)
    IN IF \/ bad = <<"GetMethodProps">> \/ ~convention.ok \/ ~generic.ok \/ ~count.ok
          \/ count.v - explicit # Len(info.argument_types)
       THEN Ret("FAIL", c, info)
       ELSE MatchFromReturned(f, c, bad, names, method, generics, info, count.s,
                              ParseTypeFromSig(count.s, names, generics), explicit)

MatchFound(match) == IF match.hr = "S_OK" THEN match ELSE NotFound(match.c)

\* The first of the overloads that matches.  An attempt that fails leaves its
\* marks on the info of the next one.
MatchOverloads(f, c, bad, names, overloads, generics, info) ==
    MatchFound(FoldLeft(LAMBDA r, method :
                            IF r.hr = "S_OK" THEN r
                            ELSE MatchMethodArgument(f, r.c, bad, names, method,
                                                     generics, r.v),
                        Ret("FAIL", c, info), overloads))

PopulateMethodDefFromNameAndArguments(f, c, bad, class, generics, info) ==
    LET overloads == SelectSeq(ClassOf(class).methods,
                               LAMBDA m : m.name = info.method_name)
    IN IF bad = <<"EnumMethodsWithName">> \/ overloads = <<>> THEN Failed(c)
       ELSE MatchOverloads(f, c, bad, NamesOf(class.module, bad), overloads, generics,
                           info)

FunctionOf(method, bad) ==
    IF method.hr = "S_OK" /\ bad = <<"GetFunctionFromToken">> THEN Failed(method.c)
    ELSE method

GetDebugFunctionFromClass(f, c, bad, class, generics, info) ==
    FunctionOf(PopulateMethodDefFromNameAndArguments(f, c, bad, class, generics, info), bad)

GetDebugFunctionFromCurrentClass(f, c, bad, info) ==
    IF ~HasMetadataImport(f.module, bad) THEN Failed(c)
    ELSE GetDebugFunctionFromClass(f, c, bad, FrameClass(f), f.generics, info)
=============================================================================
