------------------------------ MODULE Expressions ------------------------------
(***************************************************************************)
(* Compilation of the expressions and conditions of a breakpoint: Compile  *)
(* of the evaluators in third_party/cloud-debug-java, in a stack frame     *)
(* whose caches live from one expression to the next.                      *)
(*                                                                         *)
(* An expression is a record with its kind in k.  What the parser makes of *)
(* a text is taken as given.  compiled is the evaluator of the expression  *)
(* that was compiled last: its HRESULT and its type.                       *)
(***************************************************************************)
EXTENDS NameLookup, FrameClasses

CONSTANTS
    Frames,             \* the frames of the stack, by number
    NameExpressions,    \* expressions of breakpoints that look names up
    LiteralExpressions  \* expressions that do not, so that no call can fail

VARIABLE compiled       \* the evaluator, or NoEvaluator

vars == <<frame, cache, compiled, unread>>

-----------------------------------------------------------------------------
(* Operators on numbers *)

Compiled(c, type) == [hr |-> "S_OK", c |-> c, type |-> type]

NotCompiled(c) == [hr |-> "FAIL", c |-> c, type |-> NoSignature]

TypeMismatch(c) == NotCompiled(c)

\* A value that an evaluator computes with a function for one of these types.
Computed(c, t, types) == IF t \in types THEN Compiled(c, Primitive(t)) ELSE TypeMismatch(c)

IntegerTypes == {"I4", "U4", "I8", "U8"}

ComputedTypes == IntegerTypes \cup {"R4", "R8"}

CompileArithmetical(c, a, b) == Computed(c, BinaryNumericalPromotion(a, b), ComputedTypes)

CompileBooleanConditional(c, a, b) ==
    IF a = "BOOLEAN" /\ b = "BOOLEAN" THEN Compiled(c, Primitive("BOOLEAN"))
    ELSE TypeMismatch(c)

\* The promotion takes the first operand twice.
CompileRelational(c, op, a, b) ==
    IF IsNumericalType(a) /\ IsNumericalType(b)
    THEN IF BinaryNumericalPromotion(a, a) \in ComputedTypes
         THEN Compiled(c, Primitive("BOOLEAN")) ELSE TypeMismatch(c)
    ELSE IF op \notin {"eq", "ne"} THEN NotCompiled(c)
    ELSE IF a = "BOOLEAN" /\ b = "BOOLEAN" THEN CompileBooleanConditional(c, a, b)
    ELSE IF ~IsNumericalType(a) /\ ~IsNumericalType(b)
         THEN Compiled(c, Primitive("BOOLEAN"))
    ELSE TypeMismatch(c)

CompileLogical(c, a, b) ==
    IF IsIntegralType(a) /\ IsIntegralType(b)
    THEN Computed(c, BinaryNumericalPromotion(a, b), IntegerTypes)
    ELSE CompileBooleanConditional(c, a, b)

\* A first operand that no function shifts: returns false, which is S_OK.
CompileShift(c, a, b) ==
    LET t == IF IsNumericallyPromotedToInt(a) THEN "I4" ELSE a
    IN IF ~IsIntegralType(a) /\ ~IsIntegralType(b) THEN TypeMismatch(c)
       ELSE IF ~IsNumericallyPromotedToInt(b) /\ b # "I4" THEN TypeMismatch(c)
       ELSE IF t \notin DOMAIN ClassName THEN NotCompiled(c)
       ELSE Compiled(c, Primitive(t))

ArithmeticOps == {"add", "sub", "mul", "div", "mod"}

RelationalOps == {"eq", "ne", "le", "ge", "lt", "gt"}

CompileBinary(c, op, a, b) ==
    CASE op \in ArithmeticOps -> CompileArithmetical(c, a, b)
      [] op \in RelationalOps -> CompileRelational(c, op, a, b)
      [] op \in {"conditional_and", "conditional_or"} -> CompileBooleanConditional(c, a, b)
      [] op \in {"bitwise_and", "bitwise_or", "bitwise_xor"} -> CompileLogical(c, a, b)
      [] op \in {"shl", "shr_s", "shr_u"} -> CompileShift(c, a, b)

CompileUnary(c, op, a) ==
    LET promoted == IF IsNumericallyPromotedToInt(a) THEN "I4" ELSE a
        negated == IF promoted = "U4" THEN "I8" ELSE promoted
    IN CASE op = "plus" -> Computed(c, promoted, ComputedTypes)
         [] op = "minus" -> Computed(c, negated, {"I4", "I8", "R4", "R8"})
         [] op = "bitwise_complement" -> Computed(c, promoted, IntegerTypes)
         [] op = "logical_complement" -> Computed(c, a, {"BOOLEAN"})

\* CompileBoolean, CompileNumeric and CompileObjects.
CompileConditional(c, condition, if_true, if_false) ==
    LET t == if_true.cor_type
        e == if_false.cor_type
    IN IF condition # "BOOLEAN" THEN NotCompiled(c)
       ELSE IF t = "BOOLEAN" /\ e = "BOOLEAN" THEN Compiled(c, Primitive("BOOLEAN"))
       ELSE IF IsImplicitNumericConversionable(t, e) THEN Compiled(c, if_false)
       ELSE IF IsImplicitNumericConversionable(e, t) THEN Compiled(c, if_true)
       ELSE IF t = e /\ (IsObjectType(t) \/ if_true.is_array \/ t = "STRING")
            THEN Compiled(c, IF Equal(if_true, if_false) THEN if_true
                             ELSE Primitive("OBJECT"))
       ELSE TypeMismatch(c)

\* To a base class, or to a class that it is one of.
CastDown(down, target) ==
    IF down.hr = "S_OK" THEN Compiled(down.c, target) ELSE NotCompiled(down.c)

CastUp(f, up, bad, source, target) ==
    IF up.hr = "S_OK" THEN Compiled(up.c, target)
    ELSE CastDown(IsBaseType(f, up.c, bad, target, source), target)

CompileCast(f, c, bad, source, target_name) ==
    LET target == Signature(ConvertStringToCorElementType(target_name), target_name)
        s == source.cor_type
        t == target.cor_type
    IN IF \/ t = "BOOLEAN" /\ IsNumericalType(s)
          \/ s = "BOOLEAN" /\ IsNumericalType(t)
       THEN NotCompiled(c)
       ELSE IF s = "BOOLEAN" /\ t = "BOOLEAN" THEN Compiled(c, source)
       ELSE IF IsNumericalType(s) /\ IsNumericalType(t) THEN Compiled(c, target)
       ELSE IF ~IsObjectType(t) \/ ~IsObjectType(s) THEN NotCompiled(c)
       ELSE CastUp(f, IsBaseType(f, c, bad, source, target), bad, source, target)

-----------------------------------------------------------------------------
(* Names, members and calls *)

\* A local variable or argument, then a field, then a property of the class.
IdentifierOfProperty(f, property) ==
    IF property.hr # "S_OK" THEN NotCompiled(property.c)
    ELSE IF ~property.v.static /\ f.is_static_method THEN NotCompiled(property.c)
    ELSE Compiled(property.c, property.v.type)

IdentifierOfField(f, bad, name, field) ==
    CASE field.hr = "S_OK" -> Compiled(field.c, field.v)
      [] field.hr = "FAIL" -> NotCompiled(field.c)
      [] OTHER -> IdentifierOfProperty(f, GetPropertyFromFrame(f, field.c, bad, name))

CompileIdentifier(f, c, bad, name) ==
    LET local == GetLocalVariable(f, c, name)
    IN IF local.hr = "S_OK" THEN Compiled(c, local.v)
       ELSE IdentifierOfField(f, bad, name, GetFieldAndAutoPropFromFrame(f, c, bad, name))

CompiledMember(member) ==
    IF member.hr = "S_OK" THEN Compiled(member.c, member.v.type) ELSE NotCompiled(member.c)

\* A field, then a property.
FieldOrProperty(field, class, bad, member, generics) ==
    IF field.hr = "S_OK" THEN field
    ELSE GetPropertyFromClass(field.c, class, member, generics, bad)

CompileMember(class, bad, member, generics) ==
    IF class.hr # "S_OK" THEN NotCompiled(class.c)
    ELSE CompiledMember(
             FieldOrProperty(GetFieldFromClass(class.c, class.v, member, generics, bad),
                             class.v, bad, member, generics))

CompileClassMemberHelper(f, c, bad, class_signature, member, has_instance) ==
    IF class_signature.is_array
    THEN IF member = "Length" /\ has_instance THEN Compiled(c, Primitive("I4"))
         ELSE NotCompiled(c)
    ELSE CompileMember(GetClassTokenAndModule(f, c, bad, class_signature.type_name),
                       bad, member, class_signature.generic_types)

FailedUnlessFound(method) == IF method.hr = "S_OK" THEN method ELSE Failed(method.c)

\* A class that was not found has no metadata, which is an error.
FunctionFromClass(f, class, bad, generics, info) ==
    IF class.hr # "S_OK" THEN Failed(class.c)
    ELSE FailedUnlessFound(GetDebugFunctionFromClass(f, class.c, bad, class.v, generics,
                                                     info))

GetDebugFunctionFromClassNameHelper(f, c, bad, class_signature, info) ==
    FunctionFromClass(f, GetClassTokenAndModule(f, c, bad, class_signature.type_name),
                      bad, class_signature.generic_types, info)

\* A generic method is not supported.
CalledMethod(method) ==
    IF method.hr # "S_OK" \/ method.v.has_generic_types THEN NotCompiled(method.c)
    ELSE Compiled(method.c, method.v.returned_type)

kMaximumArguments == 10

\* A call without a source or a class is one of the class of the frame.
CalledOwnMethod(f, own) ==
    IF own.hr = "S_OK" /\ ~own.v.is_static /\ f.is_static_method THEN NotCompiled(own.c)
    ELSE CalledMethod(own)

CompileCall(f, c, bad, info, own, class_signature) ==
    IF own
    THEN CalledOwnMethod(f, GetDebugFunctionFromCurrentClass(f, c, bad, info))
    ELSE CalledMethod(GetDebugFunctionFromClassNameHelper(f, c, bad, class_signature, info))

CompiledItem(item) ==
    IF item.hr = "S_OK" THEN Compiled(item.c, item.v.returned_type) ELSE NotCompiled(item.c)

CompileIndex(f, c, bad, collection, index) ==
    IF ~collection.is_array
    THEN CompiledItem(GetDebugFunctionFromClassNameHelper(
                          f, c, bad, collection, MethodInfo("get_Item", <<index>>)))
    ELSE IF IsIntegralType(index.cor_type) /\ Len(collection.generic_types) = 1
         THEN Compiled(c, collection.generic_types[1])
    ELSE NotCompiled(c)

NoSource == [k |-> "none"]

\* A member of the source, and when that fails one of the class of its name.
CompileOfSource(f, bad, e, source) ==
    IF source.hr = "FAIL" THEN source
    ELSE IF source.type.type_name = NoName THEN Compiled(source.c, NoSignature)
    ELSE CompileClassMemberHelper(f, source.c, bad, source.type, e.name, TRUE)

CompileOfClass(f, bad, e, of_source) ==
    IF of_source.hr = "S_OK" \/ e.class = NoName THEN of_source
    ELSE CompileClassMemberHelper(f, of_source.c, bad, Signature("CLASS", e.class),
                                  e.name, TRUE)

AddArgument(r, a) == [hr |-> a.hr, c |-> a.c, types |-> Append(r.types, a.type)]

RECURSIVE Compile(_, _, _, _)
Compile(f, c, bad, e) ==
    CASE e.k = "literal" -> Compiled(c, e.type)
      [] e.k = "identifier" -> CompileIdentifier(f, c, bad, e.name)
      [] e.k = "field" ->
            CompileOfClass(f, bad, e, CompileOfSource(f, bad, e, Compile(f, c, bad, e.source)))
      [] e.k = "call" ->
            LET arguments ==
                    FoldLeft(LAMBDA r, argument :
                                 IF r.hr = "FAIL" THEN r
                                 ELSE AddArgument(r, Compile(f, r.c, bad, argument)),
                             [hr |-> "S_OK", c |-> c, types |-> <<>>], e.arguments)
                info == MethodInfo(e.name, arguments.types)
                source == IF e.source = NoSource
                          THEN Compiled(arguments.c, Signature("END", e.class))
                          ELSE Compile(f, arguments.c, bad, e.source)
            IN IF Len(e.arguments) > kMaximumArguments THEN NotCompiled(c)
               ELSE IF arguments.hr = "FAIL" THEN NotCompiled(arguments.c)
               ELSE IF source.hr = "FAIL" THEN source
               ELSE CompileCall(f, source.c, bad, info,
                                e.source = NoSource /\ e.class = NoName, source.type)
      [] e.k = "binary" ->
            LET a == Compile(f, c, bad, e.left)
                b == Compile(f, a.c, bad, e.right)
            IN IF a.hr = "FAIL" THEN a
               ELSE IF b.hr = "FAIL" THEN b
               ELSE CompileBinary(b.c, e.op, a.type.cor_type, b.type.cor_type)
      [] e.k = "unary" ->
            LET a == Compile(f, c, bad, e.arg)
            IN IF a.hr = "FAIL" THEN a ELSE CompileUnary(a.c, e.op, a.type.cor_type)
      [] e.k = "conditional" ->
            LET condition == Compile(f, c, bad, e.condition)
                if_true == Compile(f, condition.c, bad, e.if_true)
                if_false == Compile(f, if_true.c, bad, e.if_false)
            IN IF condition.hr = "FAIL" THEN condition
               ELSE IF if_true.hr = "FAIL" THEN if_true
               ELSE IF if_false.hr = "FAIL" THEN if_false
               ELSE CompileConditional(if_false.c, condition.type.cor_type,
                                       if_true.type, if_false.type)
      [] e.k = "cast" ->
            LET source == Compile(f, c, bad, e.source)
            IN IF source.hr = "FAIL" THEN source
               ELSE CompileCast(f, source.c, bad, source.type, e.target)
      [] e.k = "index" ->
            LET collection == Compile(f, c, bad, e.source)
                index == Compile(f, collection.c, bad, e.index)
            IN IF collection.hr = "FAIL" THEN collection
               ELSE IF index.hr = "FAIL" THEN index
               ELSE CompileIndex(f, index.c, bad, collection.type, index.type)

-----------------------------------------------------------------------------
(* Frames and expressions *)

NoEvaluator == [hr |-> "none"]

Init ==
    /\ frame = NoFrame
    /\ cache = NoCache
    /\ compiled = NoEvaluator
    /\ unread = FALSE

\* Faulty variant: the caches of the frame before are kept.
InitializeKeepsCache(k, bad) ==
    LET generics == InitializeClassGenericTypeParameters(Frames[k], bad)
    IN /\ compiled = NoEvaluator
       /\ generics.ok
       /\ frame' = [k |-> k, generics |-> generics.v] @@ Frames[k]
       /\ unread' = FALSE
       /\ UNCHANGED <<cache, compiled>>

\* DbgStackFrame::Initialize of frame k, as far as expressions see it.
Initialize(k, bad) ==
    LET generics == InitializeClassGenericTypeParameters(Frames[k], bad)
    IN /\ compiled = NoEvaluator
       /\ generics.ok
       /\ frame' = [k |-> k, generics |-> generics.v] @@ Frames[k]
       /\ cache' = NoCache
       /\ unread' = FALSE
       /\ UNCHANGED compiled

CompileExpression(e, bad) ==
    /\ HasFrame
    /\ compiled = NoEvaluator
    /\ \E result \in {Compile(frame, cache, bad, e)} :
           /\ compiled' = [e |-> e, hr |-> result.hr, type |-> result.type]
           /\ cache' = result.c
    /\ unread' = (unread \/ PassedOver(bad))
    /\ UNCHANGED frame

\* The evaluator belongs to the expression and goes with it.
DropEvaluator ==
    /\ compiled # NoEvaluator
    /\ compiled' = NoEvaluator
    /\ UNCHANGED <<frame, cache, unread>>

\* An expression and the call that fails while it is compiled.
Compilations ==
    (NameExpressions \X Attempts) \cup (LiteralExpressions \X {NoFailure})

Next ==
    \/ \E k \in DOMAIN Frames, bad \in Attempts : Initialize(k, bad)
    \/ \E <<e, bad>> \in Compilations : CompileExpression(e, bad)
    \/ DropEvaluator

Spec == Init /\ [][Next]_vars

-----------------------------------------------------------------------------
(* Properties *)

Succeeded == compiled # NoEvaluator /\ compiled.hr = "S_OK"

Caches == INSTANCE FrameCache WITH frame <- [module |-> frame.module]

\* An expression, whatever evaluators it has, does no more to the caches of the
\* frame than to fill them, and a frame begins with empty ones: what module
\* FrameCache promises about the classes that are found holds of Compile.
ImplementsFrameCache == Caches!Spec

\* Calls that choose an overload by the class of an argument, and names of
\* auto-implemented properties of the frame, are left out: there a failing call
\* leads to another overload (method_info.cc:191), or to the property itself in
\* place of its backing field.
RECURSIVE IsPlain(_)
IsPlain(e) ==
    CASE e.k = "call" -> e.arguments = <<>> /\ (e.source = NoSource \/ IsPlain(e.source))
      [] e.k = "field" -> IsPlain(e.source)
      [] e.k = "identifier" ->
            ~\E field \in Range(ClassOf(FrameClass(frame)).fields) :
                 field.backing /\ field.name = e.name
      [] e.k = "binary" -> IsPlain(e.left) /\ IsPlain(e.right)
      [] e.k = "unary" -> IsPlain(e.arg)
      [] e.k = "conditional" -> IsPlain(e.if_true) /\ IsPlain(e.if_false)
      [] e.k \in {"cast", "index"} -> IsPlain(e.source)
      [] OTHER -> TRUE

\* Whatever call fails now, and whatever failed for earlier expressions of the
\* frame, an expression is refused or has the type it has when nothing fails: a
\* partly filled cache or a module that cannot be read never makes a name mean
\* another class or member.
FailureKeepsType ==
    Succeeded /\ IsPlain(compiled.e) =>
        LET clean == [frame EXCEPT !.generics =
                         InitializeClassGenericTypeParameters(frame, NoFailure).v]
        IN \E result \in {Compile(clean, NoCache, NoFailure, compiled.e)} :
               result.hr = "S_OK" /\ result.type = compiled.type

\* The type that a declaration stands for in a class with these type arguments.
RECURSIVE Denotes(_, _)
Denotes(decl, generics) ==
    CASE decl.t = "primitive" -> Primitive(decl.name)
      [] decl.t = "class" -> Signature(ConvertStringToCorElementType(decl.name), decl.name)
      [] decl.t = "parameter" -> generics[decl.number + 1]
      [] decl.t = "array" ->
            [Signature(IF decl.rank = 0 THEN "SZARRAY" ELSE "ARRAY", kArrayClassName)
             EXCEPT !.is_array = TRUE, !.array_rank = decl.rank,
                    !.generic_types = <<Denotes(decl.of, generics)>>]
      [] decl.t = "generic" ->
            [Signature("GENERICINST", decl.of.name) EXCEPT !.generic_types =
                [k \in DOMAIN decl.arguments |-> Denotes(decl.arguments[k], generics)]]

MembersNamed(class, name) ==
    {member \in Range(class.fields) \cup Range(class.properties)
                \cup Range(class.methods) : member.name = name}

\* A member of a class has the type it is declared with, the type arguments of
\* the class put in place of its parameters: reading a signature takes exactly
\* the bytes of each part, arrays and generic types within it included.  decl
\* is the declaration that a signature was made from.
DeclaredType ==
    Succeeded /\ compiled.e.k \in {"field", "call"} /\ compiled.e.source # NoSource =>
        \A source \in {Compile(frame, cache, NoFailure, compiled.e.source)} :
        \A class \in {GetClassTokenAndModule(frame, cache, NoFailure,
                                             source.type.type_name)} :
            source.hr = "S_OK" /\ class.hr = "S_OK" =>
                LET named == MembersNamed(ClassOf(class.v), compiled.e.name)
                IN Cardinality(named) = 1 =>
                       \A member \in named :
                           compiled.type = Denotes(member.decl, source.type.generic_types)

\* What C# computes two numbers in: the first of these types that both convert
\* to, a floating-point type only when one of them is one.
PromotionOrder == <<"I4", "U4", "I8", "U8", "R4", "R8">>

\* Arithmetic on two numbers is computed in the type that C# promotes them to,
\* and refused when C# has none.
PromotionIsLeast ==
    compiled # NoEvaluator /\ compiled.e.k = "binary" /\ compiled.e.op \in ArithmeticOps
    /\ compiled.e.left.k = "literal" /\ compiled.e.right.k = "literal" =>
        LET types == {compiled.e.left.type.cor_type, compiled.e.right.type.cor_type}
            common == {k \in DOMAIN PromotionOrder :
                          /\ \A t \in types :
                                 IsImplicitNumericConversionable(t, PromotionOrder[k])
                          /\ PromotionOrder[k] \in {"R4", "R8"}
                             => types \cap {"R4", "R8"} # {}}
        IN (\A t \in types : IsNumericalType(t)) =>
               IF common = {} THEN compiled.hr = "FAIL"
               ELSE compiled.type = Primitive(PromotionOrder[Min(common)])

\* expression_evaluator.h: Compile "implements all static type checks.  For
\* example "true + 8" is not a valid expression".
CompileChecksTypes ==
    Succeeded /\ compiled.e.k = "binary" /\ compiled.e.op \in ArithmeticOps =>
        \A operand \in {compiled.e.left, compiled.e.right} :
            IsNumericalType(Compile(frame, cache, NoFailure, operand).type.cor_type)
=============================================================================
