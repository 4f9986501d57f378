------------------------- MODULE MCBreakpointReport -------------------------
(***************************************************************************)
(* Instances of BreakpointReport for TLC: stacks of at most six frames,   *)
(* one and two breakpoints at a location, and a heap with one value of     *)
(* every kind.                                                             *)
(***************************************************************************)
EXTENDS BreakpointReport

MCObjects == {"int", "null", "void", "static", "lost", "node", "point", "box",
              "array", "list", "empty", "set", "gone"}

MCKind == [o \in MCObjects |->
    CASE o = "int"    -> "primitive"
      [] o = "null"   -> "null"
      [] o = "void"   -> "untyped"
      [] o = "static" -> "static"
      [] o = "lost"   -> "unevaluated"
      [] o \in {"node", "point", "box"} -> "class"
      [] o = "array"  -> "array"
      [] o \in {"list", "empty"} -> "list"
      [] o = "set"    -> "set"
      [] o = "gone"   -> "free"]

MCMembers == [o \in MCObjects |->
    CASE o = "node"  -> <<"node", "static", "null">>
      [] o = "point" -> <<"int", "static", "lost">>
      [] o = "box"   -> <<"array">>
      [] o = "array" -> <<"int", "int", "int">>
      [] o \in {"list", "empty"} -> <<"int", "null", "int">>
      [] o = "set" -> <<"gone", "int", "int", "null">>
      [] OTHER -> <<>>]

MCCount == [o \in MCObjects |-> CASE o = "list" -> 1 [] o = "set" -> 3 [] OTHER -> 0]

Fr(kind, async, v) == [kind |-> kind, async |-> async, vars |-> v]

Il(v) == Fr("il", FALSE, v)
Other(kind) == Fr(kind, FALSE, <<>>)

Whole(s) == [frames |-> s, torn |-> FALSE]
Torn(s) == [frames |-> s, torn |-> TRUE]

MCStacks == {
    Whole(<<Il(<<"void", "node", "point">>), Il(<<"node", "array">>),
            Il(<<"int">>)>>),
    Whole(<<Il(<<"list", "empty">>), Other("native"),
            Fr("partial", FALSE, <<"point">>), Il(<<"lost">>), Il(<<"int">>)>>),
    Whole(<<Fr("il", TRUE, <<"array">>), Other("plain"), Other("plain"),
            Fr("il", TRUE, <<"point">>), Other("native"), Other("plain")>>),
    Whole(<<Fr("il", TRUE, <<"int">>), Other("native"), Other("unmapped"),
            Il(<<"set">>), Il(<<"node">>)>>),
    Whole(<<Other("native"), Il(<<"null", "set">>), Il(<<"int">>),
            Other("unmapped")>>),
    Whole(<<Il(<<"set">>), Other("unmapped")>>),
    Whole(<<Il(<<"int", "set">>), Il(<<"int">>)>>),
    Whole(<<Il(<<"box">>)>>),
    Whole(<<Il(<<"int">>), Other("bad"), Il(<<"int">>)>>),
    Torn(<<Il(<<"array">>), Other("plain")>>),
    Torn(<<Il(<<"int">>)>>),
    Torn(<<Fr("il", TRUE, <<"point">>), Other("plain")>>)}

Bp(condition, expressions) ==
    [condition |-> condition, expressions |-> expressions]

MCBreakpoints == {Bp(FALSE, <<>>), Bp(TRUE, <<>>), Bp(FALSE, <<"array">>),
                  Bp(FALSE, <<"int">>), Bp(TRUE, <<"list", "empty">>),
                  Bp(FALSE, <<"node", "point">>), Bp(FALSE, <<"box">>)}

MCBatches == {<<b>> : b \in MCBreakpoints}
             \cup (MCBreakpoints \X MCBreakpoints)

MCFaults == {"ActiveFrame", "StackWalk", "Evaluate", "Write"}

=============================================================================
