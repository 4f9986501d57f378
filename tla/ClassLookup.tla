------------------------------ MODULE ClassLookup ------------------------------
(***************************************************************************)
(* How a stack frame finds a class by its name: the two caches of          *)
(* DbgStackFrame (dbg_stack_frame.cc) and the metadata queries that fill   *)
(* them (cor_debug_helper.cc).                                             *)
(*                                                                         *)
(* A frame fills its caches, the types of its module and the loaded        *)
(* assemblies, the first time a class is looked up, and keeps them for the *)
(* other expressions of the breakpoint.  An operator takes the frame f,    *)
(* its caches c and bad, the one call of ICorDebug or of the metadata that *)
(* fails (or NoFailure), and returns an HRESULT, the caches and a value.   *)
(***************************************************************************)
EXTENDS PdbStream

CONSTANTS
    Modules,            \* of an application domain: the types and type references
    kTypesAtOnce        \* 100: tokens that one call enumerates

ASSUME EnumerationAssumption == kTypesAtOnce \in Nat \ {0}

\* The rows of the tables are numbered from 1, and each has a name.
ASSUME ModulesAssumption ==
    /\ Len(Modules) \in Nat /\ DOMAIN Modules = 1..Len(Modules)
    /\ \A m \in DOMAIN Modules :
          /\ Len(Modules[m].types) \in Nat
          /\ DOMAIN Modules[m].types = 1..Len(Modules[m].types)
          /\ \A k \in DOMAIN Modules[m].types :
                Modules[m].types[k].name \in STRING \ {NoName}
          /\ Modules[m].refs \in Seq(STRING \ {NoName})

-----------------------------------------------------------------------------
(* Results and failing calls *)

NoFailure == <<"none">>

Ret(hr, c, v) == [hr |-> hr, c |-> c, v |-> v]

Failed(c) == Ret("FAIL", c, NoValue)

NotFound(c) == Ret("S_FALSE", c, NoValue)

\* The caches of a frame that has just been read.
NoCache ==
    [type_def_dict |-> <<>>, type_ref_dict |-> <<>>, type_dict_populated |-> FALSE,
     debug_assemblies |-> <<>>, debug_assemblies_populated |-> FALSE]

\* GetMetadataImportFromICorDebugModule: m is a module.
HasMetadataImport(m, bad) == bad # <<"GetMetaDataInterface", m>>

\* The names of the rows of a module, as GetTypeNameFromMdTypeDef and
\* GetTypeNameFromMdTypeRef give them.
RowNames(m, rows, bad) ==
    [def |-> [k \in DOMAIN rows.types |->
                 IF bad = <<"GetTypeDefProps", m, k>> THEN NoName ELSE rows.types[k].name],
     ref |-> [k \in DOMAIN rows.refs |->
                 IF bad = <<"GetTypeRefProps", m, k>> THEN NoName ELSE rows.refs[k]]]

NamesOf(m, bad) == RowNames(m, Modules[m], bad)

\* The rows with a name.
Named(list, name) == {k \in DOMAIN list : list[k].name = name}

-----------------------------------------------------------------------------
(* The dictionaries of types *)

\* Faulty variant: a call that fails ends the enumeration as if nothing were left.
EnumerationForgives(call, names, bad) ==
    [ok |-> TRUE, n |-> IF bad = <<call, 1>> THEN 0 ELSE Len(names)]

\* Enumerates rows in portions.  The call for a portion that does not exist
\* ends it, and so does a portion whose last name cannot be read: its HRESULT
\* is the one the loop tests.  n rows are read.
Enumeration(call, names, bad) ==
    LET LastRow(k) == Min({k * kTypesAtOnce, Len(names)})
        Ends(k) == (k - 1) * kTypesAtOnce >= Len(names) \/ names[LastRow(k)] = NoName
        calls == Min({k \in 1..(Len(names) + 1) : Ends(k)})
        failed == {k \in 1..calls : bad = <<call, k>>}
        whole == IF failed = {} THEN calls ELSE Min(failed) - 1
    IN [ok |-> failed = {}, n |-> LastRow(whole)]

\* A dictionary of the first n names; the last row of a name stays.
Dict(names, n) ==
    [name \in {names[k] : k \in 1..n} |-> Max({k \in 1..n : names[k] = name})]

\* A dictionary after the entries of added were assigned.
Assigned(dict, added) ==
    [name \in DOMAIN dict \cup DOMAIN added |->
        IF name \in DOMAIN added THEN added[name] ELSE dict[name]]

\* A definition without a name is left out, a reference without one is stored
\* under the empty name.
AddTypeDefs(c, names, defs) ==
    LET named == Dict(names, defs.n)
        def_dict == [name \in DOMAIN named \ {NoName} |-> named[name]]
    IN Ret(IF defs.ok THEN "S_OK" ELSE "FAIL",
           [c EXCEPT !.type_def_dict = Assigned(@, def_dict)], NoValue)

AddTypeRefs(c, names, refs) ==
    Ret(IF refs.ok THEN "S_OK" ELSE "FAIL",
        [c EXCEPT !.type_ref_dict = Assigned(@, Dict(names, refs.n)),
                  !.type_dict_populated = refs.ok],
        NoValue)

\* The references are enumerated when the definitions have been.
AddTypes(r, names, bad) ==
    IF r.hr = "FAIL" THEN r
    ELSE AddTypeRefs(r.c, names, Enumeration("EnumTypeRefs", names, bad))

AddTypesNamed(c, names, bad) ==
    AddTypes(AddTypeDefs(c, names.def, Enumeration("EnumTypeDefs", names.def, bad)),
             names.ref, bad)

PopulateTypeDict(f, c, bad) ==
    IF c.type_dict_populated THEN Ret("S_OK", c, NoValue)
    ELSE IF ~HasMetadataImport(f.module, bad) THEN Failed(c)
    ELSE AddTypesNamed(c, NamesOf(f.module, bad), bad)

\* EnumerateICorDebugSpecifiedType: a call that fails without a value ends the
\* enumeration as if nothing were left.
EnumerateICorDebugSpecifiedType(items, bad) ==
    IF bad = <<"Next">> THEN <<>> ELSE items

\* Every assembly has one module.
PopulateDebugAssemblies(c, bad) ==
    LET all == [m \in DOMAIN Modules |-> m]
    IN IF c.debug_assemblies_populated THEN Ret("S_OK", c, NoValue)
       ELSE IF bad = <<"EnumerateAssemblies">> THEN Failed(c)
       ELSE Ret("S_OK",
                [c EXCEPT !.debug_assemblies = EnumerateICorDebugSpecifiedType(all, bad),
                          !.debug_assemblies_populated = TRUE],
                NoValue)

-----------------------------------------------------------------------------
(* Classes *)

\* FindTypeDefByName
TypesNamed(m, name) == Named(Modules[m].types, name)

\* Faulty variant: an assembly whose metadata cannot be read is passed over.
ResolvedElsewhere(ref, m, assemblies, bad) ==
    LET name == Modules[m].refs[ref]
        found == {k \in DOMAIN assemblies :
                     HasMetadataImport(assemblies[k], bad)
                     /\ TypesNamed(assemblies[k], name) # {}}
        first == assemblies[Min(found)]
    IN IF found = {} THEN [ok |-> FALSE]
       ELSE [ok |-> TRUE, v |-> [module |-> first, type |-> Min(TypesNamed(first, name))]]

\* EnumerateModules or the metadata of an assembly fails.
IsBroken(assembly, bad) ==
    bad = <<"EnumerateModules">> \/ ~HasMetadataImport(assembly, bad)

\* stops are the assemblies that end the search for a name.
FirstOfStops(stops, assemblies, name, bad) ==
    LET found == assemblies[Min(stops)]
    IN IF name = NoName \/ stops = {} THEN [ok |-> FALSE]
       ELSE IF IsBroken(found, bad) THEN [ok |-> FALSE]
       ELSE [ok |-> TRUE, v |-> [module |-> found, type |-> Min(TypesNamed(found, name))]]

FindTypeDef(name, assemblies, bad) ==
    FirstOfStops({k \in DOMAIN assemblies : \/ IsBroken(assemblies[k], bad)
                                            \/ TypesNamed(assemblies[k], name) # {}},
                 assemblies, name, bad)

\* The type definition of row ref of module m: the first assembly, in the order
\* of the enumeration, whose module has a type of that name.
GetMdTypeDefAndMetaDataFromTypeRef(ref, m, assemblies, bad) ==
    FindTypeDef(NamesOf(m, bad).ref[ref], assemblies, bad)

\* A type reference, resolved with the assemblies of the caches.
ResolvedClass(c, resolved, bad) ==
    IF ~resolved.ok \/ bad = <<"GetModuleFromMetaDataInterface">> THEN Failed(c)
    ELSE Ret("S_OK", c, resolved.v)

ClassOfTypeRef(f, assemblies, bad, class_name) ==
    LET c == assemblies.c
    IN IF assemblies.hr = "FAIL" THEN assemblies
       ELSE IF class_name \notin DOMAIN c.type_ref_dict THEN NotFound(c)
       ELSE ResolvedClass(c, GetMdTypeDefAndMetaDataFromTypeRef(
                                 c.type_ref_dict[class_name], f.module,
                                 c.debug_assemblies, bad),
                          bad)

\* A type definition of the frame's module comes first.
ClassOfDict(f, dict, bad, class_name) ==
    IF dict.hr = "FAIL" \/ ~HasMetadataImport(f.module, bad) THEN Failed(dict.c)
    ELSE IF class_name \in DOMAIN dict.c.type_def_dict
         THEN Ret("S_OK", dict.c, [module |-> f.module,
                                   type |-> dict.c.type_def_dict[class_name]])
    ELSE ClassOfTypeRef(f, PopulateDebugAssemblies(dict.c, bad), bad, class_name)

GetClassTokenAndModule(f, c, bad, class_name) ==
    ClassOfDict(f, PopulateTypeDict(f, c, bad), bad, class_name)

ClassOf(class) == Modules[class.module].types[class.type]
=============================================================================
