--------------------------- MODULE FrameCacheProofs ---------------------------
(***************************************************************************)
(* Proofs about FrameCache, for every list of modules and every set of     *)
(* calls that may fail.  CacheInv is inductive.  FoundClass and            *)
(* ClassIsFound say what GetClassTokenAndModule returns with caches that   *)
(* satisfy it, and the properties follow.                                  *)
(***************************************************************************)
EXTENDS FrameCache, SequenceTheorems, WellFoundedInduction, TLAPS

-----------------------------------------------------------------------------
(* Least and greatest rows *)

\* A set of natural numbers has a least element.
LEMMA LeastOf ==
    ASSUME NEW S, S \subseteq Nat, S # {}
    PROVE  Min(S) \in S /\ \A j \in S : Min(S) <= j
<1>1. PICK i \in S : \A j \in S : <<j, i>> \notin OpToRel(<, Nat)
  BY NatLessThanWellFounded, WFMin
<1>2. \A j \in S : j \in Nat /\ ~(j < i)
  BY <1>1 DEF OpToRel
<1>3. \E x \in S : \A y \in S : x =< y
  BY <1>2
<1>4. Min(S) \in S /\ \A y \in S : Min(S) =< y
  BY <1>3, Zenon DEF Min
<1> QED
  BY <1>4

\* The least element is the only one with that property.
LEMMA LeastIs ==
    ASSUME NEW S, S \subseteq Nat, NEW i \in S, \A j \in S : i <= j
    PROVE  Min(S) = i
<1>1. Min(S) \in S /\ Min(S) <= i
  BY LeastOf
<1>2. Min(S) \in Nat /\ i \in Nat /\ i <= Min(S)
  BY <1>1
<1> QED
  BY <1>1, <1>2

\* A set of rows has a greatest one.
LEMMA GreatestOf ==
    ASSUME NEW n \in Nat, NEW S \in SUBSET (1..n), S # {}
    PROVE  Max(S) \in S
<1> DEFINE T == {n - i : i \in S}
<1>1. T \subseteq Nat /\ T # {}
  <2>1. \A i \in S : n - i \in Nat
    OBVIOUS
  <2> QED
    BY <2>1
<1>2. PICK t \in T : \A u \in T : t <= u
  <2> HIDE DEF T
  <2> QED
    BY <1>1, LeastOf
<1>3. PICK i \in S : t = n - i
  BY <1>2
<1>4. \A j \in S : n - i <= n - j
  BY <1>2, <1>3
<1>5. \A y \in S : i >= y
  <2>1. \A j \in S : j \in Nat
    OBVIOUS
  <2> QED
    BY <1>4, <2>1
<1>6. \E x \in S : \A y \in S : x >= y
  BY <1>5
<1> QED
  BY <1>6, Zenon DEF Max

\* The smaller of two numbers.
LEMMA MinOfTwo ==
    ASSUME NEW a \in Nat, NEW b \in Nat
    PROVE  Min({a, b}) = IF a <= b THEN a ELSE b
<1>1. CASE a <= b
  <2>1. Min({a, b}) = a
    BY <1>1, LeastIs
  <2> QED
    BY <1>1, <2>1
<1>2. CASE ~(a <= b)
  <2>1. Min({a, b}) = b
    BY <1>2, LeastIs
  <2> QED
    BY <1>2, <2>1
<1> QED
  BY <1>1, <1>2

-----------------------------------------------------------------------------
(* The enumeration of rows *)

\* A list of names, as the metadata gives them.
Names == Seq(STRING \cup {NoName})

\* A multiple is not less.
LEMMA Multiple ==
    ASSUME NEW a \in Nat
    PROVE  a * kTypesAtOnce \in Nat /\ a * kTypesAtOnce >= a
<1>1. kTypesAtOnce \in Nat /\ kTypesAtOnce >= 1
  BY EnumerationAssumption
<1> QED
  BY <1>1

\* An enumeration reads rows that exist, and all of them when none of its calls
\* failed and every name could be read.
LEMMA EnumerationReads ==
    ASSUME NEW call, NEW names \in Names, NEW bad
    PROVE  LET e == Enumeration(call, names, bad)
           IN /\ e.n \in 0..Len(names)
              /\ e.ok \in BOOLEAN
              /\ e.ok /\ (\A k \in 1..Len(names) : names[k] # NoName) => e.n = Len(names)
              /\ (\A k : bad # <<call, k>>) => e.ok
<1> DEFINE K == kTypesAtOnce
           L == Len(names)
           LastRow(k) == Min({k * K, L})
           Ends(k) == (k - 1) * K >= L \/ names[LastRow(k)] = NoName
           calls == Min({k \in 1..(L + 1) : Ends(k)})
           failed == {k \in 1..calls : bad = <<call, k>>}
           whole == IF failed = {} THEN calls ELSE Min(failed) - 1
           e == [ok |-> failed = {}, n |-> LastRow(whole)]
<1>1. L \in Nat
  BY LenProperties DEF Names
<1>2. \A k \in Nat : LastRow(k) = IF k * K <= L THEN k * K ELSE L
  BY <1>1, Multiple, MinOfTwo
<1>3. calls \in 1..(L + 1) /\ Ends(calls)
  <2> DEFINE S == {k \in 1..(L + 1) : Ends(k)}
  <2>1. (L + 1) - 1 = L /\ L + 1 \in 1..(L + 1)
    BY <1>1
  <2>2. Ends(L + 1)
    BY <1>1, <2>1, Multiple
  <2>3. L + 1 \in S
    BY <2>1, <2>2
  <2>4. S \subseteq Nat
    BY <1>1
  <2>5. Min(S) \in S
    <3> HIDE DEF S
    <3> QED
      BY <2>3, <2>4, LeastOf
  <2> QED
    BY <2>5
<1> HIDE DEF calls
<1>4. whole \in Nat
  <2>1. CASE failed = {}
    BY <1>1, <1>3, <2>1
  <2>2. CASE failed # {}
    <3>1. failed \subseteq 1..(L + 1)
      BY <1>1, <1>3
    <3>2. failed \subseteq Nat
      BY <1>1, <3>1
    <3>3. Min(failed) \in failed
      <4> HIDE DEF failed
      <4> QED
        BY <2>2, <3>2, LeastOf
    <3>4. whole = Min(failed) - 1
      BY <2>2
    <3>5. Min(failed) \in 1..(L + 1)
      BY <3>1, <3>3
    <3> HIDE DEF failed, whole
    <3> QED
      BY <1>1, <3>4, <3>5
  <2> QED
    BY <2>1, <2>2
<1>5. LastRow(whole) \in 0..L
  <2>1. whole * K \in Nat
    BY <1>4, Multiple
  <2> HIDE DEF whole, LastRow
  <2> QED
    BY <1>1, <1>2, <1>4, <2>1
<1>6. ASSUME failed = {}, \A k \in 1..L : names[k] # NoName
      PROVE  LastRow(whole) = L
  <2>1. whole = calls
    BY <1>6
  <2>2. calls \in Nat /\ calls >= 1 /\ calls - 1 \in Nat
    BY <1>1, <1>3
  <2>3. (calls - 1) * K + K = calls * K /\ K \in Nat /\ K >= 1
    BY <2>2, EnumerationAssumption
  <2>4. (calls - 1) * K \in Nat /\ calls * K \in Nat /\ calls * K >= 1
    BY <2>2, Multiple
  <2>5. CASE (calls - 1) * K >= L
    <3>1. calls * K >= L
      BY <1>1, <2>3, <2>4, <2>5
    <3> HIDE DEF LastRow
    <3> QED
      BY <1>1, <1>2, <2>1, <2>2, <2>4, <3>1
  <2>6. CASE names[LastRow(calls)] = NoName
    <3> HIDE DEF LastRow
    <3>1. LastRow(calls) \notin 1..L
      BY <1>6, <2>6
    <3>2. LastRow(calls) = IF calls * K <= L THEN calls * K ELSE L
      BY <1>2, <2>2
    <3>3. LastRow(calls) = L
      BY <1>1, <2>4, <3>1, <3>2
    <3> QED
      BY <2>1, <3>3
  <2> QED
    BY <1>3, <2>5, <2>6
<1>7. (\A k : bad # <<call, k>>) => failed = {}
  OBVIOUS
<1>8. Enumeration(call, names, bad) = e
  BY DEF Enumeration, calls
<1>9. e.n = LastRow(whole) /\ e.ok = (failed = {})
  OBVIOUS
<1> HIDE DEF failed, LastRow, whole, e
<1> QED
  BY <1>5, <1>6, <1>7, <1>8, <1>9

-----------------------------------------------------------------------------
(* The dictionaries *)

\* A dictionary has the names that were read, each with a row of that name.
LEMMA DictHasRows ==
    ASSUME NEW names \in Names, NEW n \in 0..Len(names)
    PROVE  /\ DOMAIN Dict(names, n) = {names[k] : k \in 1..n}
           /\ \A name \in DOMAIN Dict(names, n) :
                 /\ Dict(names, n)[name] \in 1..n
                 /\ names[Dict(names, n)[name]] = name
<1>1. n \in Nat
  BY LenProperties DEF Names
<1>2. DOMAIN Dict(names, n) = {names[k] : k \in 1..n}
  BY DEF Dict
<1>3. ASSUME NEW name \in {names[k] : k \in 1..n}
      PROVE  Dict(names, n)[name] \in 1..n /\ names[Dict(names, n)[name]] = name
  <2> DEFINE S == {k \in 1..n : names[k] = name}
  <2>1. S \in SUBSET (1..n) /\ S # {}
    OBVIOUS
  <2>2. Max(S) \in S
    <3> HIDE DEF S
    <3> QED
      BY <1>1, <2>1, GreatestOf
  <2>3. Dict(names, n)[name] = Max(S)
    BY DEF Dict
  <2> QED
    BY <2>2, <2>3
<1> QED
  BY <1>2, <1>3

\* The rows of a module are lists, and their names are not empty.
LEMMA RowsOfModule ==
    ASSUME NEW m \in DOMAIN Modules
    PROVE  /\ Len(Modules[m].types) \in Nat
           /\ DOMAIN Modules[m].types = 1..Len(Modules[m].types)
           /\ \A k \in DOMAIN Modules[m].types :
                 Modules[m].types[k].name \in STRING /\ Modules[m].types[k].name # NoName
           /\ Len(Modules[m].refs) \in Nat
           /\ DOMAIN Modules[m].refs = 1..Len(Modules[m].refs)
           /\ \A k \in DOMAIN Modules[m].refs :
                 Modules[m].refs[k] \in STRING /\ Modules[m].refs[k] # NoName
<1>1. Modules[m].refs \in Seq(STRING \ {NoName})
  BY ModulesAssumption
<1>2. /\ Len(Modules[m].refs) \in Nat
      /\ Modules[m].refs \in [1..Len(Modules[m].refs) -> STRING \ {NoName}]
  BY <1>1, LenProperties
<1>3. \A k \in DOMAIN Modules[m].refs : Modules[m].refs[k] \in STRING \ {NoName}
  BY <1>2
<1>4. /\ Len(Modules[m].types) \in Nat
      /\ DOMAIN Modules[m].types = 1..Len(Modules[m].types)
      /\ \A k \in DOMAIN Modules[m].types : Modules[m].types[k].name \in STRING \ {NoName}
  BY ModulesAssumption
<1> QED
  BY <1>2, <1>3, <1>4

\* A list that is written as a function of its rows.
LEMMA ListOfRows ==
    ASSUME NEW n \in Nat, NEW f \in [1..n -> STRING \cup {NoName}]
    PROVE  f \in Names /\ Len(f) = n
<1>1. f \in Names
  BY SeqDef DEF Names
<1>2. Len(f) \in Nat /\ DOMAIN f = 1..Len(f)
  BY <1>1, LenProperties DEF Names
<1>3. DOMAIN f = 1..n
  OBVIOUS
<1> QED
  BY <1>1, <1>2, <1>3

\* The metadata gives a row its name or none, and none only when a failure is
\* passed over.
LEMMA NamesOfRows ==
    ASSUME NEW m \in DOMAIN Modules, NEW bad
    PROVE  LET def == NamesOf(m, bad).def
               ref == NamesOf(m, bad).ref
               rows == Modules[m]
           IN /\ def \in Names /\ Len(def) = Len(rows.types)
              /\ ref \in Names /\ Len(ref) = Len(rows.refs)
              /\ \A k \in DOMAIN rows.types : def[k] \in {NoName, rows.types[k].name}
              /\ \A k \in DOMAIN rows.refs : ref[k] \in {NoName, rows.refs[k]}
              /\ ~PassedOver(bad) =>
                    /\ \A k \in DOMAIN rows.types : def[k] = rows.types[k].name
                    /\ \A k \in DOMAIN rows.refs : ref[k] = rows.refs[k]
<1> DEFINE rows == Modules[m]
           def == [k \in DOMAIN rows.types |->
                     IF bad = <<"GetTypeDefProps", m, k>> THEN NoName ELSE rows.types[k].name]
           ref == [k \in DOMAIN rows.refs |->
                     IF bad = <<"GetTypeRefProps", m, k>> THEN NoName ELSE rows.refs[k]]
<1>1. NamesOf(m, bad).def = def /\ NamesOf(m, bad).ref = ref
  BY DEF NamesOf, RowNames
<1>2. def \in [1..Len(rows.types) -> STRING \cup {NoName}]
  BY RowsOfModule
<1>3. ref \in [1..Len(rows.refs) -> STRING \cup {NoName}]
  BY RowsOfModule
<1>4. /\ \A k \in DOMAIN rows.types : def[k] \in {NoName, rows.types[k].name}
      /\ \A k \in DOMAIN rows.refs : ref[k] \in {NoName, rows.refs[k]}
  OBVIOUS
<1>5. ASSUME ~PassedOver(bad)
      PROVE  /\ \A k \in DOMAIN rows.types : def[k] = rows.types[k].name
             /\ \A k \in DOMAIN rows.refs : ref[k] = rows.refs[k]
  BY <1>5 DEF PassedOver
<1>6. def \in Names /\ Len(def) = Len(rows.types) /\ ref \in Names /\ Len(ref) = Len(rows.refs)
  <2> HIDE DEF def, ref
  <2> QED
    BY <1>2, <1>3, RowsOfModule, ListOfRows
<1> HIDE DEF def, ref
<1> QED
  BY <1>1, <1>4, <1>5, <1>6

\* What an assignment of entries changes.
LEMMA AssignedEntries ==
    ASSUME NEW dict, NEW added
    PROVE  /\ DOMAIN Assigned(dict, added) = DOMAIN dict \cup DOMAIN added
           /\ \A name \in DOMAIN added : Assigned(dict, added)[name] = added[name]
           /\ \A name \in DOMAIN dict \ DOMAIN added : Assigned(dict, added)[name] = dict[name]
BY DEF Assigned

\* A cache has five fields.
Fields == {"type_def_dict", "type_ref_dict", "type_dict_populated", "debug_assemblies",
           "debug_assemblies_populated"}

LEMMA FieldsOfCache == DOMAIN NoCache = Fields
BY DEF NoCache, Fields

LEMMA NoCacheIsSound ==
    ASSUME frame.module \in DOMAIN Modules
    PROVE  Sound(NoCache) /\ FilledIsComplete(NoCache)
<1>1. NoCache = [field \in DOMAIN NoCache |-> NoCache[field]]
  BY DEF NoCache
<1>2. NoCache.type_def_dict = <<>> /\ NoCache.type_ref_dict = <<>>
      /\ NoCache.debug_assemblies = <<>>
  BY DEF NoCache
<1>3. ~NoCache.type_dict_populated /\ ~NoCache.debug_assemblies_populated
  BY DEF NoCache
<1>4. DOMAIN << >> = {}
  OBVIOUS
<1> QED
  BY <1>1, <1>2, <1>3, <1>4 DEF Sound, DictsAreRows, AllOrNone, FilledIsComplete

\* PopulateTypeDict, the definitions: the dictionary keeps rows with their names,
\* and has all of them if the enumeration succeeds and every name is read.
LEMMA TypeDefsAdded ==
    ASSUME frame.module \in DOMAIN Modules, NEW c, Sound(c), NEW bad
    PROVE  LET names == NamesOf(frame.module, bad).def
               r == AddTypeDefs(c, names, Enumeration("EnumTypeDefs", names, bad))
           IN /\ Sound(r.c)
              /\ r.hr \in {"S_OK", "FAIL"}
              /\ (\A k : bad # <<"EnumTypeDefs", k>>) => r.hr = "S_OK"
              /\ r.hr = "S_OK" /\ ~PassedOver(bad) => Own \subseteq DOMAIN r.c.type_def_dict
              /\ r.c.type_ref_dict = c.type_ref_dict
              /\ r.c.type_dict_populated = c.type_dict_populated
              /\ r.c.debug_assemblies = c.debug_assemblies
              /\ r.c.debug_assemblies_populated = c.debug_assemblies_populated
<1> DEFINE names == NamesOf(frame.module, bad).def
           rows == Modules[frame.module].types
           e == Enumeration("EnumTypeDefs", names, bad)
           named == Dict(names, e.n)
           added == [name \in DOMAIN named \ {NoName} |-> named[name]]
           dict == Assigned(c.type_def_dict, added)
           new == [c EXCEPT !.type_def_dict = dict]
           r == AddTypeDefs(c, names, e)
<1>1. names \in Names /\ Len(names) = Len(rows)
      /\ (\A k \in DOMAIN rows : names[k] \in {NoName, rows[k].name})
      /\ (~PassedOver(bad) => \A k \in DOMAIN rows : names[k] = rows[k].name)
  BY NamesOfRows
<1>2. Len(rows) \in Nat /\ DOMAIN rows = 1..Len(rows)
      /\ \A k \in DOMAIN rows : rows[k].name # NoName
  BY RowsOfModule
<1>3. /\ e.n \in 0..Len(names) /\ e.ok \in BOOLEAN
      /\ e.ok /\ (\A k \in 1..Len(names) : names[k] # NoName) => e.n = Len(names)
      /\ (\A k : bad # <<"EnumTypeDefs", k>>) => e.ok
  <2> HIDE DEF names
  <2> QED
    BY <1>1, EnumerationReads
<1>4. r.hr = (IF e.ok THEN "S_OK" ELSE "FAIL") /\ r.c = new
  BY DEF AddTypeDefs, Ret
<1> HIDE DEF names, e, r
<1>5. DOMAIN named = {names[k] : k \in 1..e.n}
      /\ \A name \in DOMAIN named : named[name] \in 1..e.n /\ names[named[name]] = name
  BY <1>1, <1>3, DictHasRows
<1>6. \A name \in DOMAIN named \ {NoName} : named[name] \in DOMAIN rows
                                            /\ rows[named[name]].name = name
  <2> HIDE DEF named, rows
  <2> QED
    BY <1>1, <1>2, <1>3, <1>5
<1>7. \A name \in DOMAIN dict : dict[name] \in DOMAIN rows /\ rows[dict[name]].name = name
  <2>1. \A name \in DOMAIN c.type_def_dict :
           c.type_def_dict[name] \in DOMAIN rows /\ rows[c.type_def_dict[name]].name = name
    BY DEF Sound, DictsAreRows
  <2>2. DOMAIN added = DOMAIN named \ {NoName}
        /\ \A name \in DOMAIN added : added[name] = named[name]
    OBVIOUS
  <2> HIDE DEF added, named, rows
  <2>3. /\ DOMAIN dict = DOMAIN c.type_def_dict \cup DOMAIN added
        /\ \A name \in DOMAIN added : dict[name] = added[name]
        /\ \A name \in DOMAIN c.type_def_dict \ DOMAIN added :
              dict[name] = c.type_def_dict[name]
    BY AssignedEntries
  <2> HIDE DEF dict
  <2> QED
    BY <1>6, <2>1, <2>2, <2>3
<1>8. DOMAIN c = Fields /\ c = [field \in DOMAIN c |-> c[field]]
  BY FieldsOfCache DEF Sound
<1>9. /\ DOMAIN new = Fields /\ new = [field \in DOMAIN new |-> new[field]]
      /\ new.type_def_dict = dict
      /\ new.type_ref_dict = c.type_ref_dict
      /\ new.type_dict_populated = c.type_dict_populated
      /\ new.debug_assemblies = c.debug_assemblies
      /\ new.debug_assemblies_populated = c.debug_assemblies_populated
  <2> HIDE DEF dict
  <2> QED
    BY <1>8 DEF Fields
<1> HIDE DEF new
<1>10. Sound(new)
  <2> HIDE DEF dict
  <2> QED
    BY <1>7, <1>9, FieldsOfCache DEF Sound, DictsAreRows, AllOrNone
<1>11. ASSUME e.ok, ~PassedOver(bad)
       PROVE  Own \subseteq DOMAIN dict
  <2>1. \A k \in 1..Len(names) : names[k] = rows[k].name /\ names[k] # NoName
    BY <1>1, <1>2, <1>11
  <2>2. e.n = Len(rows)
    BY <1>1, <1>3, <1>11, <2>1
  <2>3. \A k \in DOMAIN rows : rows[k].name \in DOMAIN added
    <3> HIDE DEF named, rows
    <3> QED
      BY <1>1, <1>2, <1>5, <2>1, <2>2
  <2>4. DOMAIN added \subseteq DOMAIN dict
    <3> HIDE DEF added
    <3> QED
      BY AssignedEntries
  <2> HIDE DEF added, dict
  <2> QED
    BY <2>3, <2>4 DEF Own
<1> HIDE DEF dict
<1>12. Own \subseteq DOMAIN r.c.type_def_dict \/ ~e.ok \/ PassedOver(bad)
  BY <1>4, <1>9, <1>11
<1> QED
  BY <1>3, <1>4, <1>9, <1>10, <1>12 DEF r, e, names

\* PopulateTypeDict, the references: a reference is cached under its own name or
\* under none, and the dictionaries count as filled when the enumeration succeeds.
LEMMA TypeRefsAdded ==
    ASSUME frame.module \in DOMAIN Modules, NEW c, Sound(c), NEW bad
    PROVE  LET names == NamesOf(frame.module, bad).ref
               r == AddTypeRefs(c, names, Enumeration("EnumTypeRefs", names, bad))
           IN /\ Sound(r.c)
              /\ r.hr \in {"S_OK", "FAIL"}
              /\ (\A k : bad # <<"EnumTypeRefs", k>>) => r.hr = "S_OK"
              /\ r.hr = "S_OK" /\ ~PassedOver(bad) => Referred \subseteq DOMAIN r.c.type_ref_dict
              /\ r.c.type_dict_populated = (r.hr = "S_OK")
              /\ r.c.type_def_dict = c.type_def_dict
              /\ r.c.debug_assemblies = c.debug_assemblies
              /\ r.c.debug_assemblies_populated = c.debug_assemblies_populated
<1> DEFINE names == NamesOf(frame.module, bad).ref
           rows == Modules[frame.module].refs
           e == Enumeration("EnumTypeRefs", names, bad)
           added == Dict(names, e.n)
           dict == Assigned(c.type_ref_dict, added)
           new == [c EXCEPT !.type_ref_dict = dict, !.type_dict_populated = e.ok]
           r == AddTypeRefs(c, names, e)
<1>1. names \in Names /\ Len(names) = Len(rows)
      /\ (\A k \in DOMAIN rows : names[k] \in {NoName, rows[k]})
      /\ (~PassedOver(bad) => \A k \in DOMAIN rows : names[k] = rows[k])
  BY NamesOfRows
<1>2. Len(rows) \in Nat /\ DOMAIN rows = 1..Len(rows)
      /\ \A k \in DOMAIN rows : rows[k] # NoName
  BY RowsOfModule
<1>3. /\ e.n \in 0..Len(names) /\ e.ok \in BOOLEAN
      /\ e.ok /\ (\A k \in 1..Len(names) : names[k] # NoName) => e.n = Len(names)
      /\ (\A k : bad # <<"EnumTypeRefs", k>>) => e.ok
  <2> HIDE DEF names
  <2> QED
    BY <1>1, EnumerationReads
<1>4. r.hr = (IF e.ok THEN "S_OK" ELSE "FAIL") /\ r.c = new
  BY DEF AddTypeRefs, Ret
<1> HIDE DEF names, e, r
<1>5. DOMAIN added = {names[k] : k \in 1..e.n}
      /\ \A name \in DOMAIN added : added[name] \in 1..e.n /\ names[added[name]] = name
  BY <1>1, <1>3, DictHasRows
<1>6. \A name \in DOMAIN added : added[name] \in DOMAIN rows
                                 /\ (name # NoName => rows[added[name]] = name)
  <2> HIDE DEF added, rows
  <2> QED
    BY <1>1, <1>2, <1>3, <1>5
<1>7. \A name \in DOMAIN dict : dict[name] \in DOMAIN rows
                                /\ (name # NoName => rows[dict[name]] = name)
  <2>1. \A name \in DOMAIN c.type_ref_dict :
           /\ c.type_ref_dict[name] \in DOMAIN rows
           /\ name # NoName => rows[c.type_ref_dict[name]] = name
    BY DEF Sound, DictsAreRows
  <2> HIDE DEF added, rows
  <2>2. /\ DOMAIN dict = DOMAIN c.type_ref_dict \cup DOMAIN added
        /\ \A name \in DOMAIN added : dict[name] = added[name]
        /\ \A name \in DOMAIN c.type_ref_dict \ DOMAIN added :
              dict[name] = c.type_ref_dict[name]
    BY AssignedEntries
  <2> HIDE DEF dict
  <2> QED
    BY <1>6, <2>1, <2>2
<1>8. DOMAIN c = Fields /\ c = [field \in DOMAIN c |-> c[field]]
  BY FieldsOfCache DEF Sound
<1>9. /\ DOMAIN new = Fields /\ new = [field \in DOMAIN new |-> new[field]]
      /\ new.type_ref_dict = dict
      /\ new.type_def_dict = c.type_def_dict
      /\ new.type_dict_populated = e.ok
      /\ new.debug_assemblies = c.debug_assemblies
      /\ new.debug_assemblies_populated = c.debug_assemblies_populated
  <2> HIDE DEF dict
  <2> QED
    BY <1>8 DEF Fields
<1> HIDE DEF new
<1>10. Sound(new)
  <2> HIDE DEF dict
  <2> QED
    BY <1>7, <1>9, FieldsOfCache DEF Sound, DictsAreRows, AllOrNone
<1>11. ASSUME e.ok, ~PassedOver(bad)
       PROVE  Referred \subseteq DOMAIN dict
  <2>1. \A k \in 1..Len(names) : names[k] = rows[k] /\ names[k] # NoName
    BY <1>1, <1>2, <1>11
  <2>2. e.n = Len(rows)
    BY <1>1, <1>3, <1>11, <2>1
  <2>3. \A k \in DOMAIN rows : rows[k] \in DOMAIN added
    <3> HIDE DEF added, rows
    <3> QED
      BY <1>1, <1>2, <1>5, <2>1, <2>2
  <2>4. DOMAIN added \subseteq DOMAIN dict
    <3> HIDE DEF added
    <3> QED
      BY AssignedEntries
  <2> HIDE DEF added, dict
  <2> QED
    BY <2>3, <2>4 DEF Referred, Range
<1> HIDE DEF dict
<1>12. Referred \subseteq DOMAIN r.c.type_ref_dict \/ ~e.ok \/ PassedOver(bad)
  BY <1>4, <1>9, <1>11
<1> QED
  BY <1>3, <1>4, <1>9, <1>10, <1>12 DEF r, e, names

\* The failures that PopulateTypeDict reports.
TypeDictFails(bad) ==
    \/ ~HasMetadataImport(frame.module, bad)
    \/ \E k : bad = <<"EnumTypeDefs", k>> \/ bad = <<"EnumTypeRefs", k>>

\* PopulateTypeDict keeps the dictionaries sound; a success leaves them filled,
\* and complete unless a failure was passed over.
LEMMA TypeDictPopulated ==
    ASSUME frame.module \in DOMAIN Modules, NEW c, Sound(c), NEW bad
    PROVE  LET r == PopulateTypeDict(frame, c, bad)
           IN /\ Sound(r.c)
              /\ r.hr \in {"S_OK", "FAIL"}
              /\ ~TypeDictFails(bad) => r.hr = "S_OK"
              /\ r.hr = "S_OK" => r.c.type_dict_populated
              /\ FilledIsComplete(c) /\ ~PassedOver(bad) => FilledIsComplete(r.c)
<1> DEFINE r == PopulateTypeDict(frame, c, bad)
<1>1. CASE c.type_dict_populated
  <2>1. r.hr = "S_OK" /\ r.c = c
    BY <1>1 DEF PopulateTypeDict, Ret
  <2> QED
    BY <1>1, <2>1
<1>2. CASE ~c.type_dict_populated /\ ~HasMetadataImport(frame.module, bad)
  <2>1. r.hr = "FAIL" /\ r.c = c
    BY <1>2 DEF PopulateTypeDict, Failed, Ret
  <2> QED
    BY <1>2, <2>1 DEF TypeDictFails
<1>3. CASE ~c.type_dict_populated /\ HasMetadataImport(frame.module, bad)
  <2> DEFINE names == NamesOf(frame.module, bad)
             d == AddTypeDefs(c, names.def, Enumeration("EnumTypeDefs", names.def, bad))
             t == AddTypeRefs(d.c, names.ref, Enumeration("EnumTypeRefs", names.ref, bad))
  <2>1. r = IF d.hr = "FAIL" THEN d ELSE t
    BY <1>3 DEF PopulateTypeDict, AddTypesNamed, AddTypes
  <2>2. /\ Sound(d.c)
        /\ d.hr \in {"S_OK", "FAIL"}
        /\ (\A k : bad # <<"EnumTypeDefs", k>>) => d.hr = "S_OK"
        /\ d.hr = "S_OK" /\ ~PassedOver(bad) => Own \subseteq DOMAIN d.c.type_def_dict
        /\ d.c.type_dict_populated = c.type_dict_populated
        /\ d.c.debug_assemblies = c.debug_assemblies
        /\ d.c.debug_assemblies_populated = c.debug_assemblies_populated
    BY TypeDefsAdded
  <2> HIDE DEF d
  <2>3. /\ Sound(t.c)
        /\ t.hr \in {"S_OK", "FAIL"}
        /\ (\A k : bad # <<"EnumTypeRefs", k>>) => t.hr = "S_OK"
        /\ t.hr = "S_OK" /\ ~PassedOver(bad) => Referred \subseteq DOMAIN t.c.type_ref_dict
        /\ t.c.type_dict_populated = (t.hr = "S_OK")
        /\ t.c.type_def_dict = d.c.type_def_dict
        /\ t.c.debug_assemblies = d.c.debug_assemblies
        /\ t.c.debug_assemblies_populated = d.c.debug_assemblies_populated
    BY <2>2, TypeRefsAdded
  <2> HIDE DEF t, r
  <2>4. CASE d.hr = "FAIL"
    <3>1. r = d
      BY <2>1, <2>4
    <3>2. \E k : bad = <<"EnumTypeDefs", k>>
      BY <2>2, <2>4
    <3>3. FilledIsComplete(c) => FilledIsComplete(d.c)
      BY <1>3, <2>2 DEF FilledIsComplete
    <3> QED
      BY <2>2, <2>4, <3>1, <3>2, <3>3 DEF TypeDictFails, r
  <2>5. CASE d.hr = "S_OK"
    <3>1. r = t
      BY <2>1, <2>5
    <3>2. ~TypeDictFails(bad) => t.hr = "S_OK"
      BY <2>3 DEF TypeDictFails
    <3>3. FilledIsComplete(c) /\ ~PassedOver(bad) => FilledIsComplete(t.c)
      BY <2>2, <2>3, <2>5 DEF FilledIsComplete
    <3> QED
      BY <2>3, <3>1, <3>2, <3>3 DEF r
  <2> QED
    BY <2>2, <2>4, <2>5
<1> QED
  BY <1>1, <1>2, <1>3

\* PopulateDebugAssemblies changes the assemblies only, and leaves them all
\* unless a failure was passed over.
LEMMA AssembliesPopulated ==
    ASSUME frame.module \in DOMAIN Modules, NEW c, Sound(c), NEW bad
    PROVE  LET r == PopulateDebugAssemblies(c, bad)
           IN /\ Sound(r.c)
              /\ r.hr \in {"S_OK", "FAIL"}
              /\ bad # <<"EnumerateAssemblies">> => r.hr = "S_OK"
              /\ r.hr = "S_OK" => r.c.debug_assemblies_populated
              /\ r.c.type_def_dict = c.type_def_dict
              /\ r.c.type_ref_dict = c.type_ref_dict
              /\ r.c.type_dict_populated = c.type_dict_populated
              /\ FilledIsComplete(c) /\ ~PassedOver(bad) => FilledIsComplete(r.c)
<1> DEFINE r == PopulateDebugAssemblies(c, bad)
           items == EnumerateICorDebugSpecifiedType(AllAssemblies, bad)
           new == [c EXCEPT !.debug_assemblies = items, !.debug_assemblies_populated = TRUE]
<1>1. CASE c.debug_assemblies_populated
  <2>1. r.hr = "S_OK" /\ r.c = c
    BY <1>1 DEF PopulateDebugAssemblies, Ret
  <2> QED
    BY <1>1, <2>1
<1>2. CASE ~c.debug_assemblies_populated /\ bad = <<"EnumerateAssemblies">>
  <2>1. r.hr = "FAIL" /\ r.c = c
    BY <1>2 DEF PopulateDebugAssemblies, Failed, Ret
  <2> QED
    BY <1>2, <2>1
<1>3. CASE ~c.debug_assemblies_populated /\ bad # <<"EnumerateAssemblies">>
  <2>1. r.hr = "S_OK" /\ r.c = new
    BY <1>3 DEF PopulateDebugAssemblies, Ret, AllAssemblies
  <2>2. items = <<>> \/ items = AllAssemblies
    BY DEF EnumerateICorDebugSpecifiedType
  <2>3. ~PassedOver(bad) => items = AllAssemblies
    BY DEF EnumerateICorDebugSpecifiedType, PassedOver
  <2>4. DOMAIN c = Fields /\ c = [field \in DOMAIN c |-> c[field]]
    BY FieldsOfCache DEF Sound
  <2> HIDE DEF items
  <2>5. /\ DOMAIN new = Fields /\ new = [field \in DOMAIN new |-> new[field]]
        /\ new.debug_assemblies = items
        /\ new.debug_assemblies_populated
        /\ new.type_def_dict = c.type_def_dict
        /\ new.type_ref_dict = c.type_ref_dict
        /\ new.type_dict_populated = c.type_dict_populated
    BY <2>4 DEF Fields
  <2> HIDE DEF new, r
  <2>6. Sound(new)
    BY <2>2, <2>5, FieldsOfCache DEF Sound, DictsAreRows, AllOrNone
  <2>7. FilledIsComplete(c) /\ ~PassedOver(bad) => FilledIsComplete(new)
    BY <2>3, <2>5 DEF FilledIsComplete
  <2> QED
    BY <2>1, <2>5, <2>6, <2>7 DEF r
<1> QED
  BY <1>1, <1>2, <1>3

-----------------------------------------------------------------------------
(* The assemblies *)

\* The assemblies with a type of a name, by their places.
Having(name) == {m \in DOMAIN Modules : TypesNamed(m, name) # {}}

\* The class a reference means: the first type of that name of the first assembly
\* that has one.
Meant(name) ==
    [module |-> Min(Having(name)), type |-> Min(TypesNamed(Min(Having(name)), name))]

\* The first assembly with a type of the name is a module, and the class is a type
\* of that name.
LEMMA MeantHasName ==
    ASSUME NEW name, Having(name) # {}
    PROVE  /\ Min(Having(name)) \in DOMAIN Modules
           /\ Meant(name).type \in DOMAIN Modules[Meant(name).module].types
           /\ ClassOf(Meant(name)).name = name
<1> DEFINE m == Min(Having(name))
           t == Min(TypesNamed(m, name))
<1>1. m \in Having(name)
  <2>1. Having(name) \subseteq Nat
    BY ModulesAssumption DEF Having
  <2> QED
    BY <2>1, LeastOf
<1>2. m \in DOMAIN Modules /\ TypesNamed(m, name) # {}
  BY <1>1 DEF Having
<1> HIDE DEF m
<1>3. t \in TypesNamed(m, name)
  <2>1. TypesNamed(m, name) \subseteq Nat
    BY <1>2, RowsOfModule DEF TypesNamed, Named
  <2> QED
    BY <1>2, <2>1, LeastOf
<1>4. t \in DOMAIN Modules[m].types /\ Modules[m].types[t].name = name
  BY <1>3 DEF TypesNamed, Named
<1>5. Meant(name).module = m /\ Meant(name).type = t
  BY DEF Meant, m
<1> HIDE DEF t
<1> QED
  BY <1>2, <1>4, <1>5 DEF ClassOf, m

\* GetMdTypeDefAndMetaDataFromTypeRef, whatever fails, finds the class that is
\* meant or none, and it finds it when nothing fails.
LEMMA FoundIsMeant ==
    ASSUME NEW name, name # NoName, NEW bad
    PROVE  LET found == FindTypeDef(name, AllAssemblies, bad)
           IN /\ found.ok => Having(name) # {} /\ found.v = Meant(name)
              /\ bad = NoFailure /\ Having(name) # {} => found.ok
<1> DEFINE stops == {k \in DOMAIN AllAssemblies : \/ IsBroken(AllAssemblies[k], bad)
                                                  \/ TypesNamed(AllAssemblies[k], name) # {}}
           found == FindTypeDef(name, AllAssemblies, bad)
           first == Min(stops)
<1>1. DOMAIN AllAssemblies = DOMAIN Modules /\ \A k \in DOMAIN Modules : AllAssemblies[k] = k
  BY DEF AllAssemblies
<1>2. stops \subseteq DOMAIN Modules /\ Having(name) \subseteq stops
  BY <1>1 DEF Having
<1>3. DOMAIN Modules \subseteq Nat
  BY ModulesAssumption
<1>4. found = FirstOfStops(stops, AllAssemblies, name, bad)
  BY DEF FindTypeDef
<1> HIDE DEF found
<1>5. ASSUME found.ok
      PROVE  Having(name) # {} /\ found.v = Meant(name)
  <2>1. stops # {}
    BY <1>4, <1>5 DEF FirstOfStops
  <2>2. first \in stops /\ \A j \in stops : first <= j
    <3> HIDE DEF stops
    <3> QED
      BY <1>2, <1>3, <2>1, LeastOf
  <2>3. first \in DOMAIN Modules /\ AllAssemblies[first] = first
    BY <1>1, <1>2, <2>2
  <2> HIDE DEF stops
  <2>4. ~IsBroken(first, bad)
    BY <1>4, <1>5, <2>1, <2>3 DEF FirstOfStops
  <2>5. first \in Having(name)
    BY <1>1, <2>2, <2>3, <2>4 DEF Having, stops
  <2>6. Having(name) \subseteq Nat /\ \A j \in Having(name) : first <= j
    BY <1>2, <1>3, <2>2
  <2> HIDE DEF first
  <2>7. first = Min(Having(name))
    BY <2>5, <2>6, LeastIs
  <2>8. found.v = [module |-> first, type |-> Min(TypesNamed(first, name))]
    BY <1>4, <1>5, <2>1, <2>3, <2>4 DEF FirstOfStops, first
  <2> QED
    BY <2>5, <2>7, <2>8 DEF Meant
<1>6. ASSUME bad = NoFailure, Having(name) # {}
      PROVE  found.ok
  <2>1. \A m : ~IsBroken(m, bad)
    BY <1>6 DEF IsBroken, HasMetadataImport, NoFailure
  <2>2. stops # {}
    BY <1>2, <1>6
  <2> HIDE DEF stops
  <2> QED
    BY <1>4, <2>1, <2>2 DEF FirstOfStops
<1> QED
  BY <1>5, <1>6 DEF found

\* No assembly, no class.
LEMMA NothingIsFound ==
    ASSUME NEW name, NEW bad
    PROVE  ~FindTypeDef(name, <<>>, bad).ok
<1>1. {k \in DOMAIN << >> : \/ IsBroken(<<>>[k], bad) \/ TypesNamed(<<>>[k], name) # {}} = {}
  OBVIOUS
<1> QED
  BY <1>1 DEF FindTypeDef, FirstOfStops

-----------------------------------------------------------------------------
(* Looking up a class *)

OwnClass(t) == [module |-> frame.module, type |-> t]

\* A name that a class or a reference has is not empty.
LEMMA KnownName ==
    ASSUME frame.module \in DOMAIN Modules, NEW name \in Own \cup Referred
    PROVE  name # NoName
BY RowsOfModule DEF Own, Referred, Range

\* The rows of a name in a dictionary are those of the module.
LEMMA OwnRow ==
    ASSUME NEW c, Sound(c), NEW name \in DOMAIN c.type_def_dict
    PROVE  name \in Own /\ c.type_def_dict[name] \in TypesNamed(frame.module, name)
BY DEF Sound, DictsAreRows, Own, TypesNamed, Named

LEMMA ReferredRow ==
    ASSUME NEW c, Sound(c), NEW name \in DOMAIN c.type_ref_dict, name # NoName
    PROVE  /\ name \in Referred
           /\ c.type_ref_dict[name] \in DOMAIN Modules[frame.module].refs
           /\ Modules[frame.module].refs[c.type_ref_dict[name]] = name
BY DEF Sound, DictsAreRows, Referred, Range

\* With sound caches, and whatever fails, GetClassTokenAndModule finds a class of
\* the module under its own name, the class that a reference means, or none.
LEMMA FoundClass ==
    ASSUME frame.module \in DOMAIN Modules, NEW c, Sound(c), NEW bad,
           NEW name, name # NoName,
           GetClassTokenAndModule(frame, c, bad, name).hr = "S_OK"
    PROVE  LET v == GetClassTokenAndModule(frame, c, bad, name).v
           IN \/ name \in Own /\ \E t \in TypesNamed(frame.module, name) : v = OwnClass(t)
              \/ name \in Referred /\ Having(name) # {} /\ v = Meant(name)
<1> DEFINE class == GetClassTokenAndModule(frame, c, bad, name)
           dict == PopulateTypeDict(frame, c, bad)
           assemblies == PopulateDebugAssemblies(dict.c, bad)
<1>1. Sound(dict.c)
  BY TypeDictPopulated
<1>2. class = ClassOfDict(frame, dict, bad, name)
  BY DEF GetClassTokenAndModule
<1> HIDE DEF class, dict
<1>3. dict.hr # "FAIL" /\ HasMetadataImport(frame.module, bad)
  BY <1>2 DEF ClassOfDict, Failed, Ret, class
<1>4. CASE name \in DOMAIN dict.c.type_def_dict
  <2>1. class.v = OwnClass(dict.c.type_def_dict[name])
    BY <1>2, <1>3, <1>4 DEF ClassOfDict, Ret, OwnClass
  <2> QED
    BY <1>1, <1>4, <2>1, OwnRow DEF class
<1>5. CASE name \notin DOMAIN dict.c.type_def_dict
  <2>1. class = ClassOfTypeRef(frame, assemblies, bad, name)
    BY <1>2, <1>3, <1>5 DEF ClassOfDict
  <2>2. Sound(assemblies.c) /\ assemblies.hr \in {"S_OK", "FAIL"}
    BY <1>1, AssembliesPopulated
  <2> HIDE DEF assemblies
  <2> DEFINE d == assemblies.c
             ref == d.type_ref_dict[name]
             resolved == GetMdTypeDefAndMetaDataFromTypeRef(ref, frame.module,
                                                            d.debug_assemblies, bad)
  <2>3. assemblies.hr = "S_OK" /\ name \in DOMAIN d.type_ref_dict
    BY <2>1, <2>2 DEF ClassOfTypeRef, NotFound, Ret, class
  <2>4. class = ResolvedClass(d, resolved, bad)
    BY <2>1, <2>3 DEF ClassOfTypeRef
  <2> HIDE DEF resolved
  <2>5. resolved.ok /\ class.v = resolved.v
    BY <2>4 DEF ResolvedClass, Failed, Ret, class
  <2>6. /\ name \in Referred
        /\ ref \in DOMAIN Modules[frame.module].refs
        /\ Modules[frame.module].refs[ref] = name
    BY <2>2, <2>3, ReferredRow
  <2> HIDE DEF ref
  <2>7. NamesOf(frame.module, bad).ref[ref] \in {NoName, name}
    BY <2>6, NamesOfRows
  <2>8. resolved = FindTypeDef(NamesOf(frame.module, bad).ref[ref], d.debug_assemblies, bad)
    BY DEF resolved, GetMdTypeDefAndMetaDataFromTypeRef
  <2>9. NamesOf(frame.module, bad).ref[ref] # NoName
    BY <2>5, <2>8 DEF FindTypeDef, FirstOfStops
  <2>10. resolved = FindTypeDef(name, d.debug_assemblies, bad)
    BY <2>7, <2>8, <2>9
  <2>11. d.debug_assemblies = AllAssemblies
    BY <2>2, <2>5, <2>10, NothingIsFound DEF Sound, AllOrNone
  <2>12. Having(name) # {} /\ resolved.v = Meant(name)
    BY <2>5, <2>10, <2>11, FoundIsMeant
  <2> QED
    BY <2>5, <2>6, <2>12 DEF class
<1> QED
  BY <1>4, <1>5

\* When nothing fails and the caches are sound and complete, every class that the
\* module defines or refers to is found.
LEMMA ClassIsFound ==
    ASSUME frame.module \in DOMAIN Modules, NEW c, Sound(c), FilledIsComplete(c),
           NEW name, name # NoName
    PROVE  LET class == GetClassTokenAndModule(frame, c, NoFailure, name)
           IN /\ name \in Own =>
                    /\ class.hr = "S_OK"
                    /\ \E t \in TypesNamed(frame.module, name) : class.v = OwnClass(t)
              /\ name \in Referred \ Own /\ Having(name) # {} =>
                    class.hr = "S_OK" /\ class.v = Meant(name)
<1> DEFINE class == GetClassTokenAndModule(frame, c, NoFailure, name)
           dict == PopulateTypeDict(frame, c, NoFailure)
           assemblies == PopulateDebugAssemblies(dict.c, NoFailure)
<1>1. /\ ~TypeDictFails(NoFailure) /\ ~PassedOver(NoFailure)
      /\ HasMetadataImport(frame.module, NoFailure)
      /\ NoFailure # <<"EnumerateAssemblies">>
      /\ NoFailure # <<"GetModuleFromMetaDataInterface">>
  BY DEF TypeDictFails, PassedOver, HasMetadataImport, NoFailure
<1>2. /\ Sound(dict.c) /\ dict.hr = "S_OK"
      /\ dict.c.type_dict_populated /\ FilledIsComplete(dict.c)
  BY <1>1, TypeDictPopulated
<1>3. class = ClassOfDict(frame, dict, NoFailure, name)
  BY DEF GetClassTokenAndModule
<1> HIDE DEF class, dict
<1>4. Own \subseteq DOMAIN dict.c.type_def_dict /\ Referred \subseteq DOMAIN dict.c.type_ref_dict
  BY <1>2 DEF FilledIsComplete
<1>5. ASSUME name \in Own
      PROVE  /\ class.hr = "S_OK"
             /\ \E t \in TypesNamed(frame.module, name) : class.v = OwnClass(t)
  <2>1. name \in DOMAIN dict.c.type_def_dict
    BY <1>4, <1>5
  <2>2. class.hr = "S_OK" /\ class.v = OwnClass(dict.c.type_def_dict[name])
    BY <1>1, <1>2, <1>3, <2>1 DEF ClassOfDict, Ret, OwnClass
  <2> QED
    BY <1>2, <2>1, <2>2, OwnRow
<1>6. ASSUME name \in Referred \ Own, Having(name) # {}
      PROVE  class.hr = "S_OK" /\ class.v = Meant(name)
  <2>1. name \notin DOMAIN dict.c.type_def_dict
    BY <1>2, <1>6, OwnRow
  <2>2. class = ClassOfTypeRef(frame, assemblies, NoFailure, name)
    BY <1>1, <1>2, <1>3, <2>1 DEF ClassOfDict
  <2>3. /\ Sound(assemblies.c) /\ assemblies.hr = "S_OK"
        /\ assemblies.c.debug_assemblies_populated
        /\ assemblies.c.type_ref_dict = dict.c.type_ref_dict
        /\ FilledIsComplete(assemblies.c)
    BY <1>1, <1>2, AssembliesPopulated
  <2> HIDE DEF assemblies
  <2> DEFINE d == assemblies.c
             ref == d.type_ref_dict[name]
             resolved == GetMdTypeDefAndMetaDataFromTypeRef(ref, frame.module,
                                                            d.debug_assemblies, NoFailure)
  <2>4. name \in DOMAIN d.type_ref_dict /\ d.debug_assemblies = AllAssemblies
    BY <1>4, <1>6, <2>3 DEF FilledIsComplete
  <2>5. class = ResolvedClass(d, resolved, NoFailure)
    BY <2>2, <2>3, <2>4 DEF ClassOfTypeRef
  <2>6. ref \in DOMAIN Modules[frame.module].refs /\ Modules[frame.module].refs[ref] = name
    BY <2>3, <2>4, ReferredRow
  <2> HIDE DEF ref
  <2>7. NamesOf(frame.module, NoFailure).ref[ref] = name
    BY <1>1, <2>6, NamesOfRows
  <2>8. resolved = FindTypeDef(name, AllAssemblies, NoFailure)
    BY <2>4, <2>7 DEF GetMdTypeDefAndMetaDataFromTypeRef
  <2> HIDE DEF resolved
  <2>9. resolved.ok /\ resolved.v = Meant(name)
    BY <1>6, <2>8, FoundIsMeant
  <2> QED
    BY <1>1, <2>5, <2>9 DEF ResolvedClass, Ret
<1> QED
  BY <1>5, <1>6 DEF class

-----------------------------------------------------------------------------
(* The invariant *)

\* A frame has a module.
LEMMA ModuleOfFrame ==
    ASSUME CacheInv, HasFrame
    PROVE  frame.module \in DOMAIN Modules
BY DEF CacheInv

LEMMA InitCacheInv == Init => CacheInv
BY DEF Init, CacheInv, HasFrame

\* A new frame starts with empty caches, which are sound for its module.
LEMMA InitializeKeepsInv ==
    ASSUME CacheInv, NEW m \in DOMAIN Modules, Initialize(m)
    PROVE  CacheInv'
<1>1. frame' = [module |-> m] /\ cache' = NoCache /\ unread' = FALSE
  BY DEF Initialize
<1>2. frame'.module = m /\ frame' \in [module : DOMAIN Modules]
  BY <1>1
<1>3. NoCache = [field \in DOMAIN NoCache |-> NoCache[field]]
  BY DEF NoCache
<1>4. NoCache.type_def_dict = <<>> /\ NoCache.type_ref_dict = <<>>
      /\ NoCache.debug_assemblies = <<>>
      /\ ~NoCache.type_dict_populated /\ ~NoCache.debug_assemblies_populated
  BY DEF NoCache
<1>5. DOMAIN << >> = {}
  OBVIOUS
<1>6. Sound(cache)' /\ FilledIsComplete(cache)'
  BY <1>1, <1>3, <1>4, <1>5 DEF Sound, DictsAreRows, AllOrNone, FilledIsComplete
<1> QED
  BY <1>1, <1>2, <1>6 DEF CacheInv

\* An expression leaves the caches sound, whatever fails while it is compiled, and
\* what counts as filled complete if nothing was passed over.
LEMMA LookUpKeepsInv ==
    ASSUME CacheInv, NEW bad, LookUp(bad)
    PROVE  CacheInv'
<1>1. frame' = frame /\ HasFrame /\ unread' = (unread \/ PassedOver(bad))
  BY DEF LookUp
<1>2. frame.module \in DOMAIN Modules /\ Sound(cache) /\ (~unread => FilledIsComplete(cache))
  BY <1>1 DEF CacheInv
<1>3. PICK types \in {cache, PopulateTypeDict(frame, cache, bad).c} :
         cache' \in {types, PopulateDebugAssemblies(types, bad).c}
  BY DEF LookUp
<1>4. Sound(types) /\ (~unread /\ ~PassedOver(bad) => FilledIsComplete(types))
  BY <1>2, <1>3, TypeDictPopulated
<1> DEFINE r == PopulateDebugAssemblies(types, bad)
<1>5. Sound(r.c) /\ (~unread /\ ~PassedOver(bad) => FilledIsComplete(r.c))
  BY <1>2, <1>4, AssembliesPopulated
<1> HIDE DEF r
<1>6. PICK c : cache' = c /\ Sound(c) /\ (~unread /\ ~PassedOver(bad) => FilledIsComplete(c))
  BY <1>3, <1>4, <1>5 DEF r
<1>7. Sound(cache)' /\ (~unread' => FilledIsComplete(cache)')
  <2>1. Sound(cache)'
    BY <1>1, <1>6 DEF Sound, DictsAreRows, AllOrNone, AllAssemblies
  <2>2. FilledIsComplete(c) => FilledIsComplete(cache)'
    BY <1>1, <1>6 DEF FilledIsComplete, Own, Referred, AllAssemblies
  <2>3. ~unread' => ~unread /\ ~PassedOver(bad)
    BY <1>1
  <2> QED
    BY <1>6, <2>1, <2>2, <2>3
<1>8. unread' \in BOOLEAN
  BY <1>1, Zenon DEF CacheInv, PassedOver
<1> QED
  BY <1>1, <1>7, <1>8 DEF CacheInv, HasFrame

\* The caches of a frame are sound after every expression, whatever calls have
\* failed: every cached token is a row with the name it is cached under, the
\* assemblies are all there or none is, and what counts as filled is complete if
\* no failure was passed over.
THEOREM CacheCorrect == Spec => []CacheInv
<1>1. CacheInv /\ [Next]_vars => CacheInv'
  <2> SUFFICES ASSUME CacheInv, [Next]_vars PROVE CacheInv'
    OBVIOUS
  <2>1. CASE \E m \in DOMAIN Modules : Initialize(m)
    BY <2>1, InitializeKeepsInv
  <2>2. CASE \E bad \in Attempts : LookUp(bad)
    BY <2>2, LookUpKeepsInv
  <2>3. CASE UNCHANGED vars
    BY <2>3 DEF vars, CacheInv, HasFrame, Sound, DictsAreRows, AllOrNone, FilledIsComplete,
                Own, Referred, AllAssemblies
  <2> QED
    BY <2>1, <2>2, <2>3 DEF Next
<1> QED
  BY <1>1, InitCacheInv, PTL DEF Spec

\* Every cached token is a row of the frame's module, and assemblies are cached
\* only when the flag that they were asked for is set.
THEOREM TypeCorrect == Spec => []TypeOK
<1>1. CacheInv => TypeOK
  <2> SUFFICES ASSUME CacheInv PROVE TypeOK
    OBVIOUS
  <2>1. unread \in BOOLEAN
    BY DEF CacheInv
  <2>2. ASSUME HasFrame
        PROVE  /\ DictsAreRows(cache)
               /\ cache.debug_assemblies # <<>> => cache.debug_assemblies_populated
    BY <2>2 DEF CacheInv, Sound, AllOrNone
  <2> QED
    BY <2>1, <2>2, ModuleOfFrame DEF TypeOK, DictsAreRows
<1> QED
  BY <1>1, CacheCorrect, PTL

\* As long as no failure was passed over, every class that the module defines or
\* refers to is found by the next expression, in the module itself first, however
\* many enumerations have failed half-way before.
THEOREM KnownClassIsAlwaysFound == Spec => []KnownClassIsFound
<1>1. CacheInv => KnownClassIsFound
  <2> SUFFICES ASSUME CacheInv, HasFrame, ~unread,
                      NEW name \in Own \cup Referred,
                      name \in Own \/ \E m \in DOMAIN Modules : TypesNamed(m, name) # {}
               PROVE  LET class == GetClassTokenAndModule(frame, cache, NoFailure, name)
                      IN /\ class.hr = "S_OK"
                         /\ ClassOf(class.v).name = name
                         /\ name \in Own => class.v.module = frame.module
    BY DEF KnownClassIsFound
  <2> DEFINE class == GetClassTokenAndModule(frame, cache, NoFailure, name)
  <2>1. frame.module \in DOMAIN Modules /\ Sound(cache) /\ FilledIsComplete(cache)
    BY DEF CacheInv
  <2>2. name # NoName
    BY <2>1, KnownName
  <2>3. CASE name \in Own
    <3>1. /\ class.hr = "S_OK"
          /\ \E t \in TypesNamed(frame.module, name) : class.v = OwnClass(t)
      BY <2>1, <2>2, <2>3, ClassIsFound
    <3> HIDE DEF class
    <3>2. PICK t \in TypesNamed(frame.module, name) : class.v = OwnClass(t)
      BY <3>1
    <3>3. class.v.module = frame.module /\ class.v.type = t
      BY <3>2 DEF OwnClass
    <3>4. ClassOf(class.v).name = name
      BY <3>3 DEF ClassOf, TypesNamed, Named
    <3> QED
      BY <3>1, <3>3, <3>4 DEF class
  <2>4. CASE name \notin Own
    <3>1. name \in Referred \ Own /\ Having(name) # {}
      BY <2>4 DEF Having
    <3>2. class.hr = "S_OK" /\ class.v = Meant(name)
      BY <2>1, <2>2, <3>1, ClassIsFound
    <3> HIDE DEF class
    <3>3. ClassOf(class.v).name = name
      BY <3>1, <3>2, MeantHasName
    <3> QED
      BY <2>4, <3>2, <3>3 DEF class
  <2> QED
    BY <2>3, <2>4
<1> QED
  BY <1>1, CacheCorrect, PTL

\* Whatever call fails, and whatever has failed for earlier expressions of the
\* frame, a name that stands for one class finds that class or none.
THEOREM ClassAlwaysKeepsMeaning == Spec => []ClassKeepsMeaning
<1>1. CacheInv => ClassKeepsMeaning
  <2> SUFFICES ASSUME CacheInv, HasFrame,
                      NEW name \in Own \cup Referred, Unambiguous(name),
                      NEW bad \in Attempts,
                      GetClassTokenAndModule(frame, cache, bad, name).hr = "S_OK"
               PROVE  LET clean == GetClassTokenAndModule(frame, NoCache, NoFailure, name)
                          class == GetClassTokenAndModule(frame, cache, bad, name)
                      IN clean.hr = "S_OK" /\ clean.v = class.v
    BY DEF ClassKeepsMeaning
  <2> DEFINE clean == GetClassTokenAndModule(frame, NoCache, NoFailure, name)
             class == GetClassTokenAndModule(frame, cache, bad, name)
  <2>1. frame.module \in DOMAIN Modules /\ Sound(cache)
    BY DEF CacheInv
  <2>2. Sound(NoCache) /\ FilledIsComplete(NoCache) /\ name # NoName
    BY <2>1, NoCacheIsSound, KnownName
  <2>3. \/ name \in Own /\ \E t \in TypesNamed(frame.module, name) : class.v = OwnClass(t)
        \/ name \in Referred /\ Having(name) # {} /\ class.v = Meant(name)
    BY <2>1, <2>2, FoundClass
  <2>4. /\ name \in Own =>
              /\ clean.hr = "S_OK"
              /\ \E t \in TypesNamed(frame.module, name) : clean.v = OwnClass(t)
        /\ name \in Referred \ Own /\ Having(name) # {} =>
              clean.hr = "S_OK" /\ clean.v = Meant(name)
    BY <2>1, <2>2, ClassIsFound
  <2>5. /\ \A j, k \in TypesNamed(frame.module, name) : j = k
        /\ name \notin Own \cap Referred
    BY DEF Unambiguous
  <2> HIDE DEF clean, class
  <2>6. clean.hr = "S_OK" /\ clean.v = class.v
    BY <2>3, <2>4, <2>5
  <2> QED
    BY <2>6 DEF clean, class
<1> QED
  BY <1>1, CacheCorrect, PTL
=============================================================================
