--------------------------- MODULE GroupingProofs ---------------------------
(***************************************************************************)
(* Proofs about Grouping, for every number of tests, classes, modules and  *)
(* packages, every marking and every order of the items.                   *)
(*                                                                         *)
(* The first half is about the keys: the walk over the levels of an item   *)
(* finds what the most specific marker says.  The second half is about the *)
(* groups: an inductive invariant says what the merge has gone over and    *)
(* where the tests of those groups are.                                    *)
(***************************************************************************)
EXTENDS Grouping, TLAPS, FiniteSetTheorems, WellFoundedInduction

(* The keys depend on the marks only, which never change.                  *)
LEMMA KeysFrame ==
  ASSUME marks' = marks
  PROVE  /\ \A i : group_key(i)' = group_key(i)
         /\ \A i : module_scope(i)' = module_scope(i)
<1>1. \A x : /\ level_scope(marks[x])' = level_scope(marks[x])
             /\ scope_from_marks(marks[x])' = scope_from_marks(marks[x])
  OBVIOUS
<1>2. \A i : /\ own_scope(i)' = own_scope(i) /\ class_scope(i)' = class_scope(i)
             /\ module_scope(i)' = module_scope(i)
  BY <1>1 DEF own_scope, class_scope, module_scope
<1>3. {p \in Packages : level_scope(marks[p]) # None}'
        = {p \in Packages : level_scope(marks[p]) # None}
  BY <1>1
<1>4. {p \in Packages : scope_from_marks(marks[p]) # None}'
        = {p \in Packages : scope_from_marks(marks[p]) # None}
  BY <1>1
<1>5. \A i : package_scope(i)' = package_scope(i)
  BY <1>1, <1>3 DEF package_scope
<1>6. \A i : marker_source_package(i)' = marker_source_package(i)
  BY <1>4 DEF marker_source_package
<1>7. \A i : Deciding(i)' = Deciding(i)
  BY <1>2, <1>5 DEF Deciding
<1>8. \A i : /\ child_parallel(i)' = child_parallel(i)
             /\ param_parallel(i)' = param_parallel(i)
             /\ is_package_level(i)' = is_package_level(i)
             /\ ForcedSequential(i)' = ForcedSequential(i)
             /\ PackageKey(i)' = PackageKey(i)
  BY <1>2, <1>6, <1>7 DEF child_parallel, param_parallel, is_package_level,
    ForcedSequential, PackageKey
<1>9. \A i : ChildKey(i)' = ChildKey(i)
  BY <1>8 DEF ChildKey
<1> QED  BY <1>2, <1>8, <1>9 DEF group_key

(***************************************************************************)
(* What the markers say.                                                   *)
(***************************************************************************)

(* A set of numbers that is not empty has a least member.                  *)
LEMMA MinFacts ==
  ASSUME NEW T \in SUBSET Nat, T # {}
  PROVE  Min(T) \in T /\ \A m \in T : Min(T) <= m
<1>1. PICK k \in T : \A m \in T : ~ (<<m, k>> \in OpToRel(<, Nat))
  BY WFMin, NatLessThanWellFounded
<1>2. \A m \in T : ~ (m < k)
  BY <1>1 DEF OpToRel
<1>3. \A m \in T : k <= m
  BY <1>2
<1> QED  BY <1>3 DEF Min

(* All objects are marked with known marks.                                *)
MarksTyped == \A x \in Marked : marks[x] \in Seq(Marks)

(* The scope of a list of marks: a known one, "not", or nothing.           *)
LEMMA ScopeFacts ==
  ASSUME NEW ms \in Seq(Marks)
  PROVE  /\ scope_from_marks(ms) \in PARALLEL_SCOPES \cup {None}
         /\ level_scope(ms) \in PARALLEL_SCOPES \cup {"not", None}
         /\ level_scope(ms) \in PARALLEL_SCOPES => scope_from_marks(ms) # None
<1>1. scope_from_marks(ms) \in PARALLEL_SCOPES \cup {None}
  BY DEF scope_from_marks, PARALLEL_SCOPES
<1>2. None \notin PARALLEL_SCOPES
  BY GroupingAssumption DEF Marks
<1>3. level_scope(ms) = "not" \/ level_scope(ms) = scope_from_marks(ms)
  BY DEF level_scope
<1>4. "not" \notin PARALLEL_SCOPES
  BY DEF PARALLEL_SCOPES
<1> QED  BY <1>1, <1>2, <1>3, <1>4

(* The packages above an item are a list of packages.                      *)
LEMMA WalkFacts ==
  ASSUME NEW i \in Items
  PROVE  /\ packages[module[i]] \in Seq(Packages)
         /\ DOMAIN packages[module[i]] = 1 .. Len(packages[module[i]])
         /\ Len(packages[module[i]]) \in Nat
         /\ \A k \in DOMAIN packages[module[i]] : packages[module[i]][k] \in Packages
<1>1. packages[module[i]] \in Seq(Packages)
  BY GroupingAssumption
<1> QED  BY <1>1

(* The walk finds the first package of those that tell something.          *)
LEMMA FirstPackageFacts ==
  ASSUME NEW i \in Items, NEW telling
  PROVE  \/ /\ FirstPackage(i, telling) = None
            /\ \A k \in DOMAIN packages[module[i]] : packages[module[i]][k] \notin telling
         \/ \E k \in DOMAIN packages[module[i]] :
              /\ FirstPackage(i, telling) = packages[module[i]][k]
              /\ packages[module[i]][k] \in telling
              /\ \A n \in 1 .. (k - 1) : packages[module[i]][n] \notin telling
<1> DEFINE walk == packages[module[i]]
           places == {k \in DOMAIN walk : walk[k] \in telling}
<1>1. walk \in Seq(Packages) /\ DOMAIN walk = 1 .. Len(walk) /\ Len(walk) \in Nat
  BY WalkFacts
<1>2. places \subseteq Nat
  BY <1>1
<1>3. CASE places = {}
  BY <1>3 DEF FirstPackage
<1>4. CASE places # {}
  <2>1. Min(places) \in places /\ \A m \in places : Min(places) <= m
    <3> HIDE DEF places
    <3> QED  BY <1>2, <1>4, MinFacts
  <2>2. FirstPackage(i, telling) = walk[Min(places)]
    BY <1>4 DEF FirstPackage
  <2>3. \A n \in 1 .. (Min(places) - 1) : n \notin places /\ n \in DOMAIN walk
    <3>1. Min(places) \in 1 .. Len(walk)
      BY <1>1, <2>1
    <3> HIDE DEF places
    <3> QED  BY <1>1, <2>1, <3>1
  <2> QED  BY <2>1, <2>2, <2>3
<1> QED  BY <1>3, <1>4

(* What the packages of an item say, and which of them its key names.      *)
LEMMA PackageFacts ==
  ASSUME MarksTyped, NEW i \in Items
  PROVE  /\ \/ /\ package_scope(i) = None
               /\ \A k \in DOMAIN packages[module[i]] :
                    level_scope(marks[packages[module[i]][k]]) = None
            \/ \E k \in DOMAIN packages[module[i]] :
                 /\ package_scope(i) = level_scope(marks[packages[module[i]][k]])
                 /\ level_scope(marks[packages[module[i]][k]]) # None
                 /\ \A n \in 1 .. (k - 1) :
                      level_scope(marks[packages[module[i]][n]]) = None
         /\ package_scope(i) \in PARALLEL_SCOPES => marker_source_package(i) \in Packages
<1> DEFINE walk == packages[module[i]]
           says == {p \in Packages : level_scope(marks[p]) # None}
           scoped == {p \in Packages : scope_from_marks(marks[p]) # None}
<1>1. /\ DOMAIN walk = 1 .. Len(walk) /\ Len(walk) \in Nat
      /\ \A k \in DOMAIN walk : walk[k] \in Packages /\ walk[k] # None
  BY WalkFacts, GroupingAssumption
<1>2. package_scope(i) = IF FirstPackage(i, says) = None THEN None
                         ELSE level_scope(marks[FirstPackage(i, says)])
  BY DEF package_scope
<1>3. \A k \in DOMAIN walk : \A n \in 1 .. (k - 1) : n \in DOMAIN walk
  BY <1>1
<1>4. \/ /\ package_scope(i) = None
         /\ \A k \in DOMAIN walk : level_scope(marks[walk[k]]) = None
      \/ \E k \in DOMAIN walk :
           /\ package_scope(i) = level_scope(marks[walk[k]])
           /\ level_scope(marks[walk[k]]) # None
           /\ \A n \in 1 .. (k - 1) : level_scope(marks[walk[n]]) = None
  <2> HIDE DEF walk
  <2>1. \A p \in Packages : p \in says <=> level_scope(marks[p]) # None
    OBVIOUS
  <2> HIDE DEF says
  <2>2. CASE /\ FirstPackage(i, says) = None
             /\ \A k \in DOMAIN walk : walk[k] \notin says
    BY <1>1, <1>2, <2>1, <2>2
  <2>3. CASE \E k \in DOMAIN walk :
               /\ FirstPackage(i, says) = walk[k] /\ walk[k] \in says
               /\ \A n \in 1 .. (k - 1) : walk[n] \notin says
    BY <1>1, <1>2, <1>3, <2>1, <2>3
  <2> QED  BY <2>2, <2>3, FirstPackageFacts DEF walk
<1>5. ASSUME package_scope(i) \in PARALLEL_SCOPES
      PROVE  marker_source_package(i) \in Packages
  <2>1. None \notin PARALLEL_SCOPES
    BY GroupingAssumption DEF Marks
  <2>2. PICK k \in DOMAIN walk : level_scope(marks[walk[k]]) \in PARALLEL_SCOPES
    BY <1>4, <1>5, <2>1
  <2>3. walk[k] \in Packages /\ walk[k] \in Marked
    BY <1>1 DEF Marked
  <2>4. walk[k] \in scoped
    BY <2>2, <2>3, ScopeFacts DEF MarksTyped
  <2>5. marker_source_package(i) = FirstPackage(i, scoped)
    BY DEF marker_source_package
  <2> HIDE DEF scoped
  <2> QED  BY <1>1, <2>4, <2>5, FirstPackageFacts
<1> QED  BY <1>4, <1>5

(* The scope an item, its class and its module have.                       *)
LEMMA OwnFacts ==
  ASSUME MarksTyped, NEW i \in Items
  PROVE  /\ own_scope(i) = level_scope(marks[i])
         /\ own_scope(i) \in PARALLEL_SCOPES \cup {"not", None}
         /\ cls[i] # None => class_scope(i) = level_scope(marks[cls[i]])
         /\ cls[i] = None => class_scope(i) = None
         /\ class_scope(i) \in PARALLEL_SCOPES \cup {"not", None}
         /\ module_scope(i) = level_scope(marks[module[i]])
         /\ module_scope(i) \in PARALLEL_SCOPES \cup {"not", None}
         /\ package_scope(i) \in PARALLEL_SCOPES \cup {"not", None}
<1>1. i \in Marked /\ module[i] \in Marked /\ (cls[i] # None => cls[i] \in Marked)
  BY GroupingAssumption DEF Marked
<1>2. \A x \in Marked : level_scope(marks[x]) \in PARALLEL_SCOPES \cup {"not", None}
  BY ScopeFacts DEF MarksTyped
<1>3. package_scope(i) \in PARALLEL_SCOPES \cup {"not", None}
  <2>1. \A k \in DOMAIN packages[module[i]] : packages[module[i]][k] \in Marked
    BY WalkFacts DEF Marked
  <2> QED  BY <1>2, <2>1, PackageFacts
<1> QED  BY <1>1, <1>2, <1>3 DEF own_scope, class_scope, module_scope

(* What a level can say.                                                   *)
Scopes == PARALLEL_SCOPES \cup {"not", None}

(* The level that decides: the first that is not silent, a module's "not"  *)
(* counting as silence.                                                    *)
LEMMA DecidingFacts ==
  ASSUME MarksTyped, NEW i \in Items
  PROVE  /\ own_scope(i) # None => Deciding(i) = <<"own", own_scope(i)>>
         /\ own_scope(i) = None /\ class_scope(i) # None =>
              Deciding(i) = <<"class", class_scope(i)>>
         /\ own_scope(i) = None /\ class_scope(i) = None =>
              /\ module_scope(i) \notin {None, "not"} =>
                   Deciding(i) = <<"module", module_scope(i)>>
              /\ module_scope(i) \in {None, "not"} =>
                   Deciding(i) = <<"package", package_scope(i)>>
         /\ Deciding(i)[1] \in {"own", "class", "module", "package"}
         /\ Deciding(i)[2] \in Scopes
<1>1. CASE own_scope(i) # None
  BY <1>1, OwnFacts DEF Deciding, Scopes
<1>2. CASE own_scope(i) = None /\ class_scope(i) # None
  BY <1>2, OwnFacts DEF Deciding, Scopes
<1>3. CASE own_scope(i) = None /\ class_scope(i) = None /\ module_scope(i) \notin {None, "not"}
  BY <1>3, OwnFacts DEF Deciding, Scopes
<1>4. CASE own_scope(i) = None /\ class_scope(i) = None /\ module_scope(i) \in {None, "not"}
  <2>1. Deciding(i) = <<"package", package_scope(i)>>
    BY <1>4 DEF Deciding
  <2> QED  BY <1>4, <2>1, OwnFacts DEF Scopes
<1> QED  BY <1>1, <1>2, <1>3, <1>4

(* An item has a key exactly when it runs in parallel with something.      *)
LEMMA KeyFacts ==
  ASSUME MarksTyped, NEW i \in Items
  PROVE  /\ group_key(i) \in Keys \cup {None}
         /\ group_key(i) # None <=>
              /\ ~ForcedSequential(i)
              /\ child_parallel(i) \/ (param_parallel(i) /\ params[i] # {})
         /\ \/ group_key(i) = None
            \/ \E p \in Packages : group_key(i) = <<"pkg_children", p>>
            \/ \E m \in Modules : group_key(i) = <<"mod_children", m>>
            \/ group_key(i) = ClassKey(i)
            \/ group_key(i) = ParamsKey(i)
<1>1. None \notin PARALLEL_SCOPES /\ "not" \notin PARALLEL_SCOPES
  BY GroupingAssumption DEF Marks, PARALLEL_SCOPES
<1>2. module[i] \in Modules
  BY GroupingAssumption
<1>3. ASSUME child_parallel(i), is_package_level(i)
      PROVE  ChildKey(i) = <<"pkg_children", marker_source_package(i)>>
             /\ marker_source_package(i) \in Packages
  <2>1. Deciding(i) = <<"package", package_scope(i)>>
    BY <1>3, DecidingFacts DEF is_package_level
  <2>2. package_scope(i) \in PARALLEL_SCOPES
    BY <1>3, <2>1 DEF child_parallel, PARALLEL_SCOPES
  <2>3. marker_source_package(i) \in Packages /\ marker_source_package(i) # None
    BY <2>2, PackageFacts, GroupingAssumption
  <2>4. PackageKey(i) = <<"pkg_children", marker_source_package(i)>>
    BY <2>3 DEF PackageKey
  <2>5. ChildKey(i) = PackageKey(i)
    BY <1>3 DEF ChildKey
  <2> QED  BY <2>3, <2>4, <2>5
<1>4. ASSUME child_parallel(i)
      PROVE  \/ \E p \in Packages : ChildKey(i) = <<"pkg_children", p>>
             \/ ChildKey(i) = <<"mod_children", module[i]>>
             \/ ChildKey(i) = ClassKey(i)
  <2>1. CASE is_package_level(i)
    BY <1>3, <1>4, <2>1
  <2>2. CASE ~is_package_level(i) /\ cls[i] # None
    BY <2>2 DEF ChildKey
  <2>3. CASE ~is_package_level(i) /\ cls[i] = None
    BY <2>3 DEF ChildKey
  <2> QED  BY <2>1, <2>2, <2>3
<1>5. CASE ~ForcedSequential(i) /\ child_parallel(i)
  <2>1. group_key(i) = ChildKey(i)
    BY <1>5 DEF group_key
  <2> HIDE DEF Keys
  <2>2. \/ \E p \in Packages : group_key(i) = <<"pkg_children", p>>
        \/ \E m \in Modules : group_key(i) = <<"mod_children", m>>
        \/ group_key(i) = ClassKey(i)
    BY <1>2, <1>4, <1>5, <2>1
  <2>3. group_key(i) \in Keys
    BY <2>2 DEF Keys
  <2> QED  BY <1>5, <2>2, <2>3, KeysAssumption
<1>6. CASE /\ ~ForcedSequential(i) /\ ~child_parallel(i)
           /\ param_parallel(i) /\ params[i] # {}
  <2>1. group_key(i) = ParamsKey(i)
    BY <1>6 DEF group_key
  <2>2. ParamsKey(i) \in Keys
    BY DEF Keys
  <2> QED  BY <1>6, <2>1, <2>2, KeysAssumption
<1>7. CASE \/ ForcedSequential(i)
           \/ ~child_parallel(i) /\ ~(param_parallel(i) /\ params[i] # {})
  <2>1. group_key(i) = None
    BY <1>7 DEF group_key
  <2> QED  BY <1>7, <2>1
<1> QED  BY <1>5, <1>6, <1>7

(* A function on 1 .. n is a sequence of length n.                         *)
LEMMA FunctionIsSeq ==
  ASSUME NEW S, NEW n \in Nat, NEW f \in [1 .. n -> S]
  PROVE  f \in Seq(S) /\ Len(f) = n
  OBVIOUS

(* What a concatenation is, by its places.                                 *)
LEMMA ConcatFacts ==
  ASSUME NEW S, NEW s \in Seq(S), NEW t \in Seq(S)
  PROVE  /\ s \o t \in Seq(S)
         /\ Len(s \o t) = Len(s) + Len(t)
         /\ DOMAIN (s \o t) = 1 .. (Len(s) + Len(t))
         /\ \A k \in DOMAIN (s \o t) :
              (s \o t)[k] = IF k <= Len(s) THEN s[k] ELSE t[k - Len(s)]
  OBVIOUS

(* The members of a list of four parts, by their places.                   *)
LEMMA FourParts ==
  ASSUME NEW S, NEW x \in S, NEW two \in Seq(S), NEW y \in S, NEW rest \in Seq(S),
         NEW all
  PROVE  all = <<x>> \o two \o <<y>> \o rest =>
         /\ DOMAIN all = 1 .. (2 + Len(two) + Len(rest))
         /\ all[1] = x
         /\ \A k \in DOMAIN two : all[1 + k] = two[k]
         /\ all[2 + Len(two)] = y
         /\ \A k \in DOMAIN rest : all[2 + Len(two) + k] = rest[k]
<1> HAVE all = <<x>> \o two \o <<y>> \o rest
<1> DEFINE a == <<x>> \o two
           b == a \o <<y>>
<1>1. /\ Len(two) \in Nat /\ DOMAIN two = 1 .. Len(two)
      /\ Len(rest) \in Nat /\ DOMAIN rest = 1 .. Len(rest)
  OBVIOUS
<1>2. /\ a \in Seq(S) /\ Len(a) = 1 + Len(two) /\ a[1] = x
      /\ \A k \in DOMAIN two : a[1 + k] = two[k]
  BY <1>1, ConcatFacts
<1>3. all = b \o rest
  OBVIOUS
<1> HIDE DEF a
<1>4. /\ b \in Seq(S) /\ Len(b) = 2 + Len(two) /\ b[1] = x
      /\ \A k \in DOMAIN two : b[1 + k] = two[k]
      /\ b[2 + Len(two)] = y
  BY <1>1, <1>2, ConcatFacts
<1> HIDE DEF b
<1> QED  BY <1>1, <1>3, <1>4, ConcatFacts

(* The levels of an item by their places: itself, its class if it has one, *)
(* its module, its packages.                                               *)
LEMMA LevelsFacts ==
  ASSUME NEW i \in Items, NEW c \in Nat, c = IF cls[i] = None THEN 0 ELSE 1
  PROVE  /\ DOMAIN Levels(i) = 1 .. (2 + c + Len(packages[module[i]]))
         /\ Levels(i)[1] = marks[i]
         /\ cls[i] # None => Levels(i)[2] = marks[cls[i]]
         /\ Levels(i)[2 + c] = marks[module[i]]
         /\ \A k \in DOMAIN packages[module[i]] :
              Levels(i)[2 + c + k] = marks[packages[module[i]][k]]
<1> DEFINE walk == packages[module[i]]
           two == IF cls[i] = None THEN <<>> ELSE <<marks[cls[i]]>>
           rest == [k \in DOMAIN walk |-> marks[walk[k]]]
           S == {marks[i], marks[cls[i]], marks[module[i]]}
                  \cup {marks[walk[k]] : k \in DOMAIN walk}
<1>1. Len(walk) \in Nat /\ DOMAIN walk = 1 .. Len(walk)
  BY WalkFacts
<1>2. /\ marks[i] \in S /\ marks[module[i]] \in S /\ marks[cls[i]] \in S
      /\ \A k \in DOMAIN walk : rest[k] = marks[walk[k]] /\ marks[walk[k]] \in S
  OBVIOUS
<1>3. DOMAIN rest = DOMAIN walk /\ rest = [k \in DOMAIN rest |-> rest[k]]
  OBVIOUS
<1>4. Levels(i) = <<marks[i]>> \o two \o <<marks[module[i]]>> \o rest
  BY DEF Levels
<1> HIDE DEF S, rest, walk
<1>5. rest \in Seq(S) /\ Len(rest) = Len(walk) /\ DOMAIN rest = DOMAIN walk
  <2>1. rest \in [1 .. Len(walk) -> S]
    BY <1>1, <1>2, <1>3
  <2> QED  BY <1>1, <1>3, <2>1, FunctionIsSeq
<1>6. two \in Seq(S) /\ Len(two) = c /\ (cls[i] # None => 1 \in DOMAIN two /\ two[1] = marks[cls[i]])
  BY <1>2
<1> HIDE DEF two
<1> DEFINE x == marks[i]
           y == marks[module[i]]
<1> HIDE DEF x, y
<1>7. /\ DOMAIN Levels(i) = 1 .. (2 + Len(two) + Len(rest))
      /\ Levels(i)[1] = x
      /\ \A k \in DOMAIN two : Levels(i)[1 + k] = two[k]
      /\ Levels(i)[2 + Len(two)] = y
      /\ \A k \in DOMAIN rest : Levels(i)[2 + Len(two) + k] = rest[k]
  <2>1. x \in S /\ y \in S /\ two \in Seq(S) /\ rest \in Seq(S)
    BY <1>2, <1>5, <1>6 DEF x, y
  <2>2. Levels(i) = <<x>> \o two \o <<y>> \o rest
    BY <1>4 DEF x, y
  <2> QED  BY <2>1, <2>2, FourParts
<1>8. cls[i] # None => Levels(i)[2] = marks[cls[i]]
  BY <1>6, <1>7
<1>9. \A k \in DOMAIN walk : Levels(i)[2 + c + k] = marks[walk[k]]
  BY <1>2, <1>5, <1>6, <1>7
<1> QED  BY <1>5, <1>6, <1>7, <1>8, <1>9 DEF walk, x, y

(* There is one nearest level that speaks.                                 *)
LEMMA NearestFacts ==
  ASSUME NEW i \in Items, NEW k \in DOMAIN Levels(i), Speaks(Levels(i)[k]),
         \A n \in 1 .. (k - 1) : ~Speaks(Levels(i)[n])
  PROVE  NearestSpeaking(i) = k
<1>1. DOMAIN Levels(i) \subseteq Nat \ {0}
  <2>1. PICK c \in Nat : c = IF cls[i] = None THEN 0 ELSE 1
    OBVIOUS
  <2> QED  BY <2>1, LevelsFacts
<1>2. ASSUME NEW m \in DOMAIN Levels(i), Speaks(Levels(i)[m]),
             \A n \in 1 .. (m - 1) : ~Speaks(Levels(i)[n])
      PROVE  m = k
  <2>1. ~ (m < k) /\ ~ (k < m)
    BY <1>1, <1>2
  <2> QED  BY <1>1, <2>1
<1> DEFINE P(m) == Speaks(Levels(i)[m]) /\ \A n \in 1 .. (m - 1) : ~Speaks(Levels(i)[n])
<1>3. P(k) /\ \A m \in DOMAIN Levels(i) : P(m) => m = k
  BY <1>2
<1>4. NearestSpeaking(i) = CHOOSE m \in DOMAIN Levels(i) : P(m)
  BY DEF NearestSpeaking
<1> HIDE DEF P
<1> QED  BY <1>3, <1>4

(* The nearest level that speaks is the one that decides.                  *)
LEMMA NearestDecides ==
  ASSUME MarksTyped, NEW i \in Items, module_scope(i) # "not"
  PROVE  \/ /\ \A k \in DOMAIN Levels(i) : ~Speaks(Levels(i)[k])
            /\ Deciding(i)[2] = None
         \/ \E k \in DOMAIN Levels(i) :
              /\ Speaks(Levels(i)[k])
              /\ \A n \in 1 .. (k - 1) : ~Speaks(Levels(i)[n])
              /\ Deciding(i)[2] = level_scope(Levels(i)[k])
              /\ Deciding(i)[1] = "own" <=> k = 1
              /\ k \in Nat \ {0}
<1>0. PICK c : c \in Nat /\ c = IF cls[i] = None THEN 0 ELSE 1
  OBVIOUS
<1> DEFINE L == Levels(i)
           walk == packages[module[i]]
<1>1. /\ DOMAIN L = 1 .. (2 + c + Len(walk))
      /\ L[1] = marks[i]
      /\ cls[i] # None => L[2] = marks[cls[i]]
      /\ L[2 + c] = marks[module[i]]
      /\ \A k \in DOMAIN walk : L[2 + c + k] = marks[walk[k]]
  BY <1>0, LevelsFacts
<1>2. Len(walk) \in Nat /\ DOMAIN walk = 1 .. Len(walk)
  BY WalkFacts
<1>3. c \in {0, 1} /\ (c = 1 <=> cls[i] # None)
  BY <1>0
<1> HIDE DEF L, walk
<1>4. \A k \in DOMAIN L : \/ k = 1
                          \/ k = 2 /\ c = 1
                          \/ k = 2 + c
                          \/ \E n \in DOMAIN walk : k = 2 + c + n
  <2>1. ASSUME NEW k \in DOMAIN L, k > 2 + c
        PROVE  k - (2 + c) \in DOMAIN walk /\ k = 2 + c + (k - (2 + c))
    BY <1>1, <1>2, <1>3, <2>1
  <2>2. ASSUME NEW k \in DOMAIN L, ~ (k > 2 + c)
        PROVE  k = 1 \/ (k = 2 /\ c = 1) \/ k = 2 + c
    BY <1>1, <1>2, <1>3, <2>2
  <2> QED  BY <2>1, <2>2
<1>5. CASE own_scope(i) # None
  <2>1. 1 \in DOMAIN L /\ Speaks(L[1]) /\ level_scope(L[1]) = own_scope(i)
    BY <1>1, <1>2, <1>3, <1>5, OwnFacts DEF Speaks
  <2>2. Deciding(i) = <<"own", own_scope(i)>>
    BY <1>5, DecidingFacts
  <2> QED  BY <2>1, <2>2 DEF L
<1>6. own_scope(i) = None => ~Speaks(L[1])
  BY <1>1, OwnFacts DEF Speaks
<1>7. class_scope(i) = None => (c = 1 => ~Speaks(L[2]))
  BY <1>1, <1>3, OwnFacts DEF Speaks
<1>8. CASE own_scope(i) = None /\ class_scope(i) # None
  <2>1. c = 1 /\ 2 \in DOMAIN L /\ Speaks(L[2]) /\ level_scope(L[2]) = class_scope(i)
    BY <1>1, <1>2, <1>3, <1>8, OwnFacts DEF Speaks
  <2>2. Deciding(i) = <<"class", class_scope(i)>>
    BY <1>8, DecidingFacts
  <2>3. \A n \in 1 .. (2 - 1) : ~Speaks(L[n])
    BY <1>6, <1>8
  <2> QED  BY <2>1, <2>2, <2>3 DEF L
<1>9. CASE own_scope(i) = None /\ class_scope(i) = None /\ module_scope(i) # None
  <2>1. /\ 2 + c \in DOMAIN L /\ Speaks(L[2 + c])
        /\ level_scope(L[2 + c]) = module_scope(i)
    BY <1>1, <1>2, <1>3, <1>9, OwnFacts DEF Speaks
  <2>2. Deciding(i) = <<"module", module_scope(i)>>
    BY <1>9, DecidingFacts
  <2>3. \A n \in 1 .. (2 + c - 1) : ~Speaks(L[n])
    BY <1>3, <1>6, <1>7, <1>9
  <2>4. 2 + c \in Nat \ {0} /\ 2 + c # 1
    BY <1>3
  <2> HIDE DEF L
  <2>5. Deciding(i)[2] = level_scope(L[2 + c]) /\ Deciding(i)[1] # "own"
    BY <2>1, <2>2
  <2>6. PICK k : k = 2 + c
    OBVIOUS
  <2>7. /\ k \in DOMAIN L /\ Speaks(L[k]) /\ k \in Nat \ {0} /\ k # 1
        /\ Deciding(i)[2] = level_scope(L[k]) /\ Deciding(i)[1] # "own"
        /\ \A n \in 1 .. (k - 1) : ~Speaks(L[n])
    <3>1. k \in DOMAIN L /\ Speaks(L[k]) /\ k \in Nat \ {0} /\ k # 1
      BY <2>1, <2>4, <2>6
    <3>2. Deciding(i)[2] = level_scope(L[k]) /\ Deciding(i)[1] # "own"
      BY <2>5, <2>6
    <3>3. \A n \in 1 .. (k - 1) : ~Speaks(L[n])
      BY <1>3, <2>3, <2>6
    <3> QED  BY <3>1, <3>2, <3>3
  <2> QED  BY <2>7 DEF L
<1>10. CASE own_scope(i) = None /\ class_scope(i) = None /\ module_scope(i) = None
  <2>1. Deciding(i) = <<"package", package_scope(i)>>
    BY <1>10, DecidingFacts
  <2>2. \A n \in 1 .. (2 + c) : ~Speaks(L[n])
    <3>1. ~Speaks(L[2 + c])
      BY <1>1, <1>10, OwnFacts DEF Speaks
    <3> QED  BY <1>3, <1>6, <1>7, <1>10, <3>1
  <2>3. \A k \in DOMAIN walk : level_scope(marks[walk[k]]) = level_scope(L[2 + c + k])
    BY <1>1
  <2>4. CASE /\ package_scope(i) = None
             /\ \A k \in DOMAIN walk : level_scope(marks[walk[k]]) = None
    <3>1. \A k \in DOMAIN L : ~Speaks(L[k])
      <4>1. \A k \in DOMAIN walk : ~Speaks(L[2 + c + k])
        BY <2>3, <2>4 DEF Speaks
      <4> QED  BY <1>3, <1>4, <2>2, <4>1
    <3> QED  BY <2>1, <2>4, <3>1 DEF L
  <2>5. CASE \E k \in DOMAIN walk :
               /\ package_scope(i) = level_scope(marks[walk[k]])
               /\ level_scope(marks[walk[k]]) # None
               /\ \A n \in 1 .. (k - 1) : level_scope(marks[walk[n]]) = None
    <3>1. PICK k \in DOMAIN walk :
               /\ package_scope(i) = level_scope(marks[walk[k]])
               /\ level_scope(marks[walk[k]]) # None
               /\ \A n \in 1 .. (k - 1) : level_scope(marks[walk[n]]) = None
      BY <2>5
    <3>2. /\ 2 + c + k \in DOMAIN L /\ Speaks(L[2 + c + k])
          /\ 2 + c + k \in Nat \ {0} /\ 2 + c + k # 1
          /\ level_scope(L[2 + c + k]) = package_scope(i)
      BY <1>1, <1>2, <1>3, <3>1 DEF Speaks
    <3>3. ASSUME NEW n \in 1 .. (2 + c + k - 1) PROVE ~Speaks(L[n])
      <4>1. CASE n <= 2 + c
        BY <1>3, <2>2, <4>1
      <4>2. CASE ~ (n <= 2 + c)
        <5>1. /\ n - (2 + c) \in DOMAIN walk /\ n - (2 + c) \in 1 .. (k - 1)
              /\ n = 2 + c + (n - (2 + c))
          BY <1>2, <1>3, <4>2
        <5>2. level_scope(L[n]) = level_scope(marks[walk[n - (2 + c)]])
          BY <2>3, <5>1
        <5> QED  BY <3>1, <5>1, <5>2 DEF Speaks
      <4> QED  BY <4>1, <4>2
    <3>4. Deciding(i)[2] = level_scope(L[2 + c + k]) /\ Deciding(i)[1] # "own"
      BY <2>1, <3>2
    <3>5. PICK m : m = 2 + c + k
      OBVIOUS
    <3>6. /\ m \in DOMAIN L /\ Speaks(L[m]) /\ m \in Nat \ {0} /\ m # 1
          /\ Deciding(i)[2] = level_scope(L[m]) /\ Deciding(i)[1] # "own"
          /\ \A n \in 1 .. (m - 1) : ~Speaks(L[n])
      <4>1. m \in DOMAIN L /\ Speaks(L[m]) /\ m \in Nat \ {0} /\ m # 1
        BY <3>2, <3>5
      <4>2. Deciding(i)[2] = level_scope(L[m]) /\ Deciding(i)[1] # "own"
        BY <3>4, <3>5
      <4>3. \A n \in 1 .. (m - 1) : ~Speaks(L[n])
        BY <1>2, <1>3, <3>1, <3>3, <3>5
      <4> QED  BY <4>1, <4>2, <4>3
    <3> QED  BY <3>6 DEF L
  <2> QED  BY <2>4, <2>5, PackageFacts DEF walk
<1> QED  BY <1>5, <1>8, <1>9, <1>10

(* An item has a key exactly when its most specific marker says so.        *)
LEMMA MostSpecificKey ==
  ASSUME MarksTyped, NEW i \in Items, module_scope(i) # "not"
  PROVE  group_key(i) # None <=> ExpectedParallel(i)
<1>1. None \notin {"all", "children", "parameters"}
  BY GroupingAssumption DEF Marks, PARALLEL_SCOPES
<1>2. CASE /\ \A k \in DOMAIN Levels(i) : ~Speaks(Levels(i)[k])
           /\ Deciding(i)[2] = None
  <2>1. ~child_parallel(i) /\ ~param_parallel(i)
    BY <1>1, <1>2 DEF child_parallel, param_parallel
  <2>2. ~ExpectedParallel(i)
    BY <1>2 DEF ExpectedParallel
  <2> QED  BY <2>1, <2>2, KeyFacts
<1>3. ASSUME NEW k \in DOMAIN Levels(i), Speaks(Levels(i)[k]),
             \A n \in 1 .. (k - 1) : ~Speaks(Levels(i)[n]),
             Deciding(i)[2] = level_scope(Levels(i)[k]),
             Deciding(i)[1] = "own" <=> k = 1, k \in Nat \ {0}
      PROVE  group_key(i) # None <=> ExpectedParallel(i)
  <2>1. NearestSpeaking(i) = k
    BY <1>3, NearestFacts
  <2>2. ExpectedParallel(i) <=>
          /\ ~ForcedSequential(i)
          /\ \/ Deciding(i)[2] = "all"
             \/ Deciding(i)[2] = "children" /\ k > 1
             \/ Deciding(i)[2] = "parameters" /\ params[i] # {}
    BY <1>3, <2>1 DEF ExpectedParallel
  <2>3. /\ child_parallel(i) <=> \/ Deciding(i)[2] = "all"
                                 \/ Deciding(i)[2] = "children" /\ k > 1
        /\ param_parallel(i) <=> \/ Deciding(i)[2] = "all"
                                 \/ Deciding(i)[2] = "parameters"
    <3>1. k > 1 <=> k # 1
      BY <1>3
    <3> QED  BY <1>3, <3>1 DEF child_parallel, param_parallel
  <2> QED  BY <2>2, <2>3, KeyFacts
<1> QED  BY <1>2, <1>3, NearestDecides

(***************************************************************************)
(* Lists of groups.                                                        *)
(***************************************************************************)

(* x stands before y in the list of all tests.                             *)
Earlier(its, x, y) == \A m, n \in DOMAIN its : its[m] = x /\ its[n] = y => m < n

(* The tests of a list, and those of two lists, are in that order.         *)
InOrder(its, s) == \A a, b \in DOMAIN s : a < b => Earlier(its, s[a], s[b])
Apart(its, s, t) == \A x \in Range(s), y \in Range(t) : Earlier(its, x, y)

(* All tests, or those of one key, are in that order.                      *)
Follows(its, gs) ==
  /\ \A g \in DOMAIN gs : InOrder(its, gs[g].items)
  /\ \A g, h \in DOMAIN gs : g < h => Apart(its, gs[g].items, gs[h].items)

KeysFollow(its, gs) ==
  /\ \A g \in DOMAIN gs : InOrder(its, gs[g].items)
  /\ \A g, h \in DOMAIN gs : g < h /\ gs[g].key = gs[h].key
                               => Apart(its, gs[g].items, gs[h].items)

(* Every test is in a group of its key.                                    *)
OwnKeys(keys, gs) ==
  \A g \in DOMAIN gs : \A i \in Range(gs[g].items) : keys[i] = gs[g].key

(* A package has one group.                                                *)
PackagesOnce(gs) ==
  \A g, h \in DOMAIN gs : IsPackageKey(gs[g].key) /\ gs[g].key = gs[h].key => g = h

(* Groups of tests of the session.                                         *)
Cut(its, gs) ==
  /\ gs \in Seq(Groups)
  /\ \A g \in DOMAIN gs : gs[g].items # <<>> /\ Range(gs[g].items) \subseteq Range(its)

(* What a longer list is, by its places.                                   *)
LEMMA AppendFacts ==
  ASSUME NEW S, NEW s \in Seq(S), NEW e \in S
  PROVE  /\ Append(s, e) \in Seq(S)
         /\ Len(s) \in Nat /\ DOMAIN s = 1 .. Len(s)
         /\ Len(Append(s, e)) = Len(s) + 1
         /\ DOMAIN Append(s, e) = 1 .. (Len(s) + 1)
         /\ \A k \in DOMAIN s : Append(s, e)[k] = s[k]
         /\ Append(s, e)[Len(s) + 1] = e
  OBVIOUS

(* A member of a longer list is one of the old list or a new one.          *)
LEMMA AppendMembers ==
  ASSUME NEW S, NEW s \in Seq(S), NEW e \in S
  PROVE  /\ \A k \in DOMAIN s : k \in DOMAIN Append(s, e) /\ Append(s, e)[k] = s[k]
         /\ Len(s) + 1 \in DOMAIN Append(s, e) /\ Append(s, e)[Len(s) + 1] = e
         /\ \A k \in DOMAIN Append(s, e) :
              \/ k \in DOMAIN s /\ Append(s, e)[k] = s[k]
              \/ k = Len(s) + 1 /\ Append(s, e)[k] = e
         /\ \A k, m \in DOMAIN Append(s, e) : k < m =>
              \/ k \in DOMAIN s /\ m \in DOMAIN s
              \/ k \in DOMAIN s /\ m = Len(s) + 1
  BY AppendFacts

(* A member of a concatenation is one of either list.                      *)
LEMMA ConcatMembers ==
  ASSUME NEW S, NEW s \in Seq(S), NEW t \in Seq(S)
  PROVE  /\ \A k \in DOMAIN s : k \in DOMAIN (s \o t) /\ (s \o t)[k] = s[k]
         /\ \A n \in DOMAIN t : \E k \in DOMAIN (s \o t) : (s \o t)[k] = t[n]
         /\ \A k \in DOMAIN (s \o t) :
              \/ k \in DOMAIN s /\ (s \o t)[k] = s[k]
              \/ k - Len(s) \in DOMAIN t /\ (s \o t)[k] = t[k - Len(s)]
         /\ \A k, m \in DOMAIN (s \o t) : k < m =>
              \/ k \in DOMAIN s /\ m \in DOMAIN s
              \/ k \in DOMAIN s /\ m - Len(s) \in DOMAIN t
              \/ /\ k - Len(s) \in DOMAIN t /\ m - Len(s) \in DOMAIN t
                 /\ k - Len(s) < m - Len(s)
         /\ \A k, m \in DOMAIN (s \o t) : k # m =>
              \/ k \in DOMAIN s /\ m \in DOMAIN s
              \/ k \in DOMAIN s /\ m - Len(s) \in DOMAIN t
              \/ k - Len(s) \in DOMAIN t /\ m \in DOMAIN s
              \/ /\ k - Len(s) \in DOMAIN t /\ m - Len(s) \in DOMAIN t
                 /\ k - Len(s) # m - Len(s)
<1>1. /\ Len(s) \in Nat /\ DOMAIN s = 1 .. Len(s)
      /\ Len(t) \in Nat /\ DOMAIN t = 1 .. Len(t)
      /\ DOMAIN (s \o t) = 1 .. (Len(s) + Len(t))
  BY ConcatFacts
<1>2. \A k \in DOMAIN (s \o t) :
        (s \o t)[k] = IF k <= Len(s) THEN s[k] ELSE t[k - Len(s)]
  BY ConcatFacts
<1>3. \A k \in DOMAIN s : k \in DOMAIN (s \o t) /\ (s \o t)[k] = s[k]
  BY <1>1, <1>2
<1>4. ASSUME NEW n \in DOMAIN t
      PROVE  \E k \in DOMAIN (s \o t) : (s \o t)[k] = t[n]
  <2>1. PICK k : k = Len(s) + n
    OBVIOUS
  <2>2. k \in DOMAIN (s \o t) /\ ~ (k <= Len(s)) /\ k - Len(s) = n
    BY <1>1, <2>1
  <2> QED  BY <1>2, <2>2
<1>5. \A k \in DOMAIN (s \o t) : \/ k \in DOMAIN s /\ k <= Len(s)
                                 \/ k - Len(s) \in DOMAIN t /\ ~ (k <= Len(s))
  BY <1>1
<1>6. \A k \in DOMAIN (s \o t) :
              \/ k \in DOMAIN s /\ (s \o t)[k] = s[k]
              \/ k - Len(s) \in DOMAIN t /\ (s \o t)[k] = t[k - Len(s)]
  BY <1>2, <1>5
<1>7. \A k, m \in DOMAIN (s \o t) : k < m =>
              \/ k \in DOMAIN s /\ m \in DOMAIN s
              \/ k \in DOMAIN s /\ m - Len(s) \in DOMAIN t
              \/ /\ k - Len(s) \in DOMAIN t /\ m - Len(s) \in DOMAIN t
                 /\ k - Len(s) < m - Len(s)
  BY <1>1
<1>8. \A k, m \in DOMAIN (s \o t) : k # m =>
              \/ k \in DOMAIN s /\ m \in DOMAIN s
              \/ k \in DOMAIN s /\ m - Len(s) \in DOMAIN t
              \/ k - Len(s) \in DOMAIN t /\ m \in DOMAIN s
              \/ /\ k - Len(s) \in DOMAIN t /\ m - Len(s) \in DOMAIN t
                 /\ k - Len(s) # m - Len(s)
  BY <1>1
<1> QED  BY <1>3, <1>4, <1>6, <1>7, <1>8

(* The members of longer, joined, empty and short lists.                   *)
LEMMA RangeOfAppend ==
  ASSUME NEW S, NEW s \in Seq(S), NEW e \in S
  PROVE  Range(Append(s, e)) = Range(s) \cup {e}
<1>1. ASSUME NEW x \in Range(Append(s, e)) PROVE x \in Range(s) \cup {e}
  BY AppendMembers DEF Range
<1>2. ASSUME NEW x \in Range(s) \cup {e} PROVE x \in Range(Append(s, e))
  BY AppendMembers DEF Range
<1> QED  BY <1>1, <1>2

LEMMA RangeOfConcat ==
  ASSUME NEW S, NEW s \in Seq(S), NEW t \in Seq(S)
  PROVE  Range(s \o t) = Range(s) \cup Range(t)
<1>1. ASSUME NEW x \in Range(s \o t) PROVE x \in Range(s) \cup Range(t)
  BY ConcatMembers DEF Range
<1>2. ASSUME NEW x \in Range(s) \cup Range(t) PROVE x \in Range(s \o t)
  BY ConcatMembers DEF Range
<1> QED  BY <1>1, <1>2

LEMMA RangeOfEmpty == Range(<<>>) = {}
  BY DEF Range

LEMMA RangeOfOne ==
  ASSUME NEW x
  PROVE  Range(<<x>>) = {x}
  BY DEF Range

(* The tests of groups, one by one and when lists grow.                    *)
LEMMA ContentMember ==
  ASSUME NEW gs, NEW x
  PROVE  x \in Content(gs) <=> \E g \in DOMAIN gs : x \in Range(gs[g].items)
  BY DEF Content

LEMMA ContentOfAppend ==
  ASSUME NEW gs \in Seq(Groups), NEW e \in Groups
  PROVE  Content(Append(gs, e)) = Content(gs) \cup Range(e.items)
<1>1. \A x : x \in Content(Append(gs, e)) <=> x \in Content(gs) \cup Range(e.items)
  <2> TAKE x
  <2>1. ASSUME NEW g \in DOMAIN Append(gs, e), x \in Range(Append(gs, e)[g].items)
        PROVE  x \in Content(gs) \cup Range(e.items)
    BY <2>1, AppendMembers, ContentMember
  <2>2. ASSUME NEW g \in DOMAIN gs, x \in Range(gs[g].items)
        PROVE  x \in Content(Append(gs, e))
    BY <2>2, AppendMembers, ContentMember
  <2>3. ASSUME x \in Range(e.items)
        PROVE  x \in Content(Append(gs, e))
    BY <2>3, AppendMembers, ContentMember
  <2> QED  BY <2>1, <2>2, <2>3, ContentMember
<1> QED  BY <1>1

LEMMA ContentOfConcat ==
  ASSUME NEW gs \in Seq(Groups), NEW hs \in Seq(Groups)
  PROVE  Content(gs \o hs) = Content(gs) \cup Content(hs)
<1>1. \A x : x \in Content(gs \o hs) <=> x \in Content(gs) \cup Content(hs)
  <2> TAKE x
  <2>1. ASSUME NEW g \in DOMAIN (gs \o hs), x \in Range((gs \o hs)[g].items)
        PROVE  x \in Content(gs) \cup Content(hs)
    BY <2>1, ConcatMembers, ContentMember
  <2>2. ASSUME NEW g \in DOMAIN gs, x \in Range(gs[g].items)
        PROVE  x \in Content(gs \o hs)
    <3>1. g \in DOMAIN (gs \o hs) /\ (gs \o hs)[g] = gs[g]
      BY ConcatMembers
    <3> QED  BY <2>2, <3>1, ContentMember
  <2>3. ASSUME NEW g \in DOMAIN hs, x \in Range(hs[g].items)
        PROVE  x \in Content(gs \o hs)
    <3>1. PICK k \in DOMAIN (gs \o hs) : (gs \o hs)[k] = hs[g]
      BY ConcatMembers
    <3> QED  BY <2>3, <3>1, ContentMember
  <2> QED  BY <2>1, <2>2, <2>3, ContentMember
<1> QED  BY <1>1

(* Lists that follow one another are in order when joined.                 *)
LEMMA InOrderConcat ==
  ASSUME NEW its, NEW s \in Seq(Items), NEW t \in Seq(Items),
         InOrder(its, s), InOrder(its, t), Apart(its, s, t)
  PROVE  InOrder(its, s \o t)
<1> SUFFICES ASSUME NEW a \in DOMAIN (s \o t), NEW b \in DOMAIN (s \o t), a < b
             PROVE  Earlier(its, (s \o t)[a], (s \o t)[b])
  BY DEF InOrder
<1>0. DOMAIN s = 1 .. Len(s) /\ Len(s) \in Nat /\ DOMAIN (s \o t) \subseteq Nat
  BY ConcatFacts
<1> DEFINE u == s \o t
<1>1. CASE a \in DOMAIN s /\ b \in DOMAIN s
  <2>1. u[a] = s[a] /\ u[b] = s[b]
    BY <1>1, ConcatMembers
  <2> QED  BY <1>1, <2>1 DEF InOrder
<1>2. CASE a \in DOMAIN s /\ b - Len(s) \in DOMAIN t
  <2>1. b \notin DOMAIN s
    <3>1. DOMAIN t = 1 .. Len(t) /\ Len(t) \in Nat
      OBVIOUS
    <3> QED  BY <1>0, <1>2, <3>1
  <2>2. u[a] = s[a] /\ u[b] = t[b - Len(s)]
    BY <1>2, <2>1, ConcatMembers
  <2>3. u[a] \in Range(s) /\ u[b] \in Range(t)
    BY <1>2, <2>2 DEF Range
  <2> QED  BY <2>3 DEF Apart
<1>3. CASE /\ a - Len(s) \in DOMAIN t /\ b - Len(s) \in DOMAIN t
           /\ a - Len(s) < b - Len(s)
  <2>1. a \notin DOMAIN s /\ b \notin DOMAIN s
    <3>1. DOMAIN t = 1 .. Len(t) /\ Len(t) \in Nat
      OBVIOUS
    <3> QED  BY <1>0, <1>3, <3>1
  <2>2. u[a] = t[a - Len(s)] /\ u[b] = t[b - Len(s)]
    BY <2>1, ConcatMembers
  <2> QED  BY <1>3, <2>2 DEF InOrder
<1> QED  BY <1>1, <1>2, <1>3, ConcatMembers

LEMMA InOrderOne ==
  ASSUME NEW its, NEW x
  PROVE  InOrder(its, <<x>>)
  BY DEF InOrder

(* A test that stands behind all others is put at the end.                 *)
LEMMA InOrderAppend ==
  ASSUME NEW its, NEW s \in Seq(Items), NEW e \in Items,
         InOrder(its, s), \A x \in Range(s) : Earlier(its, x, e)
  PROVE  InOrder(its, Append(s, e))
<1> SUFFICES ASSUME NEW a \in DOMAIN Append(s, e), NEW b \in DOMAIN Append(s, e), a < b
             PROVE  Earlier(its, Append(s, e)[a], Append(s, e)[b])
  BY DEF InOrder
<1>0. DOMAIN s = 1 .. Len(s) /\ Len(s) \in Nat
  OBVIOUS
<1>1. CASE a \in DOMAIN s /\ b \in DOMAIN s
  <2>1. Append(s, e)[a] = s[a] /\ Append(s, e)[b] = s[b]
    BY <1>1, AppendMembers
  <2> QED  BY <1>1, <2>1 DEF InOrder
<1>2. CASE a \in DOMAIN s /\ b = Len(s) + 1
  <2>1. Append(s, e)[a] = s[a] /\ Append(s, e)[b] = e
    BY <1>2, AppendMembers
  <2> QED  BY <1>2, <2>1 DEF Range
<1> QED  BY <1>1, <1>2, AppendMembers

(* A group is put at the end of a list of groups.                          *)
LEMMA FollowsAppend ==
  ASSUME NEW its, NEW gs \in Seq(Groups), NEW e \in Groups,
         Follows(its, gs), InOrder(its, e.items),
         \A g \in DOMAIN gs : Apart(its, gs[g].items, e.items)
  PROVE  Follows(its, Append(gs, e))
<1> DEFINE hs == Append(gs, e)
<1>1. \A g \in DOMAIN hs : \/ g \in DOMAIN gs /\ hs[g] = gs[g]
                           \/ g = Len(gs) + 1 /\ hs[g] = e
  BY AppendMembers
<1>2. \A g, h \in DOMAIN hs : g < h => \/ g \in DOMAIN gs /\ h \in DOMAIN gs
                                       \/ g \in DOMAIN gs /\ h = Len(gs) + 1
  BY AppendMembers
<1>3. hs[Len(gs) + 1] = e /\ \A g \in DOMAIN gs : hs[g] = gs[g]
  BY AppendMembers
<1> HIDE DEF hs
<1>4. \A g \in DOMAIN hs : InOrder(its, hs[g].items)
  BY <1>1 DEF Follows
<1>5. \A g, h \in DOMAIN hs : g < h => Apart(its, hs[g].items, hs[h].items)
  BY <1>2, <1>3 DEF Follows
<1>6. Follows(its, hs)
  BY <1>4, <1>5 DEF Follows
<1> QED  BY <1>6 DEF hs

(* The same where only the groups of one key keep the order.               *)
LEMMA KeysFollowAppend ==
  ASSUME NEW its, NEW gs \in Seq(Groups), NEW e \in Groups,
         KeysFollow(its, gs), InOrder(its, e.items),
         \A g \in DOMAIN gs : gs[g].key = e.key => Apart(its, gs[g].items, e.items)
  PROVE  KeysFollow(its, Append(gs, e))
<1> DEFINE hs == Append(gs, e)
<1>1. \A g \in DOMAIN hs : \/ g \in DOMAIN gs /\ hs[g] = gs[g]
                           \/ g = Len(gs) + 1 /\ hs[g] = e
  BY AppendMembers
<1>2. \A g, h \in DOMAIN hs : g < h => \/ g \in DOMAIN gs /\ h \in DOMAIN gs
                                       \/ g \in DOMAIN gs /\ h = Len(gs) + 1
  BY AppendMembers
<1>3. hs[Len(gs) + 1] = e /\ \A g \in DOMAIN gs : hs[g] = gs[g]
  BY AppendMembers
<1> HIDE DEF hs
<1>4. \A g \in DOMAIN hs : InOrder(its, hs[g].items)
  BY <1>1 DEF KeysFollow
<1>5. \A g, h \in DOMAIN hs : g < h /\ hs[g].key = hs[h].key
        => Apart(its, hs[g].items, hs[h].items)
  BY <1>2, <1>3 DEF KeysFollow
<1>6. KeysFollow(its, hs)
  BY <1>4, <1>5 DEF KeysFollow
<1> QED  BY <1>6 DEF hs

LEMMA KeysFollowConcat ==
  ASSUME NEW its, NEW gs \in Seq(Groups), NEW es \in Seq(Groups),
         KeysFollow(its, gs), KeysFollow(its, es),
         \A g \in DOMAIN gs, h \in DOMAIN es :
           gs[g].key = es[h].key => Apart(its, gs[g].items, es[h].items)
  PROVE  KeysFollow(its, gs \o es)
<1> DEFINE hs == gs \o es
<1>0. /\ DOMAIN gs = 1 .. Len(gs) /\ Len(gs) \in Nat
      /\ DOMAIN es = 1 .. Len(es) /\ Len(es) \in Nat
  OBVIOUS
<1>1. \A g \in DOMAIN hs : \/ g \in DOMAIN gs /\ hs[g] = gs[g]
                           \/ g - Len(gs) \in DOMAIN es /\ hs[g] = es[g - Len(gs)]
  BY ConcatMembers
<1>2. \A g, h \in DOMAIN hs : g < h =>
        \/ g \in DOMAIN gs /\ h \in DOMAIN gs
        \/ g \in DOMAIN gs /\ h - Len(gs) \in DOMAIN es
        \/ /\ g - Len(gs) \in DOMAIN es /\ h - Len(gs) \in DOMAIN es
           /\ g - Len(gs) < h - Len(gs)
  BY ConcatMembers
<1>3. \A g \in DOMAIN gs : hs[g] = gs[g]
  BY ConcatMembers
<1>4. \A g \in DOMAIN hs : g - Len(gs) \in DOMAIN es => hs[g] = es[g - Len(gs)]
  <2>1. DOMAIN hs \subseteq Nat
    BY ConcatFacts
  <2> HIDE DEF hs
  <2> QED  BY <1>0, <1>1, <2>1
<1> HIDE DEF hs
<1>5. \A g \in DOMAIN hs : InOrder(its, hs[g].items)
  BY <1>1 DEF KeysFollow
<1>6. ASSUME NEW g \in DOMAIN hs, NEW h \in DOMAIN hs, g < h, hs[g].key = hs[h].key
      PROVE  Apart(its, hs[g].items, hs[h].items)
  <2>1. CASE g \in DOMAIN gs /\ h \in DOMAIN gs
    BY <1>3, <1>6, <2>1 DEF KeysFollow
  <2>2. CASE g \in DOMAIN gs /\ h - Len(gs) \in DOMAIN es
    BY <1>3, <1>4, <1>6, <2>2
  <2>3. CASE /\ g - Len(gs) \in DOMAIN es /\ h - Len(gs) \in DOMAIN es
             /\ g - Len(gs) < h - Len(gs)
    BY <1>4, <1>6, <2>3 DEF KeysFollow
  <2> QED  BY <1>2, <1>6, <2>1, <2>2, <2>3
<1>7. KeysFollow(its, hs)
  BY <1>5, <1>6 DEF KeysFollow
<1> QED  BY <1>7 DEF hs

(* Longer lists of groups have tests of their keys, ...                    *)
LEMMA OwnKeysAppend ==
  ASSUME NEW keys, NEW gs \in Seq(Groups), NEW e \in Groups,
         OwnKeys(keys, gs), \A i \in Range(e.items) : keys[i] = e.key
  PROVE  OwnKeys(keys, Append(gs, e))
<1>1. \A g \in DOMAIN Append(gs, e) : \/ g \in DOMAIN gs /\ Append(gs, e)[g] = gs[g]
                                      \/ Append(gs, e)[g] = e
  BY AppendMembers
<1> QED  BY <1>1 DEF OwnKeys

LEMMA OwnKeysConcat ==
  ASSUME NEW keys, NEW gs \in Seq(Groups), NEW es \in Seq(Groups),
         OwnKeys(keys, gs), OwnKeys(keys, es)
  PROVE  OwnKeys(keys, gs \o es)
<1> DEFINE hs == gs \o es
<1>1. \A g \in DOMAIN hs : \/ g \in DOMAIN gs /\ hs[g] = gs[g]
                           \/ g - Len(gs) \in DOMAIN es /\ hs[g] = es[g - Len(gs)]
  BY ConcatMembers
<1> HIDE DEF hs
<1>2. OwnKeys(keys, hs)
  BY <1>1 DEF OwnKeys
<1> QED  BY <1>2 DEF hs

(* ... are of tests of the session, ...                                    *)
LEMMA CutAppend ==
  ASSUME NEW its, NEW gs, NEW e \in Groups, Cut(its, gs),
         e.items # <<>>, Range(e.items) \subseteq Range(its)
  PROVE  Cut(its, Append(gs, e))
<1>1. gs \in Seq(Groups)
  BY DEF Cut
<1>2. \A g \in DOMAIN Append(gs, e) : \/ g \in DOMAIN gs /\ Append(gs, e)[g] = gs[g]
                                      \/ Append(gs, e)[g] = e
  BY <1>1, AppendMembers
<1> QED  BY <1>1, <1>2 DEF Cut

LEMMA CutConcat ==
  ASSUME NEW its, NEW gs, NEW es, Cut(its, gs), Cut(its, es)
  PROVE  Cut(its, gs \o es)
<1>1. gs \in Seq(Groups) /\ es \in Seq(Groups)
  BY DEF Cut
<1> DEFINE hs == gs \o es
<1>2. \A g \in DOMAIN hs : \/ g \in DOMAIN gs /\ hs[g] = gs[g]
                           \/ g - Len(gs) \in DOMAIN es /\ hs[g] = es[g - Len(gs)]
  BY <1>1, ConcatMembers
<1>3. hs \in Seq(Groups)
  BY <1>1
<1> HIDE DEF hs
<1>4. Cut(its, hs)
  BY <1>2, <1>3 DEF Cut
<1> QED  BY <1>4 DEF hs

(* ... and have a package once if the new groups are of others.            *)
LEMMA PackagesOnceAppend ==
  ASSUME NEW gs \in Seq(Groups), NEW e \in Groups, PackagesOnce(gs),
         IsPackageKey(e.key) => \A g \in DOMAIN gs : gs[g].key # e.key
  PROVE  PackagesOnce(Append(gs, e))
<1> DEFINE hs == Append(gs, e)
<1>1. \A g \in DOMAIN hs : \/ g \in DOMAIN gs /\ hs[g] = gs[g]
                           \/ g = Len(gs) + 1 /\ hs[g] = e
  BY AppendMembers
<1> HIDE DEF hs
<1>2. PackagesOnce(hs)
  BY <1>1 DEF PackagesOnce
<1> QED  BY <1>2 DEF hs

LEMMA PackagesOnceConcat ==
  ASSUME NEW gs \in Seq(Groups), NEW es \in Seq(Groups),
         PackagesOnce(gs), PackagesOnce(es),
         \A g \in DOMAIN gs, h \in DOMAIN es : IsPackageKey(es[h].key) => gs[g].key # es[h].key
  PROVE  PackagesOnce(gs \o es)
<1> DEFINE hs == gs \o es
<1>1. \A g \in DOMAIN hs : \/ g \in DOMAIN gs /\ hs[g] = gs[g]
                           \/ g - Len(gs) \in DOMAIN es /\ hs[g] = es[g - Len(gs)]
  BY ConcatMembers
<1>2. Len(gs) \in Nat /\ DOMAIN hs \subseteq Nat
  BY ConcatFacts
<1> HIDE DEF hs
<1>3. ASSUME NEW g \in DOMAIN hs, NEW h \in DOMAIN hs,
             IsPackageKey(hs[g].key), hs[g].key = hs[h].key
      PROVE  g = h
  <2>1. CASE g \in DOMAIN gs /\ h \in DOMAIN gs /\ hs[g] = gs[g] /\ hs[h] = gs[h]
    BY <1>3, <2>1 DEF PackagesOnce
  <2>2. CASE /\ g - Len(gs) \in DOMAIN es /\ hs[g] = es[g - Len(gs)]
             /\ h - Len(gs) \in DOMAIN es /\ hs[h] = es[h - Len(gs)]
    <3>1. g - Len(gs) = h - Len(gs)
      BY <1>3, <2>2 DEF PackagesOnce
    <3> QED  BY <1>2, <3>1
  <2> QED  BY <1>1, <1>3, <2>1, <2>2
<1>4. PackagesOnce(hs)
  BY <1>3 DEF PackagesOnce
<1> QED  BY <1>4 DEF hs

(***************************************************************************)
(* Packages in fragments.                                                  *)
(***************************************************************************)

(* pkg_indices, fragmented, First and Final of any list of groups.         *)
Indices(gs, key) == {g \in DOMAIN gs : gs[g].key = key}

SplitKeys(gs) == {gs[g].key : g \in {h \in DOMAIN gs :
                    /\ IsPackageKey(gs[h].key)
                    /\ Cardinality(Indices(gs, gs[h].key)) > 1}}

FirstOf(gs, key) == Min(Indices(gs, key))
FinalOf(gs, key) == Max(Indices(gs, key))

(* Crossing and Nested of any list of groups.                              *)
Crosses(gs) == \E k, l \in SplitKeys(gs) :
                 /\ FirstOf(gs, k) < FirstOf(gs, l)
                 /\ FirstOf(gs, l) < FinalOf(gs, k)
                 /\ FinalOf(gs, k) < FinalOf(gs, l)
Nests(gs) == \E k, l \in SplitKeys(gs) : /\ FirstOf(gs, k) < FirstOf(gs, l)
                                         /\ FinalOf(gs, l) < FinalOf(gs, k)

(* They are those of the model for the groups that were cut.               *)
LEMMA SplitOfGroups ==
  /\ fragmented = SplitKeys(groups)
  /\ \A key : First(key) = FirstOf(groups, key) /\ Final(key) = FinalOf(groups, key)
  /\ Crossing <=> Crosses(groups)
  /\ Nested <=> Nests(groups)
<1>1. \A key : pkg_indices(key) = Indices(groups, key)
  BY DEF pkg_indices, Indices
<1>2. fragmented = SplitKeys(groups)
  BY <1>1 DEF fragmented, SplitKeys
<1>3. \A key : First(key) = FirstOf(groups, key) /\ Final(key) = FinalOf(groups, key)
  BY <1>1 DEF First, Final, FirstOf, FinalOf
<1>4. Crossing <=> Crosses(groups)
  BY <1>2, <1>3, Zenon DEF Crossing, Crosses
<1>5. Nested <=> Nests(groups)
  BY <1>2, <1>3 DEF Nested, Nests
<1> QED  BY <1>2, <1>3, <1>4, <1>5

(* A set of numbers up to n that is not empty has a greatest member.       *)
LEMMA MaxFacts ==
  ASSUME NEW n \in Nat, NEW T \in SUBSET (1 .. n), T # {}
  PROVE  Max(T) \in T /\ \A m \in T : m <= Max(T)
<1> DEFINE D == {n - x : x \in T}
<1>1. D \subseteq Nat /\ D # {}
  <2>1. \A x \in T : n - x \in Nat
    OBVIOUS
  <2> QED  BY <2>1
<1>2. Min(D) \in D /\ \A m \in D : Min(D) <= m
  <2> HIDE DEF D
  <2> QED  BY <1>1, MinFacts
<1>3. PICK k \in T : Min(D) = n - k
  BY <1>2
<1>4. \A m \in T : m <= k
  <2> SUFFICES ASSUME NEW m \in T PROVE m <= k
    OBVIOUS
  <2>1. n - m \in D
    OBVIOUS
  <2>2. n - k <= n - m
    <3> HIDE DEF D
    <3> QED  BY <1>2, <1>3, <2>1
  <2> QED  BY <2>2
<1>5. \A y \in T : k >= y
  BY <1>4
<1> HIDE DEF D
<1> QED  BY <1>5 DEF Max

(* A set of two numbers or more has two different members, and back.       *)
LEMMA TwoMembers ==
  ASSUME NEW n \in Nat, NEW T \in SUBSET (1 .. n)
  PROVE  Cardinality(T) > 1 <=> \E x, y \in T : x < y
<1>1. IsFiniteSet(T) /\ Cardinality(T) \in Nat
  <2>1. IsFiniteSet(1 .. n)
    BY FS_Interval
  <2>2. IsFiniteSet(T)
    BY <2>1, FS_Subset
  <2> QED  BY <2>2, FS_CardinalityType
<1>2. ASSUME NEW x \in T, NEW y \in T, x < y PROVE Cardinality(T) > 1
  <2>1. x # y /\ {x, y} \subseteq T
    BY <1>2
  <2>2. Cardinality({x, y}) = 2
    <3>1. Cardinality({x}) = 1 /\ IsFiniteSet({x})
      BY FS_Singleton
    <3>2. Cardinality({x} \cup {y}) = Cardinality({x}) + 1
      BY <2>1, <3>1, FS_AddElement
    <3>3. {x} \cup {y} = {x, y}
      OBVIOUS
    <3> QED  BY <3>1, <3>2, <3>3
  <2>3. Cardinality({x, y}) <= Cardinality(T)
    BY <1>1, <2>1, FS_Subset
  <2> QED  BY <1>1, <2>2, <2>3
<1>3. ASSUME Cardinality(T) > 1 PROVE \E x, y \in T : x < y
  <2>1. T # {}
    BY <1>3, FS_EmptySet
  <2>2. PICK x \in T : TRUE
    BY <2>1
  <2>3. T # {x}
    BY <1>3, FS_Singleton
  <2>4. PICK y \in T : y # x
    BY <2>2, <2>3
  <2>5. x < y \/ y < x
    BY <2>4
  <2> QED  BY <2>5
<1> QED  BY <1>2, <1>3

(* The first and the last of the groups of a key.                          *)
LEMMA SpanFacts ==
  ASSUME NEW gs \in Seq(Groups), NEW c \in DOMAIN gs
  PROVE  LET key == gs[c].key IN
         /\ FirstOf(gs, key) \in DOMAIN gs /\ gs[FirstOf(gs, key)].key = key
         /\ FinalOf(gs, key) \in DOMAIN gs /\ gs[FinalOf(gs, key)].key = key
         /\ \A h \in DOMAIN gs : gs[h].key = key =>
              FirstOf(gs, key) <= h /\ h <= FinalOf(gs, key)
<1> DEFINE key == gs[c].key
           T == Indices(gs, key)
<1>1. DOMAIN gs = 1 .. Len(gs) /\ Len(gs) \in Nat
  OBVIOUS
<1>2. /\ T \subseteq 1 .. Len(gs) /\ T \subseteq Nat /\ c \in T
      /\ \A h : h \in T <=> h \in DOMAIN gs /\ gs[h].key = key
  BY <1>1 DEF Indices
<1>3. FirstOf(gs, key) = Min(T) /\ FinalOf(gs, key) = Max(T)
  BY DEF FirstOf, FinalOf
<1> HIDE DEF T, key
<1>4. T # {}
  BY <1>2
<1>5. Min(T) \in T /\ \A m \in T : Min(T) <= m
  BY <1>2, <1>4, MinFacts
<1>6. Max(T) \in T /\ \A m \in T : m <= Max(T)
  BY <1>1, <1>2, <1>4, MaxFacts
<1> QED  BY <1>2, <1>3, <1>5, <1>6 DEF key

(* A package is in fragments if two groups have its key.                   *)
LEMMA SplitFacts ==
  ASSUME NEW gs \in Seq(Groups), NEW key
  PROVE  key \in SplitKeys(gs) <=>
           /\ IsPackageKey(key)
           /\ \E g, h \in DOMAIN gs : g < h /\ gs[g].key = key /\ gs[h].key = key
<1> DEFINE T == Indices(gs, key)
<1>1. DOMAIN gs = 1 .. Len(gs) /\ Len(gs) \in Nat
  OBVIOUS
<1>2. /\ T \subseteq 1 .. Len(gs)
      /\ \A h : h \in T <=> h \in DOMAIN gs /\ gs[h].key = key
  BY <1>1 DEF Indices
<1>3. Cardinality(T) > 1 <=> \E x, y \in T : x < y
  <2> HIDE DEF T
  <2> QED  BY <1>1, <1>2, TwoMembers
<1>4. key \in SplitKeys(gs) <=>
        \E h \in DOMAIN gs : gs[h].key = key /\ IsPackageKey(key) /\ Cardinality(T) > 1
  BY DEF SplitKeys
<1> HIDE DEF T
<1> QED  BY <1>2, <1>3, <1>4

(* The span of a package in fragments.                                     *)
LEMMA SplitSpan ==
  ASSUME NEW gs \in Seq(Groups), NEW key \in SplitKeys(gs)
  PROVE  /\ FirstOf(gs, key) \in DOMAIN gs /\ gs[FirstOf(gs, key)].key = key
         /\ FinalOf(gs, key) \in DOMAIN gs /\ gs[FinalOf(gs, key)].key = key
         /\ FirstOf(gs, key) < FinalOf(gs, key)
         /\ \A h \in DOMAIN gs : gs[h].key = key =>
              FirstOf(gs, key) <= h /\ h <= FinalOf(gs, key)
<1>1. PICK g \in DOMAIN gs, h \in DOMAIN gs :
        g < h /\ gs[g].key = key /\ gs[h].key = key
  BY SplitFacts
<1>2. DOMAIN gs \subseteq Nat
  OBVIOUS
<1>3. /\ FirstOf(gs, key) \in DOMAIN gs /\ gs[FirstOf(gs, key)].key = key
      /\ FinalOf(gs, key) \in DOMAIN gs /\ gs[FinalOf(gs, key)].key = key
      /\ \A m \in DOMAIN gs : gs[m].key = key =>
              FirstOf(gs, key) <= m /\ m <= FinalOf(gs, key)
  BY <1>1, SpanFacts
<1>4. FirstOf(gs, key) <= g /\ h <= FinalOf(gs, key)
  BY <1>1, <1>3
<1> QED  BY <1>1, <1>2, <1>3, <1>4

(***************************************************************************)
(* The inductive invariant.                                                *)
(***************************************************************************)

(* The keys of all items, as a function.                                   *)
GroupKeys == [i \in Items |-> group_key(i)]

(* Groups are made of the items in their order, each of its own key.       *)
BuildInv ==
  /\ Content(groups) = IF pc = "build" THEN {items[n] : n \in 1 .. (idx - 1)}
                       ELSE Range(items)
  /\ OwnKeys(GroupKeys, groups)
  /\ Follows(items, groups)

(* Where the merge stands in its inner loop: the fragments up to j are     *)
(* consumed, those of the package taken and all others deferred.           *)
JoinInv ==
  /\ pc # "join" => parallel_items = <<>> /\ deferred = <<>>
  /\ pc = "build" => merged = <<>> /\ consumed = {}
  /\ pc = "join" =>
       LET key == groups[idx].key IN
       /\ key \in SplitKeys(groups)
       /\ j \in FirstOf(groups, key) .. (FinalOf(groups, key) + 1)
       /\ FirstOf(groups, key) .. (j - 1) \subseteq consumed
       /\ parallel_items \in Seq(Items)
       /\ j > FirstOf(groups, key) => parallel_items # <<>>
       /\ \A i \in Range(parallel_items) : GroupKeys[i] = key
       /\ \A a \in DOMAIN deferred : deferred[a].key # key

(* What the merge has gone over is in a group, or about to be put into one.*)
Gone(g) == g < idx \/ g \in consumed

CoverInv ==
  /\ pc \in {"merge", "join"} =>
       \A g \in DOMAIN groups : Gone(g) =>
         Range(groups[g].items) \subseteq
           Content(merged) \cup Range(parallel_items) \cup Content(deferred)
  /\ pc = "done" => Content(merged) = Range(items)

(* Every test the merge has moved is in a group of its key.                *)
KeyInv == OwnKeys(GroupKeys, merged) /\ OwnKeys(GroupKeys, deferred)

(* Unless packages cross, the merge goes over the groups from left to      *)
(* right: what is consumed is the span of a package that it came upon.     *)
Span(gs, key) == FirstOf(gs, key) .. FinalOf(gs, key)

Joined(h) == \E key \in SplitKeys(groups) :
               /\ FirstOf(groups, key) < idx
               /\ h \in Span(groups, key) /\ Span(groups, key) \subseteq consumed

ForwardInv ==
  /\ \A h \in consumed : Joined(h) \/ (pc = "join" /\ h \in idx .. (j - 1))
  /\ \A g \in 1 .. (idx - 1) : groups[g].key \in SplitKeys(groups) => g \in consumed
  /\ pc = "join" => /\ FirstOf(groups, groups[idx].key) = idx
                    /\ \A h \in consumed : h < j

(* What is merged comes from the groups the merge has gone over ...        *)
Source(g) == g < idx \/ (pc = "merge" /\ g \in consumed)

MergedInv ==
  \A a \in DOMAIN merged :
    /\ \A x \in Range(merged[a].items) :
         \E g \in DOMAIN groups : Source(g) /\ x \in Range(groups[g].items)
    /\ \E g \in DOMAIN groups : Source(g) /\ groups[g].key = merged[a].key

(* ... and what the inner loop has collected from those behind them.       *)
InnerInv ==
  pc = "join" =>
    /\ InOrder(items, parallel_items)
    /\ \A x \in Range(parallel_items) :
         \E g \in idx .. (j - 1) : x \in Range(groups[g].items)
    /\ \A a \in DOMAIN deferred : \E g \in idx .. (j - 1) : deferred[a] = groups[g]
    /\ \A a, b \in DOMAIN deferred : a < b =>
         \E g, h \in idx .. (j - 1) :
           g < h /\ deferred[a] = groups[g] /\ deferred[b] = groups[h]

MergeInv == pc \in {"merge", "join"} /\ ~Crosses(groups)
              => ForwardInv /\ MergedInv /\ InnerInv

(* Without overlaps the result keeps the order and packages are whole.     *)
OrderInv == pc = "build" \/ ~Crosses(groups) => KeysFollow(items, merged)

PackageInv == pc = "build" \/ (~Crosses(groups) /\ ~Nests(groups)) => PackagesOnce(merged)

Inv == /\ TypeInv /\ BuildInv /\ JoinInv /\ CoverInv /\ KeyInv
       /\ MergeInv /\ OrderInv /\ PackageInv

(* What the type invariant says, by name.                                  *)
LEMMA TypeFacts ==
  ASSUME TypeInv
  PROVE  /\ MarksTyped
         /\ items \in Seq(Items) /\ IsInjective(items)
         /\ DOMAIN items = 1 .. Len(items) /\ Len(items) \in Nat
         /\ \A n \in DOMAIN items : items[n] \in Items
         /\ Range(items) \subseteq Items
         /\ idx \in Nat \ {0}
         /\ Cut(items, groups) /\ Cut(items, merged) /\ Cut(items, deferred)
         /\ groups \in Seq(Groups) /\ merged \in Seq(Groups) /\ deferred \in Seq(Groups)
         /\ DOMAIN groups = 1 .. Len(groups) /\ Len(groups) \in Nat
         /\ \A g \in DOMAIN groups :
              /\ groups[g] \in Groups /\ groups[g].items \in Seq(Items)
              /\ groups[g].key \in Keys \cup {None}
<1>1. MarksTyped /\ items \in Seq(Items) /\ IsInjective(items)
  BY DEF TypeInv, MarksTyped
<1>2. /\ DOMAIN items = 1 .. Len(items) /\ Len(items) \in Nat
      /\ \A n \in DOMAIN items : items[n] \in Items
  BY <1>1
<1>3. Range(items) \subseteq Items
  BY <1>2 DEF Range
<1>4. Cut(items, groups) /\ Cut(items, merged) /\ Cut(items, deferred)
  BY DEF TypeInv, Cut
<1>5. groups \in Seq(Groups) /\ merged \in Seq(Groups) /\ deferred \in Seq(Groups)
  BY <1>4 DEF Cut
<1>6. /\ DOMAIN groups = 1 .. Len(groups) /\ Len(groups) \in Nat
      /\ \A g \in DOMAIN groups : groups[g] \in Groups
  BY <1>5
<1>7. \A g \in DOMAIN groups :
        groups[g].items \in Seq(Items) /\ groups[g].key \in Keys \cup {None}
  BY <1>6 DEF Groups
<1>8. idx \in Nat \ {0}
  BY <1>2, <1>6 DEF TypeInv
<1> QED  BY <1>1, <1>2, <1>3, <1>4, <1>5, <1>6, <1>7, <1>8

(* Keys are of the right type and do not change.                           *)
LEMMA GroupKeysFrame ==
  ASSUME marks' = marks
  PROVE  GroupKeys' = GroupKeys
  BY KeysFrame DEF GroupKeys

LEMMA GroupKeysFacts ==
  ASSUME TypeInv
  PROVE  \A i \in Items : /\ GroupKeys[i] = group_key(i)
                          /\ GroupKeys[i] \in Keys \cup {None}
  BY TypeFacts, KeyFacts DEF GroupKeys

(* Items earlier in the list stand before the later ones.                  *)
LEMMA EarlierFacts ==
  ASSUME TypeInv, NEW m \in DOMAIN items, NEW n \in DOMAIN items, m < n
  PROVE  Earlier(items, items[m], items[n])
  BY TypeFacts DEF Earlier, IsInjective

(* The empty list satisfies all of it.                                     *)
LEMMA EmptyLists ==
  ASSUME NEW its, NEW keys
  PROVE  /\ <<>> \in Seq(Groups) /\ Cut(its, <<>>) /\ OwnKeys(keys, <<>>)
         /\ Content(<<>>) = {} /\ Follows(its, <<>>) /\ KeysFollow(its, <<>>)
         /\ PackagesOnce(<<>>) /\ InOrder(its, <<>>) /\ Range(<<>>) = {}
  BY RangeOfEmpty DEF Cut, OwnKeys, Content, Follows, KeysFollow, PackagesOnce, InOrder

(* What build_groups starts from.                                          *)
LEMMA InvAtStart ==
  ASSUME Init
  PROVE  Inv
<1>1. PICK in \in Inputs : marks = in.marks /\ items = in.items
  BY DEF Init
<1>2. /\ pc = "build" /\ idx = 1 /\ groups = <<>> /\ merged = <<>>
      /\ consumed = {} /\ parallel_items = <<>> /\ deferred = <<>>
  BY DEF Init
<1>3. /\ \A x \in Marked : marks[x] \in Seq(Marks)
      /\ items \in Seq(Items) /\ IsInjective(items) /\ Len(items) \in Nat
  BY <1>1, GroupingAssumption
<1>4. TypeInv
  <2>1. idx \in 1 .. (Len(items) + 1)
    BY <1>2, <1>3
  <2>2. Cut(items, groups) /\ Cut(items, merged) /\ Cut(items, deferred)
    BY <1>2, EmptyLists
  <2>3. Range(parallel_items) = {}
    BY <1>2, RangeOfEmpty
  <2> QED  BY <1>2, <1>3, <2>1, <2>2, <2>3 DEF TypeInv, Cut
<1>5. BuildInv
  <2>1. 1 .. (idx - 1) = {}
    BY <1>2
  <2> QED  BY <1>2, <2>1, EmptyLists DEF BuildInv
<1>6. JoinInv /\ CoverInv /\ KeyInv /\ MergeInv /\ OrderInv /\ PackageInv
  BY <1>2, EmptyLists DEF JoinInv, CoverInv, KeyInv, MergeInv, OrderInv, PackageInv
<1> QED  BY <1>4, <1>5, <1>6 DEF Inv

(* The next item opens a group.                                            *)
LEMMA InvNewGroup ==
  ASSUME Inv, NewGroup
  PROVE  Inv'
<1> DEFINE x == items[idx]
           e == [key |-> GroupKeys[x], items |-> <<x>>]
<1>1. TypeInv /\ BuildInv /\ JoinInv
  BY DEF Inv
<1>2. /\ pc = "build" /\ idx <= Len(items) /\ idx' = idx + 1
      /\ groups' = Append(groups, [key |-> group_key(items[idx]), items |-> <<items[idx]>>])
      /\ UNCHANGED <<marks, items, pc, merged, consumed, j, parallel_items, deferred>>
  BY DEF NewGroup, inner
<1>3. idx \in DOMAIN items /\ x \in Items /\ x \in Range(items)
  BY <1>1, <1>2, TypeFacts DEF Range
<1>4. groups' = Append(groups, e)
  BY <1>1, <1>2, <1>3, GroupKeysFacts
<1>5. e \in Groups /\ e.items = <<x>> /\ e.key = GroupKeys[x] /\ Range(e.items) = {x}
  BY <1>1, <1>3, GroupKeysFacts, RangeOfOne DEF Groups
<1>6. GroupKeys' = GroupKeys
  BY <1>2, GroupKeysFrame
<1>7. merged = <<>> /\ consumed = {} /\ parallel_items = <<>> /\ deferred = <<>>
  BY <1>1, <1>2 DEF JoinInv
<1>8. \A y \in Content(groups) : Earlier(items, y, x)
  <2> SUFFICES ASSUME NEW y \in Content(groups) PROVE Earlier(items, y, x)
    OBVIOUS
  <2>1. PICK n \in 1 .. (idx - 1) : y = items[n]
    BY <1>1, <1>2 DEF BuildInv
  <2>2. n \in DOMAIN items /\ n < idx
    BY <1>1, <1>3, TypeFacts
  <2> QED  BY <1>1, <1>3, <2>1, <2>2, EarlierFacts
<1> HIDE DEF e, x
<1>9. Cut(items, groups')
  <2>1. e.items # <<>> /\ Range(e.items) \subseteq Range(items)
    BY <1>3, <1>5
  <2>2. Cut(items, groups)
    BY <1>1, TypeFacts
  <2> QED  BY <1>4, <1>5, <2>1, <2>2, CutAppend
<1>10. TypeInv'
  <2>1. idx' \in 1 .. (Len(items) + 1)
    BY <1>1, <1>2, TypeFacts
  <2>2. consumed' = {}
    BY <1>2, <1>7
  <2>3. Cut(items, merged') /\ Cut(items, deferred') /\ Range(parallel_items') = {}
    BY <1>2, <1>7, EmptyLists
  <2>4. pc' # "join"
    BY <1>2
  <2> QED  BY <1>1, <1>2, <1>9, <2>1, <2>2, <2>3, <2>4 DEF TypeInv, Cut
<1>11. BuildInv'
  <2>1. Content(groups') = Content(groups) \cup {x}
    BY <1>1, <1>4, <1>5, TypeFacts, ContentOfAppend
  <2>2. {items[n] : n \in 1 .. (idx' - 1)} = {items[n] : n \in 1 .. (idx - 1)} \cup {x}
    <3>1. 1 .. (idx' - 1) = 1 .. (idx - 1) \cup {idx}
      BY <1>1, <1>2, TypeFacts
    <3> QED  BY <3>1 DEF x
  <2>3. OwnKeys(GroupKeys, groups')
    BY <1>1, <1>4, <1>5, TypeFacts, OwnKeysAppend DEF BuildInv
  <2>4. InOrder(items, e.items)
    BY <1>5, InOrderOne
  <2>5. \A g \in DOMAIN groups : Apart(items, groups[g].items, e.items)
    BY <1>5, <1>8, ContentMember DEF Apart
  <2>6. Follows(items, groups')
    BY <1>1, <1>4, <1>5, <2>4, <2>5, TypeFacts, FollowsAppend DEF BuildInv
  <2>7. Content(groups') = {items[n] : n \in 1 .. (idx' - 1)}
    BY <1>1, <1>2, <2>1, <2>2 DEF BuildInv
  <2> QED  BY <1>2, <1>6, <2>3, <2>6, <2>7 DEF BuildInv
<1>12. (JoinInv /\ CoverInv /\ KeyInv /\ MergeInv /\ OrderInv /\ PackageInv)'
  <2>1. /\ pc' = "build" /\ merged' = <<>> /\ consumed' = {}
        /\ parallel_items' = <<>> /\ deferred' = <<>>
    BY <1>2, <1>7
  <2> QED  BY <2>1, EmptyLists DEF JoinInv, CoverInv, KeyInv, MergeInv, OrderInv, PackageInv
<1> QED  BY <1>10, <1>11, <1>12 DEF Inv

(* The next item goes into the last group.                                 *)
LEMMA InvSameGroup ==
  ASSUME Inv, SameGroup
  PROVE  Inv'
<1> DEFINE x == items[idx]
           last == Len(groups)
           its == groups[last].items
<1>1. TypeInv /\ BuildInv /\ JoinInv
  BY DEF Inv
<1>2. /\ pc = "build" /\ idx <= Len(items) /\ idx' = idx + 1
      /\ ~KeyChanges(group_key(items[idx]))
      /\ groups' = [groups EXCEPT ![Len(groups)].items = Append(@, items[idx])]
      /\ UNCHANGED <<marks, items, pc, merged, consumed, j, parallel_items, deferred>>
  BY DEF SameGroup, inner
<1>3. idx \in DOMAIN items /\ x \in Items /\ x \in Range(items)
  BY <1>1, <1>2, TypeFacts DEF Range
<1>4. last \in DOMAIN groups /\ groups[last].key = GroupKeys[x]
  <2>1. groups # <<>> /\ group_key(items[idx]) = Last(groups).key
    BY <1>2 DEF KeyChanges
  <2>2. last \in DOMAIN groups
    BY <1>1, <2>1, TypeFacts
  <2> QED  BY <1>1, <1>3, <2>1, <2>2, GroupKeysFacts DEF Last
<1>5. /\ groups[last] \in Groups /\ its \in Seq(Items)
      /\ groups[last] = [key |-> groups[last].key, items |-> its]
      /\ groups[last].key \in Keys \cup {None}
  BY <1>1, <1>4, TypeFacts DEF Groups
<1>6. /\ DOMAIN groups' = DOMAIN groups
      /\ groups'[last] = [key |-> groups[last].key, items |-> Append(its, x)]
      /\ \A g \in DOMAIN groups : g # last => groups'[g] = groups[g]
  BY <1>2, <1>4, <1>5
<1>7. GroupKeys' = GroupKeys
  BY <1>2, GroupKeysFrame
<1>8. merged = <<>> /\ consumed = {} /\ parallel_items = <<>> /\ deferred = <<>>
  BY <1>1, <1>2 DEF JoinInv
<1>9. \A y \in Content(groups) : Earlier(items, y, x)
  <2> SUFFICES ASSUME NEW y \in Content(groups) PROVE Earlier(items, y, x)
    OBVIOUS
  <2>1. PICK n \in 1 .. (idx - 1) : y = items[n]
    BY <1>1, <1>2 DEF BuildInv
  <2>2. n \in DOMAIN items /\ n < idx
    BY <1>1, <1>3, TypeFacts
  <2> QED  BY <1>1, <1>3, <2>1, <2>2, EarlierFacts
<1>10. groups \in Seq(Groups) /\ DOMAIN groups = 1 .. last /\ last \in Nat
  BY <1>1, TypeFacts
<1> HIDE DEF x, its
<1>11. /\ groups'[last].key = groups[last].key
       /\ groups'[last].items = Append(its, x) /\ Append(its, x) \in Seq(Items)
       /\ Append(its, x) # <<>> /\ Range(Append(its, x)) = Range(its) \cup {x}
       /\ groups'[last] \in Groups
  <2>1. Append(its, x) \in Seq(Items) /\ Append(its, x) # <<>>
    BY <1>3, <1>5
  <2>2. Range(Append(its, x)) = Range(its) \cup {x}
    BY <1>3, <1>5, RangeOfAppend
  <2> QED  BY <1>5, <1>6, <2>1, <2>2 DEF Groups
<1>12. groups[last].items = its
  BY DEF its
<1> HIDE DEF last
<1>13. \A g \in DOMAIN groups : Range(groups'[g].items) =
         IF g = last THEN Range(groups[g].items) \cup {x} ELSE Range(groups[g].items)
  BY <1>6, <1>11, <1>12
<1>14. Cut(items, groups')
  <2>1. groups' \in Seq(Groups)
    <3>1. groups' \in [1 .. last -> Groups]
      <4>1. \A g \in DOMAIN groups : groups'[g] \in Groups
        BY <1>1, <1>6, <1>11, TypeFacts
      <4>2. groups' = [g \in 1 .. last |-> groups'[g]]
        BY <1>2, <1>10 DEF last
      <4> QED  BY <1>6, <1>10, <4>1, <4>2
    <3> QED  BY <1>10, <3>1, FunctionIsSeq
  <2>2. \A g \in DOMAIN groups :
          groups[g].items # <<>> /\ Range(groups[g].items) \subseteq Range(items)
    BY <1>1, TypeFacts DEF Cut
  <2>3. \A g \in DOMAIN groups : groups'[g].items # <<>>
    BY <1>6, <1>11, <2>2
  <2>4. \A g \in DOMAIN groups : Range(groups'[g].items) \subseteq Range(items)
    BY <1>3, <1>13, <2>2
  <2> QED  BY <1>6, <2>1, <2>3, <2>4 DEF Cut
<1>15. TypeInv'
  <2>1. idx' \in 1 .. (Len(items) + 1)
    BY <1>1, <1>2, TypeFacts
  <2>2. consumed' = {}
    BY <1>2, <1>8
  <2>3. Cut(items, merged') /\ Cut(items, deferred') /\ Range(parallel_items') = {}
    BY <1>2, <1>8, EmptyLists
  <2>4. pc' # "join"
    BY <1>2
  <2> QED  BY <1>1, <1>2, <1>14, <2>1, <2>2, <2>3, <2>4 DEF TypeInv, Cut
<1>16. BuildInv'
  <2>1. \A y : y \in Content(groups') <=> y \in Content(groups) \cup {x}
    <3> TAKE y
    <3>1. y \in Content(groups') <=> \E g \in DOMAIN groups : y \in Range(groups'[g].items)
      BY <1>6, ContentMember
    <3>2. y \in Content(groups) <=> \E g \in DOMAIN groups : y \in Range(groups[g].items)
      BY ContentMember
    <3> QED  BY <1>4, <1>13, <3>1, <3>2
  <2>2. {items[n] : n \in 1 .. (idx' - 1)} = {items[n] : n \in 1 .. (idx - 1)} \cup {x}
    <3>1. 1 .. (idx' - 1) = 1 .. (idx - 1) \cup {idx}
      BY <1>1, <1>2, TypeFacts
    <3> QED  BY <3>1 DEF x
  <2>3. Content(groups') = {items[n] : n \in 1 .. (idx' - 1)}
    <3>1. Content(groups) = {items[n] : n \in 1 .. (idx - 1)}
      BY <1>1, <1>2 DEF BuildInv
    <3>2. Content(groups') = Content(groups) \cup {x}
      BY <2>1
    <3> QED  BY <2>2, <3>1, <3>2
  <2>4. OwnKeys(GroupKeys, groups')
    <3>1. OwnKeys(GroupKeys, groups)
      BY <1>1 DEF BuildInv
    <3>2. \A g \in DOMAIN groups : groups'[g].key = groups[g].key
      BY <1>6, <1>11
    <3> QED  BY <1>4, <1>6, <1>13, <3>1, <3>2 DEF OwnKeys
  <2>5. \A g \in DOMAIN groups : \A y \in Range(groups[g].items) : Earlier(items, y, x)
    BY <1>9, ContentMember
  <2>6. Follows(items, groups)
    BY <1>1 DEF BuildInv
  <2>7. \A g \in DOMAIN groups : InOrder(items, groups'[g].items)
    <3>1. InOrder(items, Append(its, x))
      <4>1. InOrder(items, its) /\ \A y \in Range(its) : Earlier(items, y, x)
        BY <1>4, <1>12, <2>5, <2>6 DEF Follows
      <4> QED  BY <1>3, <1>5, <4>1, InOrderAppend
    <3> QED  BY <1>6, <1>11, <2>6, <3>1 DEF Follows
  <2>8. \A g, h \in DOMAIN groups : g < h => Apart(items, groups'[g].items, groups'[h].items)
    <3> SUFFICES ASSUME NEW g \in DOMAIN groups, NEW h \in DOMAIN groups, g < h,
                        NEW y \in Range(groups'[g].items), NEW z \in Range(groups'[h].items)
                 PROVE  Earlier(items, y, z)
      BY DEF Apart
    <3>1. g # last
      BY <1>10
    <3>2. y \in Range(groups[g].items)
      BY <1>13, <3>1
    <3>3. z \in Range(groups[h].items) \/ z = x
      BY <1>13
    <3> QED  BY <2>5, <2>6, <3>2, <3>3 DEF Follows, Apart
  <2>9. Follows(items, groups')
    BY <1>6, <2>7, <2>8 DEF Follows
  <2> QED  BY <1>2, <1>7, <2>3, <2>4, <2>9 DEF BuildInv
<1>17. (JoinInv /\ CoverInv /\ KeyInv /\ MergeInv /\ OrderInv /\ PackageInv)'
  <2>1. /\ pc' = "build" /\ merged' = <<>> /\ consumed' = {}
        /\ parallel_items' = <<>> /\ deferred' = <<>>
    BY <1>2, <1>8
  <2> QED  BY <2>1, EmptyLists DEF JoinInv, CoverInv, KeyInv, MergeInv, OrderInv, PackageInv
<1> QED  BY <1>15, <1>16, <1>17 DEF Inv

(* All items are cut: groups are merged if a package is in fragments.      *)
LEMMA InvStartMerge ==
  ASSUME Inv, StartMerge
  PROVE  Inv'
<1>1. TypeInv /\ BuildInv /\ JoinInv
  BY DEF Inv
<1>2. /\ pc = "build" /\ idx > Len(items) /\ idx' = 1
      /\ IF fragmented = {} THEN merged' = groups /\ pc' = "done"
                            ELSE merged' = merged /\ pc' = "merge"
      /\ UNCHANGED <<marks, items, groups, consumed, j, parallel_items, deferred>>
  BY DEF StartMerge, inner
<1>3. GroupKeys' = GroupKeys
  BY <1>2, GroupKeysFrame
<1>4. merged = <<>> /\ consumed = {} /\ parallel_items = <<>> /\ deferred = <<>>
  BY <1>1, <1>2 DEF JoinInv
<1>5. Content(groups) = Range(items)
  <2>1. idx - 1 = Len(items)
    BY <1>1, <1>2, TypeFacts DEF TypeInv
  <2> QED  BY <1>1, <1>2, <2>1, TypeFacts DEF BuildInv, Range
<1>6. Cut(items, groups) /\ groups \in Seq(Groups) /\ Len(groups) \in Nat
  BY <1>1, TypeFacts
<1>7. OwnKeys(GroupKeys, groups) /\ Follows(items, groups)
  BY <1>1 DEF BuildInv
<1>8. merged' = groups \/ merged' = <<>>
  BY <1>2, <1>4
<1>9. TypeInv'
  <2>1. idx' \in 1 .. (Len(groups') + 1) /\ pc' \in {"merge", "done"} /\ consumed' = {}
    BY <1>2, <1>4, <1>6
  <2>2. Cut(items, merged') /\ Cut(items, groups') /\ Cut(items, deferred')
        /\ Range(parallel_items') = {}
    BY <1>2, <1>4, <1>6, <1>8, EmptyLists
  <2> QED  BY <1>1, <1>2, <2>1, <2>2 DEF TypeInv, Cut
<1>10. BuildInv'
  <2>1. pc' # "build"
    BY <1>2
  <2> QED  BY <1>2, <1>3, <1>5, <1>7, <2>1 DEF BuildInv
<1>11. JoinInv'
  <2>1. pc' \notin {"build", "join"}
    BY <1>2
  <2> QED  BY <1>2, <1>4, <2>1 DEF JoinInv
<1>12. CoverInv'
  <2>1. CASE pc' = "done"
    <3>1. merged' = groups
      BY <1>2, <2>1
    <3> QED  BY <1>2, <1>5, <2>1, <3>1 DEF CoverInv
  <2>2. CASE pc' = "merge"
    <3>1. \A g \in DOMAIN groups : ~ (g < 1)
      BY <1>6
    <3>2. \A g \in DOMAIN groups : ~Gone(g)'
      BY <1>2, <1>4, <3>1 DEF Gone
    <3> QED  BY <1>2, <2>2, <3>2 DEF CoverInv
  <2> QED  BY <1>2, <2>1, <2>2
<1>13. KeyInv'
  BY <1>2, <1>3, <1>4, <1>7, <1>8, EmptyLists DEF KeyInv
<1>14. MergeInv'
  <2> SUFFICES ASSUME pc' = "merge" PROVE (ForwardInv /\ MergedInv /\ InnerInv)'
    BY <1>2 DEF MergeInv
  <2>1. merged' = <<>> /\ consumed' = {} /\ 1 .. (idx' - 1) = {} /\ DOMAIN merged' = {}
    BY <1>2, <1>4
  <2> QED  BY <2>1 DEF ForwardInv, MergedInv, InnerInv
<1>15. OrderInv'
  <2>1. KeysFollow(items, groups)
    BY <1>7 DEF Follows, KeysFollow
  <2> QED  BY <1>2, <1>8, <2>1, EmptyLists DEF OrderInv
<1>16. PackageInv'
  <2>1. CASE fragmented = {}
    <3>1. PackagesOnce(groups)
      <4> SUFFICES ASSUME NEW g \in DOMAIN groups, NEW h \in DOMAIN groups,
                          IsPackageKey(groups[g].key), groups[g].key = groups[h].key
                   PROVE  g = h
        BY DEF PackagesOnce
      <4>1. groups[g].key \notin SplitKeys(groups)
        BY <2>1, SplitOfGroups
      <4>2. ~ (g < h) /\ ~ (h < g)
        BY <1>6, <4>1, SplitFacts
      <4>3. g \in Nat /\ h \in Nat
        BY <1>6
      <4> QED  BY <4>2, <4>3
    <3> QED  BY <1>2, <2>1, <3>1 DEF PackageInv
  <2>2. CASE fragmented # {}
    BY <1>2, <1>4, <2>2, EmptyLists DEF PackageInv
  <2> QED  BY <2>1, <2>2
<1> QED  BY <1>9, <1>10, <1>11, <1>12, <1>13, <1>14, <1>15, <1>16 DEF Inv

(* The merge leaves the groups alone that were cut.                        *)
LEMMA BuildKept ==
  ASSUME BuildInv, pc # "build", pc' # "build", UNCHANGED <<marks, items, groups>>
  PROVE  BuildInv'
  BY GroupKeysFrame DEF BuildInv

(* Before a group that is not consumed nothing is consumed but what lies   *)
(* behind the loop index.                                                  *)
LEMMA NothingAhead ==
  ASSUME TypeInv, ForwardInv, pc = "merge", idx \notin consumed
  PROVE  /\ \A h \in consumed : h < idx
         /\ \A g \in DOMAIN groups : Source(g) <=> g < idx
<1>1. \A h \in consumed : h \in Nat /\ idx \in Nat
  BY TypeFacts DEF TypeInv
<1>2. ASSUME NEW h \in consumed PROVE h < idx
  <2> SUFFICES ASSUME ~ (h < idx) PROVE FALSE
    OBVIOUS
  <2>1. PICK key \in SplitKeys(groups) :
          /\ FirstOf(groups, key) < idx /\ h \in Span(groups, key)
          /\ Span(groups, key) \subseteq consumed
    BY DEF ForwardInv, Joined
  <2>2. FirstOf(groups, key) \in Nat /\ FinalOf(groups, key) \in Nat
    BY TypeFacts, SplitSpan
  <2>3. idx \in Span(groups, key)
    BY <1>1, <2>1, <2>2 DEF Span
  <2> QED  BY <2>1, <2>3
<1> QED  BY <1>2 DEF Source

(* A consumed group is passed over.                                        *)
LEMMA InvSkipConsumed ==
  ASSUME Inv, SkipConsumed
  PROVE  Inv'
<1>1. TypeInv /\ BuildInv /\ JoinInv
  BY DEF Inv
<1>2. /\ pc = "merge" /\ idx \in DOMAIN groups /\ idx \in consumed
      /\ idx' = idx + 1 /\ pc' = "merge" /\ parallel_items' = <<>> /\ deferred' = <<>>
      /\ UNCHANGED <<marks, items, groups, j, merged, consumed>>
  BY DEF SkipConsumed, Advance
<1>3. parallel_items = <<>> /\ deferred = <<>>
  BY <1>1, <1>2 DEF JoinInv
<1>4. idx \in Nat \ {0} /\ DOMAIN groups = 1 .. Len(groups) /\ Len(groups) \in Nat
  BY <1>1, TypeFacts
<1>5. TypeInv'
  <2>1. idx' \in 1 .. (Len(groups) + 1)
    BY <1>2, <1>4
  <2> QED  BY <1>1, <1>2, <1>3, <2>1 DEF TypeInv
<1>6. BuildInv'
  BY <1>1, <1>2, BuildKept
<1>7. JoinInv'
  BY <1>2 DEF JoinInv
<1>8. \A g \in DOMAIN groups : Gone(g)' <=> Gone(g)
  BY <1>2, <1>4 DEF Gone
<1>9. CoverInv'
  BY <1>2, <1>3, <1>8 DEF Inv, CoverInv
<1>10. KeyInv'
  BY <1>2, <1>3, GroupKeysFrame DEF Inv, KeyInv
<1>11. MergeInv'
  <2> SUFFICES ASSUME ~Crosses(groups) PROVE (ForwardInv /\ MergedInv /\ InnerInv)'
    BY <1>2 DEF MergeInv
  <2>1. ForwardInv /\ MergedInv
    BY <1>2 DEF Inv, MergeInv
  <2>2. ForwardInv'
    <3>1. \A key \in SplitKeys(groups) : FirstOf(groups, key) \in Nat
      BY <1>1, TypeFacts, SplitSpan
    <3>2. ASSUME NEW h \in consumed PROVE Joined(h)'
      <4>1. Joined(h)
        BY <1>2, <2>1 DEF ForwardInv
      <4> QED  BY <1>2, <1>4, <3>1, <4>1 DEF Joined
    <3>3. \A g \in 1 .. idx : groups[g].key \in SplitKeys(groups) => g \in consumed
      BY <1>2, <1>4, <2>1 DEF ForwardInv
    <3> QED  BY <1>2, <1>4, <3>2, <3>3 DEF ForwardInv
  <2>3. MergedInv'
    <3>1. \A g \in DOMAIN groups : Source(g) => Source(g)'
      BY <1>2, <1>4 DEF Source
    <3> QED  BY <1>2, <2>1, <3>1 DEF MergedInv
  <2>4. InnerInv'
    BY <1>2 DEF InnerInv
  <2> QED  BY <2>2, <2>3, <2>4
<1>12. OrderInv' /\ PackageInv'
  BY <1>2 DEF Inv, OrderInv, PackageInv
<1> QED  BY <1>5, <1>6, <1>7, <1>9, <1>10, <1>11, <1>12 DEF Inv

(* A group that is not in fragments is kept as it is.                      *)
LEMMA InvKeepGroup ==
  ASSUME Inv, KeepGroup
  PROVE  Inv'
<1> DEFINE e == groups[idx]
<1>1. TypeInv /\ BuildInv /\ JoinInv
  BY DEF Inv
<1>2. /\ pc = "merge" /\ idx \in DOMAIN groups /\ idx \notin consumed
      /\ groups[idx].key \notin fragmented /\ merged' = Append(merged, e)
      /\ idx' = idx + 1 /\ pc' = "merge" /\ parallel_items' = <<>> /\ deferred' = <<>>
      /\ UNCHANGED <<marks, items, groups, j, consumed>>
  BY DEF KeepGroup, Advance
<1>3. parallel_items = <<>> /\ deferred = <<>>
  BY <1>1, <1>2 DEF JoinInv
<1>4. idx \in Nat \ {0} /\ DOMAIN groups = 1 .. Len(groups) /\ Len(groups) \in Nat
  BY <1>1, TypeFacts
<1>5. e \in Groups /\ groups \in Seq(Groups) /\ merged \in Seq(Groups) /\ Cut(items, merged)
  BY <1>1, <1>2, TypeFacts
<1>6. Cut(items, merged')
  <2>1. e.items # <<>> /\ Range(e.items) \subseteq Range(items)
    BY <1>1, <1>2, TypeFacts DEF Cut
  <2> QED  BY <1>2, <1>5, <2>1, CutAppend
<1>7. TypeInv'
  <2>1. idx' \in 1 .. (Len(groups) + 1)
    BY <1>2, <1>4
  <2> QED  BY <1>1, <1>2, <1>3, <1>6, <2>1 DEF TypeInv, Cut
<1>8. BuildInv'
  BY <1>1, <1>2, BuildKept
<1>9. JoinInv'
  BY <1>2 DEF JoinInv
<1>10. \A g \in DOMAIN groups : Gone(g)' <=> Gone(g) \/ g = idx
  BY <1>2, <1>4 DEF Gone
<1>11. CoverInv'
  <2>1. Content(merged') = Content(merged) \cup Range(e.items)
    BY <1>2, <1>5, ContentOfAppend
  <2>2. \A g \in DOMAIN groups : Gone(g) => Range(groups[g].items) \subseteq Content(merged)
    BY <1>2, <1>3, EmptyLists DEF Inv, CoverInv
  <2>3. \A g \in DOMAIN groups : Gone(g)' => Range(groups[g].items) \subseteq Content(merged')
    BY <1>10, <2>1, <2>2
  <2> QED  BY <1>2, <2>3 DEF CoverInv
<1>12. \A i \in Range(e.items) : GroupKeys[i] = e.key
  BY <1>1, <1>2 DEF BuildInv, OwnKeys
<1>13. KeyInv'
  <2>1. OwnKeys(GroupKeys, merged')
    BY <1>2, <1>5, <1>12, OwnKeysAppend DEF Inv, KeyInv
  <2> QED  BY <1>2, <2>1, GroupKeysFrame, EmptyLists DEF KeyInv
<1>14. ASSUME ~Crosses(groups)
       PROVE  /\ ForwardInv /\ MergedInv
              /\ \A g \in DOMAIN groups : Source(g) <=> g < idx
  BY <1>1, <1>2, <1>14, NothingAhead DEF Inv, MergeInv
<1>15. MergeInv'
  <2> SUFFICES ASSUME ~Crosses(groups) PROVE (ForwardInv /\ MergedInv /\ InnerInv)'
    BY <1>2 DEF MergeInv
  <2>1. ForwardInv'
    <3>1. \A key \in SplitKeys(groups) : FirstOf(groups, key) \in Nat
      BY <1>1, TypeFacts, SplitSpan
    <3>2. ASSUME NEW h \in consumed PROVE Joined(h)'
      <4>1. Joined(h)
        BY <1>2, <1>14 DEF ForwardInv
      <4> QED  BY <1>2, <1>4, <3>1, <4>1 DEF Joined
    <3>3. \A g \in 1 .. idx : groups[g].key \in SplitKeys(groups) => g \in consumed
      <4>1. groups[idx].key \notin SplitKeys(groups)
        BY <1>2, SplitOfGroups
      <4> QED  BY <1>2, <1>4, <1>14, <4>1 DEF ForwardInv
    <3> QED  BY <1>2, <1>4, <3>2, <3>3 DEF ForwardInv
  <2>2. MergedInv'
    <3>1. \A g \in DOMAIN groups : g = idx \/ Source(g) => Source(g)'
      BY <1>2, <1>4 DEF Source
    <3>2. \A a \in DOMAIN merged' : \/ a \in DOMAIN merged /\ merged'[a] = merged[a]
                                    \/ merged'[a] = e
      BY <1>2, <1>5, AppendMembers
    <3>3. ASSUME NEW a \in DOMAIN merged'
          PROVE  /\ \A x \in Range(merged'[a].items) :
                      \E g \in DOMAIN groups : Source(g)' /\ x \in Range(groups[g].items)
                 /\ \E g \in DOMAIN groups : Source(g)' /\ groups[g].key = merged'[a].key
      <4>1. CASE a \in DOMAIN merged /\ merged'[a] = merged[a]
        BY <1>14, <3>1, <4>1 DEF MergedInv
      <4>2. CASE merged'[a] = e
        BY <1>2, <3>1, <4>2
      <4> QED  BY <3>2, <4>1, <4>2
    <3> QED  BY <1>2, <3>3 DEF MergedInv
  <2>3. InnerInv'
    BY <1>2 DEF InnerInv
  <2> QED  BY <2>1, <2>2, <2>3
<1>16. OrderInv'
  <2> SUFFICES ASSUME ~Crosses(groups) PROVE KeysFollow(items, merged')
    BY <1>2 DEF OrderInv
  <2>1. KeysFollow(items, merged)
    BY <1>2 DEF Inv, OrderInv
  <2>2. Follows(items, groups)
    BY <1>1 DEF BuildInv
  <2>3. \A a \in DOMAIN merged : Apart(items, merged[a].items, e.items)
    <3> SUFFICES ASSUME NEW a \in DOMAIN merged, NEW x \in Range(merged[a].items),
                        NEW y \in Range(e.items)
                 PROVE  Earlier(items, x, y)
      BY DEF Apart
    <3>1. PICK g \in DOMAIN groups : Source(g) /\ x \in Range(groups[g].items)
      BY <1>14 DEF MergedInv
    <3>2. g < idx
      BY <1>14, <3>1
    <3> QED  BY <1>2, <2>2, <3>1, <3>2 DEF Follows, Apart
  <2>4. InOrder(items, e.items)
    BY <1>2, <2>2 DEF Follows
  <2> QED  BY <1>2, <1>5, <2>1, <2>3, <2>4, KeysFollowAppend
<1>17. PackageInv'
  <2> SUFFICES ASSUME ~Crosses(groups), ~Nests(groups) PROVE PackagesOnce(merged')
    BY <1>2 DEF PackageInv
  <2>1. PackagesOnce(merged)
    BY <1>2 DEF Inv, PackageInv
  <2>2. ASSUME IsPackageKey(e.key), NEW a \in DOMAIN merged, merged[a].key = e.key
        PROVE  FALSE
    <3>1. PICK g \in DOMAIN groups : Source(g) /\ groups[g].key = e.key
      BY <1>14, <2>2 DEF MergedInv
    <3>2. g < idx
      BY <1>14, <3>1
    <3>3. e.key \in SplitKeys(groups)
      BY <1>2, <1>5, <2>2, <3>1, <3>2, SplitFacts
    <3> QED  BY <1>2, <3>3, SplitOfGroups
  <2> QED  BY <1>2, <1>5, <2>1, <2>2, PackagesOnceAppend
<1> QED  BY <1>7, <1>8, <1>9, <1>11, <1>13, <1>15, <1>16, <1>17 DEF Inv

(* A package in fragments: unless packages cross, its first is here.       *)
LEMMA InvStartJoin ==
  ASSUME Inv, StartJoin
  PROVE  Inv'
<1> DEFINE key == groups[idx].key
           first == FirstOf(groups, key)
           final == FinalOf(groups, key)
<1>1. TypeInv /\ BuildInv /\ JoinInv
  BY DEF Inv
<1>2. /\ pc = "merge" /\ idx \in DOMAIN groups /\ idx \notin consumed
      /\ key \in fragmented /\ pc' = "join" /\ j' = First(key)
      /\ parallel_items' = <<>> /\ deferred' = <<>>
      /\ UNCHANGED <<marks, items, idx, groups, merged, consumed>>
  BY DEF StartJoin
<1>3. parallel_items = <<>> /\ deferred = <<>>
  BY <1>1, <1>2 DEF JoinInv
<1>4. /\ idx \in Nat \ {0} /\ DOMAIN groups = 1 .. Len(groups) /\ Len(groups) \in Nat
      /\ groups \in Seq(Groups)
  BY <1>1, TypeFacts
<1>5. key \in SplitKeys(groups) /\ j' = first
  BY <1>2, SplitOfGroups
<1>6. /\ first \in DOMAIN groups /\ groups[first].key = key /\ final \in DOMAIN groups
      /\ first < final /\ first <= idx /\ idx <= final
      /\ groups[final].key = key
  BY <1>2, <1>4, <1>5, SplitSpan
<1> HIDE DEF key, first, final
<1>7. TypeInv'
  <2>1. j' \in 1 .. (Len(groups') + 1) /\ idx' \in DOMAIN groups'
    BY <1>2, <1>4, <1>5, <1>6
  <2> QED  BY <1>1, <1>2, <1>3, <2>1 DEF TypeInv
<1>8. BuildInv'
  BY <1>1, <1>2, BuildKept
<1>9. JoinInv'
  <2>1. first .. (j' - 1) = {}
    BY <1>4, <1>5, <1>6
  <2>2. j' \in first .. (final + 1) /\ ~ (j' > first)
    BY <1>4, <1>5, <1>6
  <2>3. Range(parallel_items') = {} /\ parallel_items' \in Seq(Items) /\ DOMAIN deferred' = {}
    BY <1>2, RangeOfEmpty
  <2> QED  BY <1>2, <1>5, <2>1, <2>2, <2>3 DEF JoinInv, key, first, final
<1>10. CoverInv'
  BY <1>2, <1>3 DEF Inv, CoverInv, Gone
<1>11. KeyInv'
  BY <1>2, <1>3, GroupKeysFrame DEF Inv, KeyInv
<1>12. MergeInv'
  <2> SUFFICES ASSUME ~Crosses(groups) PROVE (ForwardInv /\ MergedInv /\ InnerInv)'
    BY <1>2 DEF MergeInv
  <2>1. ForwardInv /\ MergedInv
    BY <1>2 DEF Inv, MergeInv
  <2>2. /\ \A h \in consumed : h < idx
        /\ \A g \in DOMAIN groups : Source(g) <=> g < idx
    BY <1>1, <1>2, <2>1, NothingAhead
  <2>3. first = idx
    <3> SUFFICES ASSUME first < idx PROVE FALSE
      BY <1>4, <1>6
    <3>1. first \in consumed
      BY <1>4, <1>5, <1>6, <2>1 DEF ForwardInv
    <3>2. PICK other \in SplitKeys(groups) :
            /\ FirstOf(groups, other) < idx
            /\ first \in Span(groups, other) /\ Span(groups, other) \subseteq consumed
      BY <1>2, <2>1, <3>1 DEF ForwardInv, Joined
    <3> DEFINE f == FirstOf(groups, other)
               l == FinalOf(groups, other)
    <3>3. /\ f \in DOMAIN groups /\ groups[f].key = other
          /\ l \in DOMAIN groups /\ groups[l].key = other
      BY <1>4, <3>2, SplitSpan
    <3>4. f <= first /\ first <= l /\ ~ (idx <= l)
      <4>1. \A h \in f .. l : h \in consumed
        BY <3>2 DEF Span
      <4>2. f <= first /\ first <= l
        BY <3>2, <3>3, <1>4 DEF Span
      <4> HIDE DEF f, l
      <4>3. idx \notin f .. l
        BY <1>2, <4>1
      <4> QED  BY <1>4, <1>6, <3>3, <4>2, <4>3
    <3> HIDE DEF f, l
    <3>5. other # key
      <4>1. ASSUME other = key PROVE FALSE
        <5>1. l = final
          BY <4>1 DEF l, final
        <5> QED  BY <1>6, <3>4, <5>1
      <4> QED  BY <4>1
    <3>6. f # first /\ l # first
      BY <1>6, <3>3, <3>5
    <3>7. f < first /\ first < l /\ l < final
      BY <1>4, <1>6, <3>3, <3>4, <3>6
    <3>8. Crosses(groups)
      BY <1>5, <3>2, <3>7 DEF Crosses, f, l, first, final
    <3> QED  BY <3>8
  <2>4. ForwardInv'
    <3>1. \A h \in consumed : Joined(h)'
      BY <1>2, <2>1 DEF ForwardInv, Joined
    <3>2. \A h \in consumed : h < j'
      BY <1>5, <2>2, <2>3
    <3>3. \A g \in 1 .. (idx - 1) : groups[g].key \in SplitKeys(groups) => g \in consumed
      BY <2>1 DEF ForwardInv
    <3> QED  BY <1>2, <2>3, <3>1, <3>2, <3>3 DEF ForwardInv, first, key
  <2>5. MergedInv'
    <3>1. \A g \in DOMAIN groups : Source(g)' <=> Source(g)
      BY <1>2, <2>2 DEF Source
    <3> QED  BY <1>2, <2>1, <3>1 DEF MergedInv
  <2>6. InnerInv'
    <3>1. Range(parallel_items') = {} /\ DOMAIN deferred' = {} /\ InOrder(items', parallel_items')
      BY <1>2, EmptyLists
    <3> QED  BY <3>1 DEF InnerInv
  <2> QED  BY <2>4, <2>5, <2>6
<1>13. OrderInv' /\ PackageInv'
  BY <1>2 DEF Inv, OrderInv, PackageInv
<1> QED  BY <1>7, <1>8, <1>9, <1>10, <1>11, <1>12, <1>13 DEF Inv

(* Facts of the inner loop before it goes over the group at j.             *)
LEMMA JoinFacts ==
  ASSUME TypeInv, JoinInv, pc = "join"
  PROVE  LET key == groups[idx].key
             first == FirstOf(groups, key)
             final == FinalOf(groups, key)
         IN  /\ idx \in DOMAIN groups /\ key \in SplitKeys(groups)
             /\ first \in DOMAIN groups /\ groups[first].key = key
             /\ final \in DOMAIN groups /\ groups[final].key = key
             /\ first < final /\ first <= idx /\ idx <= final
             /\ j \in Nat \ {0} /\ first <= j /\ j <= final + 1
             /\ first .. (j - 1) \subseteq consumed
             /\ j <= final => j \in DOMAIN groups
             /\ \A h \in DOMAIN groups : groups[h].key = key => first <= h /\ h <= final
<1>1. idx \in DOMAIN groups /\ j \in 1 .. (Len(groups) + 1)
  BY DEF TypeInv
<1>2. DOMAIN groups = 1 .. Len(groups) /\ Len(groups) \in Nat /\ groups \in Seq(Groups)
  BY TypeFacts
<1> DEFINE key == groups[idx].key
           first == FirstOf(groups, key)
           final == FinalOf(groups, key)
<1>3. /\ key \in SplitKeys(groups) /\ j \in first .. (final + 1)
      /\ first .. (j - 1) \subseteq consumed
  BY DEF JoinInv
<1>4. /\ first \in DOMAIN groups /\ groups[first].key = key
      /\ final \in DOMAIN groups /\ groups[final].key = key
      /\ first < final
      /\ \A h \in DOMAIN groups : groups[h].key = key => first <= h /\ h <= final
  BY <1>2, <1>3, SplitSpan
<1>5. j \in Nat \ {0} /\ first \in Nat /\ final \in Nat
  BY <1>1, <1>2, <1>4
<1>6. first <= j /\ j <= final + 1
  <2> HIDE DEF key, first, final
  <2> QED  BY <1>3, <1>5
<1>7. j <= final => j \in DOMAIN groups
  <2> HIDE DEF key, first, final
  <2> QED  BY <1>2, <1>4, <1>5
<1>8. first <= idx /\ idx <= final
  BY <1>1, <1>4
<1> QED  BY <1>1, <1>3, <1>4, <1>5, <1>6, <1>7, <1>8

(* What going over the group at j does, whether it is taken or deferred.   *)
LEMMA ConsumeFacts ==
  ASSUME Inv, Consume
  PROVE  /\ j \in DOMAIN groups /\ j \in Nat \ {0} /\ FirstOf(groups, groups[idx].key) <= j
         /\ groups[j] \in Groups /\ groups[j].items \in Seq(Items) /\ groups[j].items # <<>>
         /\ Range(groups[j].items) \subseteq Range(items)
         /\ \A i \in Range(groups[j].items) : GroupKeys[i] = groups[j].key
         /\ BuildInv' /\ OrderInv' /\ PackageInv'
         /\ consumed' \subseteq DOMAIN groups
         /\ j' \in 1 .. (Len(groups) + 1)
         /\ j' \in FirstOf(groups, groups[idx].key) .. (FinalOf(groups, groups[idx].key) + 1)
         /\ FirstOf(groups, groups[idx].key) .. (j' - 1) \subseteq consumed'
         /\ \A g \in DOMAIN groups : Gone(g)' <=> Gone(g) \/ g = j
         /\ ~Crosses(groups) => /\ FirstOf(groups, groups[idx].key) = idx
                                /\ ForwardInv' /\ MergedInv'
<1> DEFINE key == groups[idx].key
           first == FirstOf(groups, key)
           final == FinalOf(groups, key)
<1>1. TypeInv /\ BuildInv /\ JoinInv
  BY DEF Inv
<1>2. /\ pc = "join" /\ j <= Final(groups[idx].key)
      /\ consumed' = consumed \cup {j} /\ j' = j + 1
      /\ UNCHANGED <<marks, items, pc, idx, groups, merged>>
  BY DEF Consume
<1>3. Final(groups[idx].key) = final
  BY SplitOfGroups
<1>4. /\ idx \in DOMAIN groups /\ key \in SplitKeys(groups)
      /\ first \in DOMAIN groups /\ final \in DOMAIN groups
      /\ first <= j /\ j <= final /\ j \in DOMAIN groups /\ j \in Nat \ {0}
      /\ first .. (j - 1) \subseteq consumed
  BY <1>1, <1>2, <1>3, JoinFacts
<1>5. DOMAIN groups = 1 .. Len(groups) /\ Len(groups) \in Nat
  BY <1>1, TypeFacts
<1>6. /\ groups[j] \in Groups /\ groups[j].items \in Seq(Items) /\ groups[j].items # <<>>
      /\ Range(groups[j].items) \subseteq Range(items)
  BY <1>1, <1>4, TypeFacts DEF Cut
<1>7. \A i \in Range(groups[j].items) : GroupKeys[i] = groups[j].key
  BY <1>1, <1>4 DEF BuildInv, OwnKeys
<1>8. BuildInv'
  BY <1>1, <1>2, BuildKept
<1>9. OrderInv' /\ PackageInv'
  BY <1>2 DEF Inv, OrderInv, PackageInv
<1>10. consumed' \subseteq DOMAIN groups
  BY <1>1, <1>2, <1>4 DEF TypeInv
<1> HIDE DEF key, first, final
<1>11. /\ j' \in 1 .. (Len(groups) + 1) /\ j' \in first .. (final + 1)
       /\ first .. (j' - 1) \subseteq consumed'
  <2>1. first .. (j' - 1) = first .. (j - 1) \cup {j}
    BY <1>2, <1>4, <1>5
  <2> QED  BY <1>2, <1>4, <1>5, <2>1
<1>12. \A g \in DOMAIN groups : Gone(g)' <=> Gone(g) \/ g = j
  BY <1>2 DEF Gone
<1>13. ASSUME ~Crosses(groups)
       PROVE  first = idx /\ ForwardInv' /\ MergedInv'
  <2>1. ForwardInv /\ MergedInv
    BY <1>2, <1>13 DEF Inv, MergeInv
  <2>2. first = idx
    BY <1>2, <2>1 DEF ForwardInv, first, key
  <2>3. ForwardInv'
    <3>1. ASSUME NEW h \in consumed'
          PROVE  (Joined(h)' \/ h \in idx .. (j' - 1)) /\ h < j'
      <4>1. CASE h = j
        BY <1>2, <1>4, <1>5, <2>2, <4>1
      <4>2. CASE h \in consumed
        <5>1. Joined(h) => Joined(h)'
          BY <1>2 DEF Joined
        <5>2. h \in idx .. (j - 1) => h \in idx .. (j' - 1)
          BY <1>2, <1>4, <1>5
        <5>3. h < j /\ h \in Nat
          BY <1>1, <1>2, <1>5, <2>1, <4>2 DEF ForwardInv, TypeInv
        <5>4. h < j'
          BY <1>2, <1>4, <5>3
        <5> QED  BY <1>2, <2>1, <4>2, <5>1, <5>2, <5>4 DEF ForwardInv
      <4> QED  BY <1>2, <3>1, <4>1, <4>2
    <3>2. \A g \in 1 .. (idx - 1) : groups[g].key \in SplitKeys(groups) => g \in consumed'
      BY <1>2, <2>1 DEF ForwardInv
    <3> QED  BY <1>2, <2>2, <3>1, <3>2 DEF ForwardInv, first, key
  <2>4. MergedInv'
    <3>1. \A g \in DOMAIN groups : Source(g)' <=> Source(g)
      BY <1>2 DEF Source
    <3> QED  BY <1>2, <2>1, <3>1 DEF MergedInv
  <2> QED  BY <2>2, <2>3, <2>4
<1> QED  BY <1>4, <1>6, <1>7, <1>8, <1>9, <1>10, <1>11, <1>12, <1>13 DEF first, final, key

(* A fragment of the package is taken ...                                  *)
LEMMA InvTakeFragment ==
  ASSUME Inv, TakeFragment
  PROVE  Inv'
<1> DEFINE key == groups[idx].key
           first == FirstOf(groups, key)
           final == FinalOf(groups, key)
           its == groups[j].items
<1>1. TypeInv /\ BuildInv /\ JoinInv
  BY DEF Inv
<1>2. Consume /\ groups[j].key = key /\ parallel_items' = parallel_items \o its
      /\ deferred' = deferred
  BY DEF TakeFragment
<1>3. /\ pc = "join" /\ consumed' = consumed \cup {j} /\ j' = j + 1
      /\ UNCHANGED <<marks, items, pc, idx, groups, merged>>
  BY <1>2 DEF Consume
<1>4. /\ j \in DOMAIN groups /\ j \in Nat \ {0} /\ first <= j
      /\ its \in Seq(Items) /\ its # <<>> /\ Range(its) \subseteq Range(items)
      /\ \A i \in Range(its) : GroupKeys[i] = key
      /\ BuildInv' /\ OrderInv' /\ PackageInv'
      /\ consumed' \subseteq DOMAIN groups /\ j' \in 1 .. (Len(groups) + 1)
      /\ j' \in first .. (final + 1) /\ first .. (j' - 1) \subseteq consumed'
      /\ \A g \in DOMAIN groups : Gone(g)' <=> Gone(g) \/ g = j
      /\ ~Crosses(groups) => first = idx /\ ForwardInv' /\ MergedInv'
  BY <1>2, ConsumeFacts
<1>5. /\ parallel_items \in Seq(Items) /\ key \in SplitKeys(groups)
      /\ \A i \in Range(parallel_items) : GroupKeys[i] = key
      /\ \A a \in DOMAIN deferred : deferred[a].key # key
  BY <1>1, <1>3 DEF JoinInv
<1> HIDE DEF its, key, first, final
<1>6. /\ parallel_items' \in Seq(Items) /\ parallel_items' # <<>>
      /\ Range(parallel_items') = Range(parallel_items) \cup Range(its)
  <2>1. parallel_items' \in Seq(Items) /\ parallel_items' # <<>>
    BY <1>2, <1>4, <1>5
  <2> QED  BY <1>2, <1>4, <1>5, <2>1, RangeOfConcat
<1>7. GroupKeys' = GroupKeys
  BY <1>3, GroupKeysFrame
<1>8. TypeInv'
  <2>1. Range(parallel_items') \subseteq Range(items)
    BY <1>1, <1>4, <1>6 DEF TypeInv
  <2> QED  BY <1>1, <1>2, <1>3, <1>4, <2>1 DEF TypeInv
<1>9. JoinInv'
  <2>1. \A i \in Range(parallel_items') : GroupKeys[i] = key
    BY <1>4, <1>5, <1>6
  <2> QED  BY <1>2, <1>3, <1>4, <1>5, <1>6, <1>7, <2>1 DEF JoinInv, key, first, final
<1>10. CoverInv'
  <2>1. \A g \in DOMAIN groups : Gone(g) => Range(groups[g].items) \subseteq
          Content(merged) \cup Range(parallel_items) \cup Content(deferred)
    BY <1>3 DEF Inv, CoverInv
  <2>2. \A g \in DOMAIN groups : Gone(g)' => Range(groups[g].items) \subseteq
          Content(merged) \cup Range(parallel_items') \cup Content(deferred)
    BY <1>4, <1>6, <2>1 DEF its
  <2> QED  BY <1>2, <1>3, <2>2 DEF CoverInv
<1>11. KeyInv'
  BY <1>2, <1>3, <1>7 DEF Inv, KeyInv
<1>12. MergeInv'
  <2> SUFFICES ASSUME ~Crosses(groups) PROVE InnerInv'
    BY <1>3, <1>4 DEF MergeInv
  <2>1. InnerInv
    BY <1>3 DEF Inv, MergeInv
  <2>2. first = idx
    BY <1>4
  <2>3. \A g \in idx .. (j - 1) : g \in idx .. (j' - 1) /\ g < j /\ g \in DOMAIN groups
    <3>1. DOMAIN groups = 1 .. Len(groups) /\ Len(groups) \in Nat /\ idx \in Nat \ {0}
      BY <1>1, TypeFacts
    <3> QED  BY <1>3, <1>4, <3>1
  <2>4. j \in idx .. (j' - 1)
    BY <1>1, <1>3, <1>4, <2>2, TypeFacts
  <2>5. InOrder(items, parallel_items')
    <3>1. InOrder(items, its)
      BY <1>1, <1>4 DEF BuildInv, Follows, its
    <3>2. Apart(items, parallel_items, its)
      <4> SUFFICES ASSUME NEW x \in Range(parallel_items), NEW y \in Range(its)
                   PROVE  Earlier(items, x, y)
        BY DEF Apart
      <4>1. PICK g \in idx .. (j - 1) : x \in Range(groups[g].items)
        BY <1>3, <2>1 DEF InnerInv
      <4> QED  BY <1>1, <1>4, <2>3, <4>1 DEF BuildInv, Follows, Apart, its
    <3>3. InOrder(items, parallel_items)
      BY <1>3, <2>1 DEF InnerInv
    <3> QED  BY <1>2, <1>4, <1>5, <3>1, <3>2, <3>3, InOrderConcat
  <2>6. ASSUME NEW x \in Range(parallel_items')
        PROVE  \E g \in idx .. (j' - 1) : x \in Range(groups[g].items)
    <3>1. CASE x \in Range(its)
      BY <2>4, <3>1 DEF its
    <3>2. CASE x \in Range(parallel_items)
      BY <1>3, <2>1, <2>3, <3>2 DEF InnerInv
    <3> QED  BY <1>6, <2>6, <3>1, <3>2
  <2>7. /\ \A a \in DOMAIN deferred : \E g \in idx .. (j' - 1) : deferred[a] = groups[g]
        /\ \A a, b \in DOMAIN deferred : a < b =>
             \E g, h \in idx .. (j' - 1) :
               g < h /\ deferred[a] = groups[g] /\ deferred[b] = groups[h]
    BY <1>3, <2>1, <2>3 DEF InnerInv
  <2> QED  BY <1>2, <1>3, <2>5, <2>6, <2>7 DEF InnerInv
<1> QED  BY <1>4, <1>8, <1>9, <1>10, <1>11, <1>12 DEF Inv

(* ... and any other group is deferred.                                    *)
LEMMA InvDefer ==
  ASSUME Inv, Defer
  PROVE  Inv'
<1> DEFINE key == groups[idx].key
           first == FirstOf(groups, key)
           final == FinalOf(groups, key)
           e == groups[j]
<1>1. TypeInv /\ BuildInv /\ JoinInv
  BY DEF Inv
<1>2. Consume /\ e.key # key /\ deferred' = Append(deferred, e)
      /\ parallel_items' = parallel_items
  BY DEF Defer
<1>3. /\ pc = "join" /\ consumed' = consumed \cup {j} /\ j' = j + 1
      /\ UNCHANGED <<marks, items, pc, idx, groups, merged>>
  BY <1>2 DEF Consume
<1>4. /\ j \in DOMAIN groups /\ j \in Nat \ {0} /\ first <= j
      /\ e \in Groups /\ e.items # <<>> /\ Range(e.items) \subseteq Range(items)
      /\ \A i \in Range(e.items) : GroupKeys[i] = e.key
      /\ BuildInv' /\ OrderInv' /\ PackageInv'
      /\ consumed' \subseteq DOMAIN groups /\ j' \in 1 .. (Len(groups) + 1)
      /\ j' \in first .. (final + 1) /\ first .. (j' - 1) \subseteq consumed'
      /\ \A g \in DOMAIN groups : Gone(g)' <=> Gone(g) \/ g = j
      /\ ~Crosses(groups) => first = idx /\ ForwardInv' /\ MergedInv'
  BY <1>2, ConsumeFacts
<1>5. /\ parallel_items \in Seq(Items) /\ key \in SplitKeys(groups)
      /\ j > first => parallel_items # <<>>
      /\ \A i \in Range(parallel_items) : GroupKeys[i] = key
      /\ \A a \in DOMAIN deferred : deferred[a].key # key
  BY <1>1, <1>3 DEF JoinInv
<1>6. /\ first \in Nat /\ groups[first].key = key
  BY <1>1, <1>3, JoinFacts, TypeFacts
<1>7. j > first
  <2>1. j # first
    <3> HIDE DEF first
    <3> QED  BY <1>2, <1>6
  <2> HIDE DEF first
  <2> QED  BY <1>4, <1>6, <2>1
<1>8. deferred \in Seq(Groups) /\ Cut(items, deferred)
  BY <1>1, TypeFacts
<1> HIDE DEF e, key, first, final
<1>9. \A a \in DOMAIN deferred' : \/ a \in DOMAIN deferred /\ deferred'[a] = deferred[a]
                                  \/ deferred'[a] = e
  BY <1>2, <1>4, <1>8, AppendMembers
<1>10. GroupKeys' = GroupKeys
  BY <1>3, GroupKeysFrame
<1>11. TypeInv'
  <2>1. Cut(items, deferred')
    BY <1>2, <1>4, <1>8, CutAppend
  <2> QED  BY <1>1, <1>2, <1>3, <1>4, <2>1 DEF TypeInv, Cut
<1>12. JoinInv'
  <2>1. \A a \in DOMAIN deferred' : deferred'[a].key # key
    BY <1>2, <1>5, <1>9
  <2>2. parallel_items # <<>>
    BY <1>5, <1>7
  <2> QED  BY <1>2, <1>3, <1>4, <1>5, <1>10, <2>1, <2>2 DEF JoinInv, key, first, final
<1>13. CoverInv'
  <2>1. \A g \in DOMAIN groups : Gone(g) => Range(groups[g].items) \subseteq
          Content(merged) \cup Range(parallel_items) \cup Content(deferred)
    BY <1>3 DEF Inv, CoverInv
  <2>2. Content(deferred') = Content(deferred) \cup Range(e.items)
    BY <1>2, <1>4, <1>8, ContentOfAppend
  <2>3. \A g \in DOMAIN groups : Gone(g)' => Range(groups[g].items) \subseteq
          Content(merged) \cup Range(parallel_items) \cup Content(deferred')
    BY <1>4, <2>1, <2>2 DEF e
  <2> QED  BY <1>2, <1>3, <2>3 DEF CoverInv
<1>14. KeyInv'
  <2>1. OwnKeys(GroupKeys, deferred')
    BY <1>2, <1>4, <1>8, OwnKeysAppend DEF Inv, KeyInv
  <2> QED  BY <1>3, <1>10, <2>1 DEF Inv, KeyInv
<1>15. MergeInv'
  <2> SUFFICES ASSUME ~Crosses(groups) PROVE InnerInv'
    BY <1>3, <1>4 DEF MergeInv
  <2>1. InnerInv
    BY <1>3 DEF Inv, MergeInv
  <2>2. first = idx
    BY <1>4
  <2>3. \A g \in idx .. (j - 1) : g \in idx .. (j' - 1) /\ g < j
    BY <1>1, <1>3, <1>4, TypeFacts
  <2>4. j \in idx .. (j' - 1)
    BY <1>1, <1>3, <1>4, <2>2, TypeFacts
  <2>5. \A x \in Range(parallel_items) : \E g \in idx .. (j' - 1) : x \in Range(groups[g].items)
    BY <1>3, <2>1, <2>3 DEF InnerInv
  <2>6. \A a \in DOMAIN deferred : \E g \in idx .. (j - 1) : deferred[a] = groups[g]
    BY <1>3, <2>1 DEF InnerInv
  <2>7. \A a \in DOMAIN deferred' : \E g \in idx .. (j' - 1) : deferred'[a] = groups[g]
    BY <1>9, <2>3, <2>4, <2>6 DEF e
  <2>8. ASSUME NEW a \in DOMAIN deferred', NEW b \in DOMAIN deferred', a < b
        PROVE  \E g, h \in idx .. (j' - 1) :
                 g < h /\ deferred'[a] = groups[g] /\ deferred'[b] = groups[h]
    <3>1. \/ a \in DOMAIN deferred /\ b \in DOMAIN deferred
          \/ a \in DOMAIN deferred /\ b = Len(deferred) + 1
      BY <1>2, <1>4, <1>8, <2>8, AppendMembers
    <3>2. /\ \A c \in DOMAIN deferred : deferred'[c] = deferred[c]
          /\ deferred'[Len(deferred) + 1] = e
      BY <1>2, <1>4, <1>8, AppendMembers
    <3>3. CASE a \in DOMAIN deferred /\ b \in DOMAIN deferred
      <4>1. PICK g \in idx .. (j - 1), h \in idx .. (j - 1) :
              g < h /\ deferred[a] = groups[g] /\ deferred[b] = groups[h]
        BY <1>3, <2>1, <2>8, <3>3 DEF InnerInv
      <4> QED  BY <2>3, <3>2, <3>3, <4>1
    <3>4. CASE a \in DOMAIN deferred /\ b = Len(deferred) + 1
      <4>1. PICK g \in idx .. (j - 1) : deferred[a] = groups[g]
        BY <2>6, <3>4
      <4>2. deferred'[b] = groups[j]
        BY <3>2, <3>4 DEF e
      <4> QED  BY <2>3, <2>4, <3>2, <3>4, <4>1, <4>2
    <3> QED  BY <3>1, <3>3, <3>4
  <2> QED  BY <1>2, <1>3, <2>1, <2>5, <2>7, <2>8 DEF InnerInv
<1> QED  BY <1>4, <1>11, <1>12, <1>13, <1>14, <1>15 DEF Inv

(* Unless packages overlap, what is deferred behind a package is not in    *)
(* fragments itself.                                                       *)
LEMMA DeferredWhole ==
  ASSUME NEW gs \in Seq(Groups), ~Crosses(gs), ~Nests(gs),
         NEW key \in SplitKeys(gs), NEW h \in DOMAIN gs,
         FirstOf(gs, key) <= h, h <= FinalOf(gs, key), gs[h].key # key
  PROVE  gs[h].key \notin SplitKeys(gs)
<1> DEFINE other == gs[h].key
           f == FirstOf(gs, key)
           l == FinalOf(gs, key)
           g == FirstOf(gs, other)
           m == FinalOf(gs, other)
<1> SUFFICES ASSUME other \in SplitKeys(gs) PROVE FALSE
  OBVIOUS
<1>1. /\ f \in DOMAIN gs /\ gs[f].key = key /\ l \in DOMAIN gs /\ gs[l].key = key
      /\ g \in DOMAIN gs /\ gs[g].key = other /\ m \in DOMAIN gs /\ gs[m].key = other
      /\ g <= h /\ h <= m
  BY SplitSpan
<1>2. DOMAIN gs \subseteq Nat
  OBVIOUS
<1>3. ~ (f < g /\ g < l /\ l < m) /\ ~ (g < f /\ f < m /\ m < l)
  BY DEF Crosses
<1>4. ~ (f < g /\ m < l) /\ ~ (g < f /\ l < m)
  BY DEF Nests
<1>5. other # key /\ f <= h /\ h <= l
  OBVIOUS
<1> HIDE DEF f, l, g, m, other
<1>6. f # g /\ f # m /\ l # g /\ l # m
  BY <1>1, <1>5
<1> QED  BY <1>1, <1>2, <1>3, <1>4, <1>5, <1>6

(* The joined group and what was deferred are put into the result.         *)
LEMMA InvEndJoin ==
  ASSUME Inv, EndJoin
  PROVE  Inv'
<1> DEFINE key == groups[idx].key
           first == FirstOf(groups, key)
           final == FinalOf(groups, key)
           e == [key |-> key, items |-> parallel_items]
           base == Append(merged, e)
<1>1. TypeInv /\ BuildInv /\ JoinInv
  BY DEF Inv
<1>2. /\ pc = "join" /\ j > Final(groups[idx].key)
      /\ merged' = base \o deferred
      /\ idx' = idx + 1 /\ pc' = "merge" /\ parallel_items' = <<>> /\ deferred' = <<>>
      /\ UNCHANGED <<marks, items, groups, j, consumed>>
  BY DEF EndJoin, Advance
<1>3. /\ idx \in DOMAIN groups /\ key \in SplitKeys(groups)
      /\ first \in DOMAIN groups /\ final \in DOMAIN groups /\ groups[first].key = key
      /\ first < final /\ first <= idx /\ idx <= final
      /\ j \in Nat \ {0} /\ first <= j /\ j <= final + 1
      /\ first .. (j - 1) \subseteq consumed
      /\ \A h \in DOMAIN groups : groups[h].key = key => first <= h /\ h <= final
  BY <1>1, <1>2, JoinFacts
<1>4. /\ idx \in Nat \ {0} /\ DOMAIN groups = 1 .. Len(groups) /\ Len(groups) \in Nat
      /\ groups \in Seq(Groups)
  BY <1>1, TypeFacts
<1>5. /\ parallel_items \in Seq(Items)
      /\ j > first => parallel_items # <<>>
      /\ \A i \in Range(parallel_items) : GroupKeys[i] = key
      /\ \A a \in DOMAIN deferred : deferred[a].key # key
  BY <1>1, <1>2 DEF JoinInv
<1>6. /\ merged \in Seq(Groups) /\ deferred \in Seq(Groups)
      /\ Cut(items, merged) /\ Cut(items, deferred)
  BY <1>1, TypeFacts
<1>7. j > final
  BY <1>2, SplitOfGroups
<1>8. e \in Groups /\ e.key = key /\ e.items = parallel_items
  <2>1. key \in Keys \cup {None}
    BY <1>1, <1>3, TypeFacts
  <2> HIDE DEF key
  <2> QED  BY <1>5, <2>1 DEF Groups
<1> HIDE DEF e, first, final, key
<1>9. /\ j = final + 1 /\ j - 1 = final /\ idx \in first .. final /\ idx \in consumed
      /\ parallel_items # <<>> /\ first .. final \subseteq consumed
      /\ first \in Nat /\ final \in Nat
  <2>1. first \in Nat /\ final \in Nat
    BY <1>3, <1>4
  <2>2. j = final + 1
    BY <1>3, <1>7, <2>1
  <2>3. j - 1 = final /\ idx \in first .. final
    BY <1>3, <1>4, <2>1, <2>2
  <2>4. first .. final \subseteq consumed
    BY <1>3, <2>3
  <2>5. idx \in consumed
    BY <2>3, <2>4
  <2>6. parallel_items # <<>>
    BY <1>3, <1>5, <1>7, <2>1
  <2> QED  BY <2>1, <2>2, <2>3, <2>4, <2>5, <2>6
<1>10. base \in Seq(Groups)
  BY <1>6, <1>8
<1>11. Cut(items, merged')
  <2>1. Range(e.items) \subseteq Range(items)
    BY <1>1, <1>8 DEF TypeInv
  <2>2. Cut(items, base)
    BY <1>6, <1>8, <1>9, <2>1, CutAppend
  <2> HIDE DEF base
  <2> QED  BY <1>2, <1>6, <2>2, CutConcat
<1>12. TypeInv'
  <2>1. idx' \in 1 .. (Len(groups) + 1)
    BY <1>2, <1>3, <1>4
  <2>2. Cut(items, deferred') /\ Range(parallel_items') = {}
    BY <1>2, EmptyLists
  <2> QED  BY <1>1, <1>2, <1>11, <2>1, <2>2 DEF TypeInv, Cut
<1>13. BuildInv'
  BY <1>1, <1>2, BuildKept
<1>14. JoinInv'
  BY <1>2 DEF JoinInv
<1>15. CoverInv'
  <2>1. Content(merged') = Content(merged) \cup Range(parallel_items) \cup Content(deferred)
    <3>1. Content(base) = Content(merged) \cup Range(parallel_items)
      BY <1>6, <1>8, ContentOfAppend
    <3> HIDE DEF base
    <3> QED  BY <1>2, <1>6, <1>10, <3>1, ContentOfConcat
  <2>2. \A g \in DOMAIN groups : Gone(g)' <=> Gone(g)
    BY <1>2, <1>4, <1>9 DEF Gone
  <2>3. \A g \in DOMAIN groups : Gone(g) => Range(groups[g].items) \subseteq Content(merged')
    BY <1>2, <2>1 DEF Inv, CoverInv
  <2> QED  BY <1>2, <2>2, <2>3 DEF CoverInv
<1>16. KeyInv'
  <2>1. OwnKeys(GroupKeys, base)
    BY <1>5, <1>6, <1>8, OwnKeysAppend DEF Inv, KeyInv
  <2>2. OwnKeys(GroupKeys, merged')
    <3> HIDE DEF base
    <3> QED  BY <1>2, <1>6, <1>10, <2>1, OwnKeysConcat DEF Inv, KeyInv
  <2> QED  BY <1>2, <2>2, GroupKeysFrame, EmptyLists DEF KeyInv
<1>17. ASSUME ~Crosses(groups)
       PROVE  ForwardInv /\ MergedInv /\ InnerInv /\ first = idx
  BY <1>2, <1>17 DEF Inv, MergeInv, ForwardInv, first, key
<1>18. \A g \in idx .. (j - 1) : g \in DOMAIN groups
  BY <1>3, <1>4, <1>9
<1>19. MergeInv'
  <2> SUFFICES ASSUME ~Crosses(groups) PROVE (ForwardInv /\ MergedInv /\ InnerInv)'
    BY <1>2 DEF MergeInv
  <2>1. first = idx
    BY <1>17
  <2>2. ForwardInv'
    <3>1. \A other \in SplitKeys(groups) : FirstOf(groups, other) \in Nat
      BY <1>4, SplitSpan
    <3>2. ASSUME NEW h \in consumed PROVE Joined(h)'
      <4>1. CASE Joined(h)
        BY <1>2, <1>4, <3>1, <4>1 DEF Joined
      <4>2. CASE h \in idx .. (j - 1)
        <5>1. h \in Span(groups, key) /\ Span(groups, key) \subseteq consumed
          <6>1. Span(groups, key) = first .. final
            BY DEF Span, first, final
          <6> QED  BY <1>9, <2>1, <4>2, <6>1
        <5>2. FirstOf(groups, key) < idx + 1
          BY <1>4, <2>1 DEF first
        <5> QED  BY <1>2, <1>3, <5>1, <5>2 DEF Joined
      <4> QED  BY <1>17, <4>1, <4>2 DEF ForwardInv
    <3>3. \A g \in 1 .. idx : groups[g].key \in SplitKeys(groups) => g \in consumed
      BY <1>4, <1>9, <1>17 DEF ForwardInv
    <3> QED  BY <1>2, <1>4, <3>2, <3>3 DEF ForwardInv
  <2>3. MergedInv'
    <3>1. \A g \in DOMAIN groups : Source(g) => Source(g)'
      BY <1>2, <1>4 DEF Source
    <3>2. \A g \in idx .. (j - 1) : g \in DOMAIN groups /\ Source(g)'
      <4>1. \A g \in idx .. (j - 1) : g \in consumed
        BY <1>3, <2>1
      <4> QED  BY <1>2, <1>18, <4>1 DEF Source
    <3>3. \A a \in DOMAIN base : \/ a \in DOMAIN merged /\ base[a] = merged[a]
                                 \/ base[a] = e
      BY <1>6, <1>8, AppendMembers
    <3>4. \A a \in DOMAIN merged' : \/ \E b \in DOMAIN merged : merged'[a] = merged[b]
                                    \/ merged'[a] = e
                                    \/ \E b \in DOMAIN deferred : merged'[a] = deferred[b]
      <4> HIDE DEF base
      <4>1. \A a \in DOMAIN merged' :
              \/ a \in DOMAIN base /\ merged'[a] = base[a]
              \/ a - Len(base) \in DOMAIN deferred /\ merged'[a] = deferred[a - Len(base)]
        BY <1>2, <1>6, <1>10, ConcatMembers
      <4> QED  BY <3>3, <4>1
    <3>5. ASSUME NEW a \in DOMAIN merged'
          PROVE  /\ \A x \in Range(merged'[a].items) :
                      \E g \in DOMAIN groups : Source(g)' /\ x \in Range(groups[g].items)
                 /\ \E g \in DOMAIN groups : Source(g)' /\ groups[g].key = merged'[a].key
      <4>1. CASE \E b \in DOMAIN merged : merged'[a] = merged[b]
        BY <1>17, <3>1, <4>1 DEF MergedInv
      <4>2. CASE merged'[a] = e
        <5>1. \A x \in Range(parallel_items) :
                \E g \in DOMAIN groups : Source(g)' /\ x \in Range(groups[g].items)
          BY <1>2, <1>17, <3>2 DEF InnerInv
        <5>2. idx \in idx .. (j - 1) /\ groups[idx].key = key
          BY <1>4, <1>9, <2>1 DEF key
        <5> QED  BY <1>8, <3>2, <4>2, <5>1, <5>2
      <4>3. CASE \E b \in DOMAIN deferred : merged'[a] = deferred[b]
        <5>1. PICK g \in idx .. (j - 1) : merged'[a] = groups[g]
          BY <1>2, <1>17, <4>3 DEF InnerInv
        <5> QED  BY <3>2, <5>1
      <4> QED  BY <3>4, <4>1, <4>2, <4>3
    <3> QED  BY <1>2, <3>5 DEF MergedInv
  <2>4. InnerInv'
    BY <1>2 DEF InnerInv
  <2> QED  BY <2>2, <2>3, <2>4
<1>20. ASSUME ~Crosses(groups)
       PROVE  /\ \A a \in DOMAIN merged : \A x \in Range(merged[a].items) :
                   \E g \in DOMAIN groups : g < idx /\ x \in Range(groups[g].items)
              /\ \A a \in DOMAIN merged :
                   \E g \in DOMAIN groups : g < idx /\ groups[g].key = merged[a].key
  BY <1>2, <1>17, <1>20 DEF MergedInv, Source
<1>21. OrderInv'
  <2> SUFFICES ASSUME ~Crosses(groups) PROVE KeysFollow(items, merged')
    BY <1>2 DEF OrderInv
  <2>1. KeysFollow(items, merged)
    BY <1>2 DEF Inv, OrderInv
  <2>2. Follows(items, groups)
    BY <1>1 DEF BuildInv
  <2>3. ASSUME NEW x, NEW y, NEW g \in DOMAIN groups, g < idx, x \in Range(groups[g].items),
               NEW h \in idx .. (j - 1), y \in Range(groups[h].items)
        PROVE  Earlier(items, x, y)
    <3>1. h \in DOMAIN groups /\ g < h
      BY <1>4, <1>18, <2>3
    <3> QED  BY <2>2, <2>3, <3>1 DEF Follows, Apart
  <2>4. \A a \in DOMAIN merged : Apart(items, merged[a].items, e.items)
    BY <1>2, <1>8, <1>17, <1>20, <2>3 DEF Apart, InnerInv
  <2>5. InOrder(items, e.items)
    BY <1>2, <1>8, <1>17 DEF InnerInv
  <2>6. KeysFollow(items, base)
    BY <1>6, <1>8, <2>1, <2>4, <2>5, KeysFollowAppend
  <2>7. KeysFollow(items, deferred)
    <3>1. \A a \in DOMAIN deferred : InOrder(items, deferred[a].items)
      BY <1>2, <1>17, <1>18, <2>2 DEF InnerInv, Follows
    <3>2. \A a, b \in DOMAIN deferred : a < b => Apart(items, deferred[a].items, deferred[b].items)
      BY <1>2, <1>17, <1>18, <2>2 DEF InnerInv, Follows
    <3> QED  BY <3>1, <3>2 DEF KeysFollow
  <2>8. \A a \in DOMAIN base, b \in DOMAIN deferred :
          base[a].key = deferred[b].key => Apart(items, base[a].items, deferred[b].items)
    <3> SUFFICES ASSUME NEW a \in DOMAIN base, NEW b \in DOMAIN deferred,
                        base[a].key = deferred[b].key
                 PROVE  Apart(items, base[a].items, deferred[b].items)
      OBVIOUS
    <3>1. a \in DOMAIN merged /\ base[a] = merged[a]
      <4>1. base[a] # e
        BY <1>5, <1>8
      <4> QED  BY <1>6, <1>8, <4>1, AppendMembers
    <3>2. PICK h \in idx .. (j - 1) : deferred[b] = groups[h]
      BY <1>2, <1>17 DEF InnerInv
    <3>3. \A x \in Range(merged[a].items), y \in Range(groups[h].items) : Earlier(items, x, y)
      BY <1>20, <2>3, <3>1
    <3> QED  BY <3>1, <3>2, <3>3 DEF Apart
  <2> HIDE DEF base
  <2> QED  BY <1>2, <1>6, <1>10, <2>6, <2>7, <2>8, KeysFollowConcat
<1>22. PackageInv'
  <2> SUFFICES ASSUME ~Crosses(groups), ~Nests(groups) PROVE PackagesOnce(merged')
    BY <1>2 DEF PackageInv
  <2>1. PackagesOnce(merged)
    BY <1>2 DEF Inv, PackageInv
  <2>2. first = idx
    BY <1>17
  <2>3. \A a \in DOMAIN merged : merged[a].key # e.key
    <3> SUFFICES ASSUME NEW a \in DOMAIN merged, merged[a].key = key PROVE FALSE
      BY <1>8
    <3>1. PICK g \in DOMAIN groups : g < idx /\ groups[g].key = key
      BY <1>20
    <3>2. first <= g
      BY <1>3, <3>1
    <3> QED  BY <1>4, <2>2, <3>1, <3>2
  <2>4. PackagesOnce(base)
    BY <1>6, <1>8, <2>1, <2>3, PackagesOnceAppend
  <2>5. \A h \in idx .. (j - 1) : groups[h].key # key =>
          /\ h \in DOMAIN groups /\ groups[h].key \notin SplitKeys(groups)
    <3> SUFFICES ASSUME NEW h \in idx .. (j - 1), groups[h].key # key
                 PROVE  h \in DOMAIN groups /\ groups[h].key \notin SplitKeys(groups)
      OBVIOUS
    <3>1. h \in DOMAIN groups /\ first <= h /\ h <= final
      BY <1>3, <1>4, <1>9, <1>18, <2>2
    <3> QED  BY <1>3, <1>4, <3>1, DeferredWhole DEF first, final
  <2>6. ASSUME NEW h \in idx .. (j - 1), groups[h].key # key, IsPackageKey(groups[h].key),
               NEW g \in DOMAIN groups, groups[g].key = groups[h].key
        PROVE  g = h
    <3>1. h \in DOMAIN groups /\ groups[h].key \notin SplitKeys(groups)
      BY <2>5, <2>6
    <3>2. ~ (g < h) /\ ~ (h < g)
      BY <1>4, <2>6, <3>1, SplitFacts
    <3> QED  BY <1>4, <3>1, <3>2
  <2>7. PackagesOnce(deferred)
    <3> SUFFICES ASSUME NEW a \in DOMAIN deferred, NEW b \in DOMAIN deferred,
                        IsPackageKey(deferred[a].key), deferred[a].key = deferred[b].key, a < b
                 PROVE  FALSE
      <4>1. DOMAIN deferred \subseteq Nat
        BY <1>6
      <4>2. \A a, b \in DOMAIN deferred : a = b \/ a < b \/ b < a
        BY <4>1
      <4> QED  BY <4>2 DEF PackagesOnce
    <3>1. PICK g \in idx .. (j - 1), h \in idx .. (j - 1) :
            g < h /\ deferred[a] = groups[g] /\ deferred[b] = groups[h]
      BY <1>2, <1>17 DEF InnerInv
    <3>2. g = h
      BY <1>5, <1>18, <2>6, <3>1
    <3> QED  BY <3>1, <3>2
  <2>8. \A a \in DOMAIN base, b \in DOMAIN deferred :
          IsPackageKey(deferred[b].key) => base[a].key # deferred[b].key
    <3> SUFFICES ASSUME NEW a \in DOMAIN base, NEW b \in DOMAIN deferred,
                        IsPackageKey(deferred[b].key), base[a].key = deferred[b].key
                 PROVE  FALSE
      OBVIOUS
    <3>1. a \in DOMAIN merged /\ base[a] = merged[a]
      <4>1. base[a] # e
        BY <1>5, <1>8
      <4> QED  BY <1>6, <1>8, <4>1, AppendMembers
    <3>2. PICK h \in idx .. (j - 1) : deferred[b] = groups[h]
      BY <1>2, <1>17 DEF InnerInv
    <3>3. PICK g \in DOMAIN groups : g < idx /\ groups[g].key = merged[a].key
      BY <1>20, <3>1
    <3>4. g = h
      BY <1>5, <2>6, <3>1, <3>2, <3>3
    <3> QED  BY <1>4, <3>3, <3>4
  <2> HIDE DEF base
  <2> QED  BY <1>2, <1>6, <1>10, <2>4, <2>7, <2>8, PackagesOnceConcat
<1> QED  BY <1>12, <1>13, <1>14, <1>15, <1>16, <1>19, <1>21, <1>22 DEF Inv

(* All groups are gone over.                                               *)
LEMMA InvMergeDone ==
  ASSUME Inv, MergeDone
  PROVE  Inv'
<1>1. TypeInv /\ BuildInv /\ JoinInv
  BY DEF Inv
<1>2. /\ pc = "merge" /\ idx > Len(groups) /\ pc' = "done"
      /\ UNCHANGED <<marks, items, idx, groups, merged, consumed, j, parallel_items, deferred>>
  BY DEF MergeDone, inner
<1>3. parallel_items = <<>> /\ deferred = <<>>
  BY <1>1, <1>2 DEF JoinInv
<1>4. TypeInv'
  BY <1>1, <1>2 DEF TypeInv
<1>5. BuildInv'
  BY <1>1, <1>2, BuildKept
<1>6. JoinInv'
  BY <1>2, <1>3 DEF JoinInv
<1>7. CoverInv'
  <2>1. \A g \in DOMAIN groups : Range(groups[g].items) \subseteq Content(merged)
    <3>1. \A g \in DOMAIN groups : Gone(g)
      BY <1>1, <1>2, TypeFacts DEF Gone
    <3> QED  BY <1>2, <1>3, <3>1, EmptyLists DEF Inv, CoverInv
  <2>2. Content(groups) = Range(items)
    BY <1>1, <1>2 DEF BuildInv
  <2>3. Content(merged) \subseteq Range(items)
    BY <1>1, TypeFacts DEF Cut, Content
  <2>4. Content(groups) \subseteq Content(merged)
    BY <2>1 DEF Content
  <2> QED  BY <1>2, <2>2, <2>3, <2>4 DEF CoverInv
<1>8. KeyInv'
  BY <1>2, GroupKeysFrame DEF Inv, KeyInv
<1>9. MergeInv' /\ OrderInv' /\ PackageInv'
  BY <1>2 DEF Inv, MergeInv, OrderInv, PackageInv
<1> QED  BY <1>4, <1>5, <1>6, <1>7, <1>8, <1>9 DEF Inv

(* Nothing changes.                                                        *)
LEMMA InvStutter ==
  ASSUME Inv, UNCHANGED vars
  PROVE  Inv'
<1>1. GroupKeys' = GroupKeys
  BY GroupKeysFrame DEF vars
<1>2. /\ \A g : Gone(g)' <=> Gone(g)
      /\ \A g : Source(g)' <=> Source(g)
      /\ \A h : Joined(h)' <=> Joined(h)
  BY DEF vars, Gone, Source, Joined
<1>3. TypeInv' /\ BuildInv' /\ JoinInv' /\ CoverInv' /\ KeyInv'
  BY <1>1, <1>2 DEF Inv, vars, inner, TypeInv, BuildInv, JoinInv, CoverInv, KeyInv
<1>4. (ForwardInv' <=> ForwardInv) /\ (MergedInv' <=> MergedInv) /\ (InnerInv' <=> InnerInv)
  <2>1. ForwardInv' <=> ForwardInv
    BY <1>2 DEF vars, inner, ForwardInv
  <2>2. MergedInv' <=> MergedInv
    BY <1>2 DEF vars, inner, MergedInv
  <2>3. InnerInv' <=> InnerInv
    BY DEF vars, inner, InnerInv
  <2> QED  BY <2>1, <2>2, <2>3
<1>5. MergeInv' /\ OrderInv' /\ PackageInv'
  BY <1>4 DEF Inv, vars, inner, MergeInv, OrderInv, PackageInv
<1> QED  BY <1>3, <1>5 DEF Inv

(* The invariant holds in every state of every run.                        *)
LEMMA Invariant == Spec => []Inv
<1>1. Init => Inv
  BY InvAtStart
<1>2. Inv /\ [Next]_vars => Inv'
  <2> SUFFICES ASSUME Inv, [Next]_vars PROVE Inv'
    OBVIOUS
  <2>1. CASE NewGroup
    BY <2>1, InvNewGroup
  <2>2. CASE SameGroup
    BY <2>2, InvSameGroup
  <2>3. CASE StartMerge
    BY <2>3, InvStartMerge
  <2>4. CASE SkipConsumed
    BY <2>4, InvSkipConsumed
  <2>5. CASE KeepGroup
    BY <2>5, InvKeepGroup
  <2>6. CASE StartJoin
    BY <2>6, InvStartJoin
  <2>7. CASE TakeFragment
    BY <2>7, InvTakeFragment
  <2>8. CASE Defer
    BY <2>8, InvDefer
  <2>9. CASE EndJoin
    BY <2>9, InvEndJoin
  <2>10. CASE MergeDone
    BY <2>10, InvMergeDone
  <2>11. CASE Returned \/ UNCHANGED vars
    BY <2>11, InvStutter DEF Returned
  <2> QED  BY <2>1, <2>2, <2>3, <2>4, <2>5, <2>6, <2>7, <2>8, <2>9, <2>10, <2>11 DEF Next
<1> QED  BY <1>1, <1>2, PTL DEF Spec

(***************************************************************************)
(* The properties.                                                         *)
(***************************************************************************)

(* Every group has items of the session, whatever is marked.               *)
THEOREM GroupingTypeCorrect == Spec => []TypeInv
<1>1. Inv => TypeInv
  BY DEF Inv
<1> QED  BY <1>1, Invariant, PTL

(* An item runs in parallel exactly when its most specific marker says so. *)
THEOREM MostSpecificMarkerWins == Spec => []MostSpecificWins
<1>1. Inv => MostSpecificWins
  BY TypeFacts, MostSpecificKey DEF Inv, MostSpecificWins
<1> QED  BY <1>1, Invariant, PTL

(* The key of a class or parameters group tells the fixture params.        *)
LEMMA ParamsInKey ==
  ASSUME TypeInv, NEW x \in Items, NEW y \in Items,
         group_key(x) = group_key(y), group_key(x) # None,
         group_key(x)[1] \in {"class", "params"}
  PROVE  fixture_param_key(x) = fixture_param_key(y)
<1> DEFINE fx == fixture_param_key(x)
           fy == fixture_param_key(y)
<1>1. \A i : LET key == ClassKey(i) IN
        /\ key[1] = "class"
        /\ fixture_param_key(i) = {} => Len(key) = 2
        /\ fixture_param_key(i) # {} => Len(key) = 3 /\ key[3] = fixture_param_key(i)
  BY DEF ClassKey, WithParams
<1>2. \A i : LET key == ParamsKey(i) IN
        /\ key[1] = "params"
        /\ fixture_param_key(i) = {} => Len(key) = 3
        /\ fixture_param_key(i) # {} => Len(key) = 4 /\ key[4] = fixture_param_key(i)
  BY DEF ParamsKey, WithParams
<1>3. \A i \in Items : group_key(i) # None /\ group_key(i)[1] \in {"class", "params"} =>
        group_key(i) = ClassKey(i) \/ group_key(i) = ParamsKey(i)
  BY TypeFacts, KeyFacts
<1>4. CASE group_key(x) = ClassKey(x) /\ group_key(y) = ClassKey(y)
  <2>1. ClassKey(x) = ClassKey(y)
    BY <1>4
  <2> QED  BY <1>1, <2>1
<1>5. CASE group_key(x) = ParamsKey(x) /\ group_key(y) = ParamsKey(y)
  <2>1. ParamsKey(x) = ParamsKey(y)
    BY <1>5
  <2> QED  BY <1>2, <2>1
<1>6. CASE \/ group_key(x) = ClassKey(x) /\ group_key(y) = ParamsKey(y)
           \/ group_key(x) = ParamsKey(x) /\ group_key(y) = ClassKey(y)
  BY <1>1, <1>2, <1>6
<1> QED  BY <1>3, <1>4, <1>5, <1>6

(* No group of a class or of variants mixes two fixture worlds.            *)
THEOREM OneFixtureWorldAlways == Spec => []OneFixtureWorld
<1>1. Inv => OneFixtureWorld
  <2> SUFFICES ASSUME Inv, NEW g \in DOMAIN merged, merged[g].key # None,
                      merged[g].key[1] \in {"class", "params"},
                      NEW x \in Range(merged[g].items), NEW y \in Range(merged[g].items)
               PROVE  fixture_param_key(x) = fixture_param_key(y)
    BY DEF OneFixtureWorld
  <2>1. TypeInv
    BY DEF Inv
  <2>2. x \in Items /\ y \in Items
    BY <2>1, TypeFacts DEF Cut
  <2>3. group_key(x) = merged[g].key /\ group_key(y) = merged[g].key
    BY <2>1, <2>2, GroupKeysFacts DEF Inv, KeyInv, OwnKeys
  <2> QED  BY <2>1, <2>2, <2>3, ParamsInKey
<1> QED  BY <1>1, Invariant, PTL

(* A test is at one place of a list of groups that keeps the order.        *)
LEMMA PlacesFacts ==
  ASSUME TypeInv, OwnKeys(GroupKeys, merged), KeysFollow(items, merged),
         NEW p \in Places(merged), NEW q \in Places(merged),
         NEW m \in DOMAIN items, NEW n \in DOMAIN items,
         At(merged, p) = items[m], At(merged, q) = items[n], Before(p, q),
         group_key(items[m]) = group_key(items[n])
  PROVE  m < n
<1>1. /\ p[1] \in DOMAIN merged /\ p[2] \in DOMAIN merged[p[1]].items
      /\ q[1] \in DOMAIN merged /\ q[2] \in DOMAIN merged[q[1]].items
  BY DEF Places
<1>2. /\ merged[p[1]].items[p[2]] = items[m] /\ items[m] \in Range(merged[p[1]].items)
      /\ merged[q[1]].items[q[2]] = items[n] /\ items[n] \in Range(merged[q[1]].items)
  BY <1>1 DEF At, Range
<1>3. items[m] \in Items /\ items[n] \in Items
  BY TypeFacts
<1>4. merged[p[1]].key = merged[q[1]].key
  BY <1>1, <1>2, <1>3, GroupKeysFacts DEF OwnKeys
<1>5. Earlier(items, items[m], items[n])
  <2>1. CASE p[1] < q[1]
    BY <1>1, <1>2, <1>4, <2>1 DEF KeysFollow, Apart
  <2>2. CASE p[1] = q[1] /\ p[2] < q[2]
    BY <1>1, <1>2, <2>2 DEF KeysFollow, InOrder
  <2> QED  BY <2>1, <2>2 DEF Before
<1> QED  BY <1>5 DEF Earlier

(* When the groups are returned, no test is lost; unless packages cross,   *)
(* none is in two places, and the tests of one key are in their order.     *)
THEOREM ItemsPreservedAlways == Spec => []ItemsPreserved
<1>1. Inv => NothingLost
  BY DEF Inv, CoverInv, NothingLost
<1>2. Inv /\ ~Crossing => KeysFollow(items, merged) /\ OwnKeys(GroupKeys, merged) /\ TypeInv
  BY SplitOfGroups DEF Inv, OrderInv, KeyInv
<1>3. Inv => OrderKept
  BY <1>2, PlacesFacts DEF OrderKept
<1>4. Inv => OnceUnlessCrossing
  <2> SUFFICES ASSUME Inv, ~Crossing, NEW p \in Places(merged), NEW q \in Places(merged),
                      At(merged, p) = At(merged, q)
               PROVE  p = q
    BY DEF OnceUnlessCrossing, EachOnce
  <2>1. PICK g \in DOMAIN merged : \E a \in DOMAIN merged[g].items : p = <<g, a>>
    BY DEF Places
  <2>2. PICK h \in DOMAIN merged : \E b \in DOMAIN merged[h].items : q = <<h, b>>
    BY DEF Places
  <2>a. PICK a \in DOMAIN merged[g].items : p = <<g, a>>
    BY <2>1
  <2>b. PICK b \in DOMAIN merged[h].items : q = <<h, b>>
    BY <2>2
  <2>3. g \in Nat /\ h \in Nat /\ a \in Nat /\ b \in Nat
    <3>1. /\ merged \in Seq(Groups) /\ merged[g].items \in Seq(Items)
          /\ merged[h].items \in Seq(Items)
      <4>1. merged \in Seq(Groups) /\ merged[g] \in Groups /\ merged[h] \in Groups
        BY <1>2, TypeFacts
      <4> QED  BY <4>1 DEF Groups
    <3> QED  BY <3>1
  <2>4. PICK m \in DOMAIN items : At(merged, p) = items[m]
    <3>1. At(merged, p) \in Range(merged[g].items)
      BY <2>a DEF At, Range
    <3>2. Range(merged[g].items) \subseteq Range(items)
      BY <1>2, TypeFacts DEF Cut
    <3> QED  BY <3>1, <3>2 DEF Range
  <2>5. m \in Nat
    BY <1>2, TypeFacts
  <2>6. ~Before(p, q) /\ ~Before(q, p)
    <3>1. /\ TypeInv /\ OwnKeys(GroupKeys, merged) /\ KeysFollow(items, merged)
          /\ At(merged, q) = items[m] /\ ~ (m < m)
      BY <1>2, <2>4, <2>5
    <3>2. ~Before(p, q)
      BY <2>4, <3>1, PlacesFacts
    <3>3. ~Before(q, p)
      BY <2>4, <3>1, PlacesFacts
    <3> QED  BY <3>2, <3>3
  <2> QED  BY <2>a, <2>b, <2>3, <2>6 DEF Before
<1>5. Inv => ItemsPreserved
  BY <1>1, <1>3, <1>4 DEF ItemsPreserved
<1> QED  BY <1>5, Invariant, PTL

(* What RunAll assumes of the groups it is given (its GroupsAssumption),   *)
(* the tests of the session being its items.                               *)
GroupsFit ==
  LET gs == [g \in DOMAIN merged |-> merged[g].items]
  IN  /\ gs \in Seq(Seq(Range(items)) \ {<<>>})
      /\ \A i \in Range(items) : \E g \in DOMAIN gs : i \in Range(gs[g])
      /\ \A g, h \in DOMAIN gs : \A k \in DOMAIN gs[g], n \in DOMAIN gs[h] :
           gs[g][k] = gs[h][n] => g = h /\ k = n

(* Unless packages cross, the groups that are returned are what the run of *)
(* the session relies on: every test in one group, once, and none empty.   *)
THEOREM GroupsFitTheRun == Spec => [](pc = "done" /\ ~Crossing => GroupsFit)
<1>1. Inv /\ ItemsPreserved => (pc = "done" /\ ~Crossing => GroupsFit)
  <2> SUFFICES ASSUME Inv, ItemsPreserved, pc = "done", ~Crossing PROVE GroupsFit
    OBVIOUS
  <2> DEFINE gs == [g \in DOMAIN merged |-> merged[g].items]
  <2>1. TypeInv /\ Content(merged) = Range(items) /\ EachOnce(merged)
    BY DEF Inv, ItemsPreserved, NothingLost, OnceUnlessCrossing
  <2>2. /\ merged \in Seq(Groups)
        /\ DOMAIN merged = 1 .. Len(merged) /\ Len(merged) \in Nat
        /\ \A g \in DOMAIN merged : /\ merged[g].items \in Seq(Items)
                                    /\ merged[g].items # <<>>
                                    /\ Range(merged[g].items) \subseteq Range(items)
    <3>1. /\ merged \in Seq(Groups)
          /\ \A g \in DOMAIN merged : /\ merged[g].items # <<>>
                                      /\ Range(merged[g].items) \subseteq Range(items)
      BY <2>1, TypeFacts DEF Cut
    <3>2. /\ DOMAIN merged = 1 .. Len(merged) /\ Len(merged) \in Nat
          /\ \A g \in DOMAIN merged : merged[g] \in Groups
      BY <3>1
    <3>3. \A e \in Groups : e.items \in Seq(Items)
      BY DEF Groups
    <3> QED  BY <3>1, <3>2, <3>3
  <2>3. DOMAIN gs = DOMAIN merged /\ \A g \in DOMAIN merged : gs[g] = merged[g].items
    OBVIOUS
  <2>4. ASSUME NEW g \in DOMAIN merged
        PROVE  merged[g].items \in Seq(Range(items)) \ {<<>>}
    <3> DEFINE s == merged[g].items
    <3>1. s \in Seq(Items) /\ s # <<>> /\ Range(s) \subseteq Range(items)
      BY <2>2
    <3> HIDE DEF s
    <3>2. \A k \in 1 .. Len(s) : s[k] \in Range(items)
      BY <3>1 DEF Range
    <3>3. s \in [1 .. Len(s) -> Range(items)] /\ Len(s) \in Nat
      BY <3>1, <3>2
    <3>4. s \in Seq(Range(items))
      BY <3>3, FunctionIsSeq
    <3> QED  BY <3>1, <3>4 DEF s
  <2>5. gs \in Seq(Seq(Range(items)) \ {<<>>})
    <3> DEFINE T == Seq(Range(items)) \ {<<>>}
    <3>1. gs \in [1 .. Len(merged) -> T]
      BY <2>2, <2>4
    <3> HIDE DEF gs, T
    <3>2. gs \in Seq(T)
      BY <2>2, <3>1, FunctionIsSeq
    <3> QED  BY <3>2 DEF T
  <2>6. \A i \in Range(items) : \E g \in DOMAIN merged : i \in Range(merged[g].items)
    BY <2>1, ContentMember
  <2>7. ASSUME NEW g \in DOMAIN merged, NEW h \in DOMAIN merged,
               NEW k \in DOMAIN merged[g].items, NEW n \in DOMAIN merged[h].items,
               merged[g].items[k] = merged[h].items[n]
        PROVE  g = h /\ k = n
    <3>1. <<g, k>> \in Places(merged) /\ <<h, n>> \in Places(merged)
      BY DEF Places
    <3>2. At(merged, <<g, k>>) = At(merged, <<h, n>>)
      BY <2>7 DEF At
    <3>3. <<g, k>> = <<h, n>>
      BY <2>1, <3>1, <3>2 DEF EachOnce
    <3> QED  BY <3>3
  <2> QED  BY <2>3, <2>5, <2>6, <2>7 DEF GroupsFit
<1> QED  BY <1>1, Invariant, ItemsPreservedAlways, PTL

(* Tests run in groups of their key, and a package in one of them unless   *)
(* packages overlap.                                                       *)
THEOREM GroupedByKeyAlways == Spec => []GroupedByKey
<1>1. Inv => InGroupOfItsKey
  <2> SUFFICES ASSUME Inv, NEW gs \in {groups, merged}, NEW g \in DOMAIN gs,
                      NEW i \in Range(gs[g].items)
               PROVE  group_key(i) = gs[g].key
    BY DEF InGroupOfItsKey
  <2>1. TypeInv /\ OwnKeys(GroupKeys, gs) /\ Cut(items, gs)
    BY TypeFacts DEF Inv, BuildInv, KeyInv
  <2>2. i \in Items /\ GroupKeys[i] = gs[g].key
    BY <2>1, TypeFacts DEF Cut, OwnKeys
  <2> QED  BY <2>1, <2>2, GroupKeysFacts
<1>2. Inv => OneGroupPerPackage
  BY SplitOfGroups DEF Inv, PackageInv, PackagesOnce, OneGroupPerPackage
<1>3. Inv => GroupedByKey
  BY <1>1, <1>2 DEF GroupedByKey
<1> QED  BY <1>3, Invariant, PTL
=============================================================================
