--------------------------- MODULE Router_proofs ---------------------------
(***************************************************************************)
(* Proofs about Router: whatever is registered, in whatever order, find    *)
(* and allowed_methods agree, a registration takes nothing away, and       *)
(* whatever the target, a path is normalized and a captured rest stays     *)
(* below the directory it is joined to.                                    *)
(*                                                                         *)
(* The inductive invariant is short, because the answers are those of one  *)
(* call on a table nothing changes any more: RoutesInv says what the table *)
(* is, AnswerInv what was answered.  The theorems then are those of        *)
(* Routing_proofs about find and allowed_methods, on that table.           *)
(***************************************************************************)
EXTENDS Router, Routing_proofs

Routes == {RouteOf(r) : r \in Registrations}

RoutesInv ==
    /\ routes \in Seq(Routes)
    /\ Len(routes) <= MaxRoutes
    /\ query \in Queries

AnswerInv ==
    \/ found = NotFound(FALSE) /\ allowed = <<"unasked">>
    \/ found = Find(routes, query) /\ allowed = AllowedMethods(routes, query.target)

RouterInv == RoutesInv /\ AnswerInv

LEMMA RoutesAreATable ==
    ASSUME RoutesInv
    PROVE  IsTable(routes)
<1>1. /\ Len(routes) \in Nat
      /\ DOMAIN routes = 1..Len(routes)
      /\ \A i \in DOMAIN routes : routes[i] \in Routes
    BY DEF RoutesInv
<1>2. \A route \in Routes : route.method \in Methods
    BY RouterAssumption DEF RouterAssumption, Routes, RouteOf
<1>3. QED
    BY <1>1, <1>2 DEF IsTable

LEMMA InitRouterInv == Init => RouterInv
BY RouterAssumption DEF Init, RouterInv, RoutesInv, AnswerInv, RouterAssumption

LEMMA NextRouterInv == RouterInv /\ [Next]_vars => RouterInv'
<1> SUFFICES ASSUME RouterInv, [Next]_vars PROVE RouterInv'
    OBVIOUS
<1>1. ASSUME NEW r \in Registrations, Add(r) PROVE RouterInv'
    <2>1. routes \in Seq(Routes) /\ RouteOf(r) \in Routes /\ Len(routes) < MaxRoutes
        BY <1>1 DEF RouterInv, RoutesInv, Routes, Add
    <2>2. routes' \in Seq(Routes) /\ Len(routes') = Len(routes) + 1
        BY <1>1, <2>1 DEF Add
    <2>3. Len(routes') <= MaxRoutes
        BY <2>1, <2>2, RouterAssumption DEF RouterAssumption
    <2>4. found' = NotFound(FALSE) /\ allowed' = <<"unasked">>
        <3>1. allowed = <<"unasked">>
            BY <1>1 DEF Add, Registering
        <3>2. found = NotFound(FALSE)
            <4>1. "unasked" \notin Methods
                BY DEF Methods
            <4>2. allowed = AllowedMethods(routes, query.target) => "unasked" \in Methods
                <5>1. Distinct(AllowedMethods(routes, query.target))
                    BY RoutesAreATable, AllowedMethodsAnswer DEF RouterInv, IsTable
                <5>2. QED
                    BY <3>1, <5>1 DEF Distinct
            <4>3. QED
                BY <4>1, <4>2 DEF RouterInv, AnswerInv
        <3>3. QED
            BY <1>1, <3>1, <3>2 DEF Add
    <2>5. QED
        BY <1>1, <2>2, <2>3, <2>4 DEF RouterInv, RoutesInv, AnswerInv, Add
<1>2. CASE Lookup
    BY <1>2 DEF RouterInv, RoutesInv, AnswerInv, Lookup
<1>3. CASE UNCHANGED vars
    BY <1>3 DEF RouterInv, RoutesInv, AnswerInv, vars
<1>4. QED
    BY <1>1, <1>2, <1>3 DEF Next

LEMMA AlwaysRouterInv == Spec => []RouterInv
BY InitRouterInv, NextRouterInv, PTL DEF Spec

-----------------------------------------------------------------------------
(* Every state is of its type, the list of allowed methods without a       *)
(* repetition (Router::add, find and allowed_methods, router.cpp).         *)
THEOREM RouterTypeCorrect == Spec => []TypeOK
<1>1. ASSUME RouterInv PROVE TypeOK
    <2>1. /\ Len(routes) \in Nat /\ DOMAIN routes = 1..Len(routes)
          /\ \A i \in DOMAIN routes : routes[i] \in Routes /\ routes[i].method \in Methods
        BY <1>1, RoutesAreATable DEF RouterInv, RoutesInv, IsTable
    <2>2. ASSUME NEW i \in DOMAIN routes, NEW j \in DOMAIN routes[i].pattern
          PROVE  routes[i].pattern[j].capture \in Captures
        <3>1. PICK r \in Registrations : routes[i] = RouteOf(r)
            BY <2>1 DEF Routes
        <3> DEFINE pieces == Split(NormalizePath(r.path))
        <3>2. routes[i].pattern = [k \in DOMAIN pieces |-> CompileSegment(pieces[k])]
            BY <3>1 DEF RouteOf, Compile
        <3> HIDE DEF pieces
        <3>3. \A piece : CompileSegment(piece).capture \in Captures
            BY RoutingAssumption DEF RoutingAssumption, CompileSegment, Captures
        <3>4. QED
            BY <2>2, <3>2, <3>3
    <2>3. found.handler \in 0..Len(routes)
        <3>1. CASE found = NotFound(FALSE)
            BY <2>1, <3>1 DEF NotFound
        <3>2. CASE found = Find(routes, query)
            <4>1. found.handler # 0 => found.handler \in Serving(routes, RoutablePath(query.target))
                BY <2>1, <3>2, FindAnswers
            <4>2. QED
                BY <2>1, <4>1 DEF Serving
        <3>3. QED
            BY <1>1, <3>1, <3>2 DEF RouterInv, AnswerInv
    <2>4. \A i, j \in DOMAIN allowed : allowed[i] = allowed[j] => i = j
        <3>1. CASE allowed = <<"unasked">>
            BY <3>1
        <3>2. CASE allowed = AllowedMethods(routes, query.target)
            BY <1>1, <3>2, RoutesAreATable, AllowedMethodsAnswer DEF RouterInv, IsTable, Distinct
        <3>3. QED
            BY <1>1, <3>1, <3>2 DEF RouterInv, AnswerInv
    <2>5. QED
        BY <1>1, <2>1, <2>2, <2>3, <2>4 DEF TypeOK, RouterInv, RoutesInv
<1>2. QED
    BY <1>1, AlwaysRouterInv, PTL

(* A method is listed for a path exactly when it would be answered there,  *)
(* so a 405 names every method that works and a 404 has nothing to name.   *)
THEOREM FindAndAllowedNeverDisagree == Spec => []FindAgreesWithAllowed
<1>1. ASSUME RouterInv PROVE FindAgreesWithAllowed
    <2>1. SUFFICES ASSUME ~Registering
                   PROVE  /\ found.handler # 0 <=> query.method \in Range(allowed)
                          /\ found.path_matched <=> allowed # <<>>
        BY DEF FindAgreesWithAllowed
    <2>2. found = Find(routes, query) /\ allowed = AllowedMethods(routes, query.target)
        BY <1>1, <2>1 DEF RouterInv, AnswerInv, Registering
    <2>3. query.method \in Methods
        BY <1>1, RouterAssumption DEF RouterInv, RoutesInv, RouterAssumption
    <2>4. QED
        BY <1>1, <2>2, <2>3, RoutesAreATable, FindAndAllowedAgree DEF RouterInv
<1>2. QED
    BY <1>1, AlwaysRouterInv, PTL

(* A registration only adds: what answered with fewer routes answers       *)
(* still, but for the HEAD route that replaces the GET that stood in.      *)
THEOREM RegistrationsOnlyAdd == Spec => []FirstRegistrationWins
<1>1. ASSUME RouterInv PROVE FirstRegistrationWins
    <2>1. SUFFICES ASSUME ~Registering, NEW n \in DOMAIN routes
                   PROVE  LET earlier == Find(SubSeq(routes, 1, n), query)
                          IN earlier.handler # 0 /\ found # earlier =>
                                 /\ query.method = "HEAD"
                                 /\ routes[earlier.handler].method = "GET"
                                 /\ routes[found.handler].method = "HEAD"
        BY DEF FirstRegistrationWins
    <2>2. found = Find(routes, query)
        BY <1>1, <2>1 DEF RouterInv, AnswerInv, Registering
    <2>3. routes \in Seq(Routes) /\ n \in 1..Len(routes)
        BY <1>1, <2>1 DEF RouterInv, RoutesInv
    <2>4. QED
        BY <2>2, <2>3, EarlierRoutesStand
<1>2. QED
    BY <1>1, AlwaysRouterInv, PTL

(* What find binds to a rest is the last segments of the target, each      *)
(* decoded, none of them a dot segment, the first of them not empty.       *)
LEMMA TheRestThatIsBound ==
    ASSUME RouterInv, found.handler # 0, EndsInRest(routes[found.handler].pattern)
    PROVE  LET rest     == Last(found.params).value
               segments == Split(RoutablePath(query.target))
               before   == Len(routes[found.handler].pattern) - 1
           IN /\ ~Absolute(rest)
              /\ Range(Split(rest)) \cap {Dot, DotDot} = {}
              /\ Split(rest)
                     = [i \in 1..(Len(segments) - before) |-> PercentDecode(segments[before + i])]
<1> DEFINE h == found.handler
           pattern == routes[h].pattern
           path == RoutablePath(query.target)
<1>1. found = Find(routes, query)
    BY DEF RouterInv, AnswerInv, NotFound
<1>2. /\ Len(routes) \in Nat /\ DOMAIN routes = 1..Len(routes)
      /\ \A i \in DOMAIN routes : routes[i] \in Routes
    BY LenProperties, ElementOfSeq DEF RouterInv, RoutesInv
<1>3. /\ h \in DOMAIN routes /\ Matches(pattern, path)
      /\ found.params = Captured(pattern, path)
    <2>1. h \in Serving(routes, path)
        <3>1. DOMAIN routes \subseteq Nat \ {0}
            BY <1>2
        <3>2. Find(routes, query).handler # 0 =>
                  Find(routes, query).handler \in Serving(routes, RoutablePath(query.target))
            BY <3>1, FindAnswers, Zenon
        <3>3. QED
            BY <1>1, <3>2
    <2>2. found.params = Captured(pattern, path)
        BY <1>1 DEF Find, NotFound
    <2>3. QED
        BY <2>1, <2>2 DEF Serving
<1>4. PICK r \in Registrations : routes[h] = RouteOf(r)
    BY <1>2, <1>3 DEF Routes
<1>5. Len(pattern) \in Nat \ {0} /\ DOMAIN pattern = 1..Len(pattern)
    <2> DEFINE p == NormalizePath(r.path)
               pieces == Split(p)
    <2>1. pieces \in Seq(Seq(Slashless(Normal(Range(r.path))))) /\ pieces # <<>>
        <3>1. r.path \in Seq(Range(r.path))
            BY RouterAssumption DEF RouterAssumption
        <3>2. /\ Resolve(r.path) \in Seq(Normal(Range(r.path)))
              /\ "/" \in Normal(Range(r.path))
            BY <3>1, ResolveIsAPath
        <3>3. p \in Seq(Normal(Range(r.path)))
            BY <3>2, NoDotsRemain DEF NormalizePath
        <3>4. QED
            BY <3>3, SplitPieces
    <2>2. Len(pieces) \in Nat \ {0} /\ DOMAIN pieces = 1..Len(pieces)
        BY <2>1, EmptySeq, LenProperties
    <2>3. pattern = [i \in DOMAIN pieces |-> CompileSegment(pieces[i])]
        BY <1>4 DEF RouteOf, Compile
    <2> HIDE DEF pieces, pattern
    <2>4. pattern \in [1..Len(pieces) -> Range(pattern)]
        BY <2>2, <2>3 DEF Range
    <2>5. Len(pattern) = Len(pieces)
        BY <2>2, <2>4, FunctionIsASeq
    <2>6. DOMAIN pattern = 1..Len(pieces)
        BY <2>2, <2>3
    <2>7. QED
        BY <2>2, <2>5, <2>6
<1>6. query.target \in Seq(Range(query.target))
    BY RouterAssumption DEF RouterInv, RoutesInv, RouterAssumption
<1>7. EndsInRest(pattern)
    OBVIOUS
<1> HIDE DEF pattern
<1>8. Last(found.params).value = PercentDecode(RestOf(pattern, Split(path)))
    BY <1>3, <1>5, <1>7, LastOfCaptured
<1> DEFINE segments == Split(path)
           before == Len(pattern) - 1
           rest == PercentDecode(RestOf(pattern, segments))
<1>9. /\ ~Absolute(rest)
      /\ Range(Split(rest)) \cap {Dot, DotDot} = {}
      /\ Split(rest) = [i \in 1..(Len(segments) - before) |-> PercentDecode(segments[before + i])]
    BY <1>3, <1>5, <1>6, <1>7, TheRestStaysBelow
<1> HIDE DEF rest
<1>10. Last(found.params).value = rest
    BY <1>8 DEF rest
<1>11. QED
    BY <1>9, <1>10, Zenon DEF pattern

(* A captured rest stays below the directory it is joined to, whatever the *)
(* target and the routes: it does not begin with "/" and holds no "." or   *)
(* ".." segment (router.cpp:113-127, path.cpp:53-110).                     *)
THEOREM RestsStayBelow == Spec => []RestStaysBelow
<1>1. RouterInv => RestStaysBelow
    BY TheRestThatIsBound DEF RestStaysBelow
<1>2. QED
    BY <1>1, AlwaysRouterInv, PTL

(* A captured rest gains no separator, whatever the target and the routes: *)
(* its segments are the last segments of the normalized target, one for    *)
(* one, each decoded, so no "/" in it arrived escaped (router.cpp:113-127).*)
THEOREM RestsGainNoSeparator == Spec => []RestGainsNoSeparator
<1>1. RouterInv => RestGainsNoSeparator
    BY TheRestThatIsBound DEF RestGainsNoSeparator
<1>2. QED
    BY <1>1, AlwaysRouterInv, PTL

-----------------------------------------------------------------------------
(* What the walk along the segments keeps, said without walking.           *)

Cancelling(segments, i, j) == {k \in (i + 1)..j : segments[k] = DotDot}
Naming(segments, i, j)     == {k \in (i + 1)..j : segments[k] \notin {Dot, DotDot}}

Dots(segments, i, j)  == Cardinality(Cancelling(segments, i, j))
Names(segments, i, j) == Cardinality(Naming(segments, i, j))

\* The names among the first n that nothing among them cancels.
Survivors(segments, n) ==
    {i \in 1..n : /\ segments[i] \notin {Dot, DotDot}
                  /\ \A j \in (i + 1)..n : ~(Dots(segments, i, j) > Names(segments, i, j))}

Later(S, i) == {s \in S : s > i}

LEMMA CountingOn ==
    ASSUME NEW segments, NEW i \in Nat, NEW k \in Nat, i <= k
    PROVE  /\ Dots(segments, i, k) \in Nat /\ Names(segments, i, k) \in Nat
           /\ Dots(segments, i, k + 1) = IF segments[k + 1] = DotDot THEN Dots(segments, i, k) + 1
                                                                      ELSE Dots(segments, i, k)
           /\ Names(segments, i, k + 1) = IF segments[k + 1] \notin {Dot, DotDot}
                                          THEN Names(segments, i, k) + 1
                                          ELSE Names(segments, i, k)
<1> DEFINE C == Cancelling(segments, i, k)
           N == Naming(segments, i, k)
<1>1. (i + 1)..(k + 1) = ((i + 1)..k) \cup {k + 1} /\ k + 1 \notin (i + 1)..k
    OBVIOUS
<1>2. IsFiniteSet((i + 1)..k)
    BY FS_Interval
<1>3. IsFiniteSet(C) /\ IsFiniteSet(N) /\ Cardinality(C) \in Nat /\ Cardinality(N) \in Nat
    <2>1. C \subseteq (i + 1)..k /\ N \subseteq (i + 1)..k
        BY DEF Cancelling, Naming
    <2>2. IsFiniteSet(C) /\ IsFiniteSet(N)
        BY <1>2, <2>1, FS_Subset
    <2>3. QED
        BY <2>2, FS_CardinalityType
<1>4. k + 1 \notin C /\ k + 1 \notin N
    BY <1>1 DEF Cancelling, Naming
<1>5. Dots(segments, i, k + 1) = IF segments[k + 1] = DotDot THEN Cardinality(C) + 1 ELSE Cardinality(C)
    <2>1. CASE segments[k + 1] = DotDot
        <3>1. Cancelling(segments, i, k + 1) = C \cup {k + 1}
            BY <1>1, <2>1 DEF Cancelling
        <3>2. Cardinality(C \cup {k + 1}) = Cardinality(C) + 1
            BY <1>3, <1>4, FS_AddElement
        <3>3. QED
            BY <2>1, <3>1, <3>2, Zenon DEF Dots
    <2>2. CASE segments[k + 1] # DotDot
        <3>1. Cancelling(segments, i, k + 1) = C
            BY <1>1, <2>2 DEF Cancelling
        <3>2. QED
            BY <2>2, <3>1, Zenon DEF Dots
    <2>3. QED
        BY <2>1, <2>2
<1>6. Names(segments, i, k + 1) = IF segments[k + 1] \notin {Dot, DotDot}
                                  THEN Cardinality(N) + 1 ELSE Cardinality(N)
    <2>1. CASE segments[k + 1] \notin {Dot, DotDot}
        <3>1. Naming(segments, i, k + 1) = N \cup {k + 1}
            BY <1>1, <2>1 DEF Naming
        <3>2. Cardinality(N \cup {k + 1}) = Cardinality(N) + 1
            BY <1>3, <1>4, FS_AddElement
        <3>3. QED
            BY <2>1, <3>1, <3>2, Zenon DEF Names
    <2>2. CASE segments[k + 1] \in {Dot, DotDot}
        <3>1. Naming(segments, i, k + 1) = N
            BY <1>1, <2>2 DEF Naming
        <3>2. QED
            BY <2>2, <3>1, Zenon DEF Names
    <2>3. QED
        BY <2>1, <2>2
<1>7. QED
    BY <1>3, <1>5, <1>6, Zenon DEF Dots, Names

LEMMA CountingStarts ==
    ASSUME NEW segments, NEW i \in Nat
    PROVE  Dots(segments, i, i) = 0 /\ Names(segments, i, i) = 0
<1>1. (i + 1)..i = {}
    OBVIOUS
<1>2. Cancelling(segments, i, i) = {} /\ Naming(segments, i, i) = {}
    BY <1>1 DEF Cancelling, Naming
<1>3. QED
    BY <1>2, FS_EmptySet DEF Dots, Names

\* After a survivor, the names exceed the dots by as many as survive.
Balanced(segments, k) ==
    \A i \in Survivors(segments, k) :
        Names(segments, i, k) = Dots(segments, i, k) + Cardinality(Later(Survivors(segments, k), i))

LEMMA LaterIsFinite ==
    ASSUME NEW k \in Nat, NEW S, S \subseteq 1..k, NEW i \in Nat
    PROVE  /\ IsFiniteSet(Later(S, i)) /\ Cardinality(Later(S, i)) \in Nat
           /\ Cardinality(Later(S, i)) = 0 <=> Later(S, i) = {}
<1>1. IsFiniteSet(1..k)
    BY FS_Interval
<1>2. Later(S, i) \subseteq 1..k
    BY DEF Later
<1>3. IsFiniteSet(Later(S, i))
    BY <1>1, <1>2, FS_Subset
<1>4. QED
    BY <1>3, FS_CardinalityType, FS_EmptySet

LEMMA ALastOne ==
    ASSUME NEW k \in Nat, NEW S, S \subseteq 1..k, S # {}
    PROVE  \E x \in S : \A y \in S : y <= x
<1> DEFINE D == {k - y : y \in S}
<1>1. D \subseteq Nat /\ D # {}
    <2>1. \A y \in S : k - y \in Nat
        OBVIOUS
    <2>2. QED
        BY <2>1
<1>2. FirstOf(D) \in D /\ \A d \in D : FirstOf(D) <= d
    <2> HIDE DEF D
    <2> QED BY <1>1, FirstOfIsFirst
<1>3. PICK x \in S : FirstOf(D) = k - x
    BY <1>2
<1>4. ASSUME NEW y \in S PROVE y <= x
    <2>1. k - x <= k - y
        BY <1>2, <1>3
    <2>2. x \in Nat /\ y \in Nat
        OBVIOUS
    <2>3. QED
        BY <2>1, <2>2
<1>5. QED
    BY <1>4

(* One more segment: a name survives, a dot changes nothing, and two dots  *)
(* cancel the last survivor.                                               *)
LEMMA SurvivorsGoOn ==
    ASSUME NEW segments, NEW k \in Nat, Balanced(segments, k)
    PROVE  LET S == Survivors(segments, k)
               next == Survivors(segments, k + 1)
           IN /\ segments[k + 1] \notin {Dot, DotDot} => next = S \cup {k + 1}
              /\ segments[k + 1] = Dot => next = S
              /\ segments[k + 1] = DotDot => next = {i \in S : Later(S, i) # {}}
<1> DEFINE S == Survivors(segments, k)
           next == Survivors(segments, k + 1)
           Fits(i, j) == ~(Dots(segments, i, j) > Names(segments, i, j))
           Named(i) == segments[i] \notin {Dot, DotDot}
<1>1. S \subseteq 1..k /\ \A i \in S : Named(i) /\ \A j \in (i + 1)..k : Fits(i, j)
    BY DEF Survivors
<1>2. \A i \in 1..k : i \in next <=> i \in S /\ Fits(i, k + 1)
    <2> TAKE i \in 1..k
    <2>1. (i + 1)..(k + 1) = ((i + 1)..k) \cup {k + 1}
        OBVIOUS
    <2>2. i \in 1..(k + 1)
        OBVIOUS
    <2> HIDE DEF Fits
    <2>3. i \in next <=> Named(i) /\ \A j \in (i + 1)..(k + 1) : Fits(i, j)
        BY <2>2 DEF Survivors, Fits
    <2>4. i \in S <=> Named(i) /\ \A j \in (i + 1)..k : Fits(i, j)
        BY DEF Survivors, Fits
    <2>5. QED
        BY <2>1, <2>3, <2>4
<1>3. k + 1 \in next <=> Named(k + 1)
    <2>1. (k + 1 + 1)..(k + 1) = {} /\ k + 1 \in 1..(k + 1)
        OBVIOUS
    <2>2. QED
        BY <2>1 DEF Survivors
<1>4. next \subseteq (1..k) \cup {k + 1}
    BY DEF Survivors
<1>5. ASSUME NEW i \in S
      PROVE  /\ Names(segments, i, k) = Dots(segments, i, k) + Cardinality(Later(S, i))
             /\ Names(segments, i, k) \in Nat /\ Dots(segments, i, k) \in Nat
             /\ Cardinality(Later(S, i)) \in Nat
             /\ Cardinality(Later(S, i)) = 0 <=> Later(S, i) = {}
             /\ i \in Nat /\ i <= k
    <2>1. i \in 1..k /\ i \in Nat /\ i <= k
        BY <1>1
    <2>2. Names(segments, i, k) = Dots(segments, i, k) + Cardinality(Later(S, i))
        BY DEF Balanced
    <2>3. Names(segments, i, k) \in Nat /\ Dots(segments, i, k) \in Nat
        BY <2>1, CountingOn
    <2> HIDE DEF S
    <2>4. /\ Cardinality(Later(S, i)) \in Nat
          /\ Cardinality(Later(S, i)) = 0 <=> Later(S, i) = {}
        BY <1>1, <2>1, LaterIsFinite
    <2>5. QED
        BY <2>1, <2>2, <2>3, <2>4
<1>6. ASSUME NEW i \in S
      PROVE  /\ Named(k + 1) => Fits(i, k + 1)
             /\ segments[k + 1] = Dot => Fits(i, k + 1)
             /\ segments[k + 1] = DotDot => (Fits(i, k + 1) <=> Later(S, i) # {})
    <2>1. i \in Nat /\ i <= k
        BY <1>5
    <2>2. /\ Dots(segments, i, k + 1) = IF segments[k + 1] = DotDot THEN Dots(segments, i, k) + 1
                                                                    ELSE Dots(segments, i, k)
          /\ Names(segments, i, k + 1) = IF segments[k + 1] \notin {Dot, DotDot}
                                         THEN Names(segments, i, k) + 1
                                         ELSE Names(segments, i, k)
        BY <2>1, CountingOn
    <2>3. Dot # DotDot
        BY DEF Dot, DotDot
    <2> HIDE DEF S
    <2>4. QED
        BY <1>5, <2>2, <2>3
<1> HIDE DEF S, next, Fits
<1>7. k + 1 \notin S
    BY <1>1
<1>8. QED
    <2>1. Dot # DotDot
        BY DEF Dot, DotDot
    <2>2. CASE Named(k + 1)
        <3>1. next = S \cup {k + 1}
            BY <1>1, <1>2, <1>3, <1>4, <1>6, <2>2
        <3>2. QED
            BY <2>2, <3>1 DEF next, S
    <2>3. CASE segments[k + 1] = Dot
        <3>1. next = S
            BY <1>1, <1>2, <1>3, <1>4, <1>6, <2>3
        <3>2. QED
            BY <2>1, <2>3, <3>1 DEF next, S
    <2>4. CASE segments[k + 1] = DotDot
        <3>1. next = {i \in S : Later(S, i) # {}}
            BY <1>1, <1>2, <1>3, <1>4, <1>6, <2>4
        <3>2. QED
            BY <2>1, <2>4, <3>1 DEF next, S
    <2>5. QED
        BY <2>2, <2>3, <2>4

LEMMA AllButTheLast ==
    ASSUME NEW k \in Nat, NEW S, S \subseteq 1..k, NEW x \in S, \A y \in S : y <= x
    PROVE  {i \in S : Later(S, i) # {}} = S \ {x}
<1>1. \A i \in S : i \in Nat
    OBVIOUS
<1>2. Later(S, x) = {}
    <2>1. \A y \in S : ~(y > x)
        BY <1>1
    <2>2. QED
        BY <2>1 DEF Later
<1>3. ASSUME NEW i \in S, i # x PROVE Later(S, i) # {}
    <2>1. x > i
        BY <1>1, <1>3
    <2>2. QED
        BY <2>1 DEF Later
<1>4. QED
    BY <1>2, <1>3

LEMMA BalancedStarts ==
    ASSUME NEW segments
    PROVE  Survivors(segments, 0) = {} /\ Balanced(segments, 0)
<1>1. Survivors(segments, 0) = {}
    BY DEF Survivors
<1>2. QED
    BY <1>1 DEF Balanced

LEMMA BalancedGoesOn ==
    ASSUME NEW segments, NEW k \in Nat, Balanced(segments, k)
    PROVE  Balanced(segments, k + 1)
<1> DEFINE S == Survivors(segments, k)
           next == Survivors(segments, k + 1)
           Ns(i, j) == Names(segments, i, j)
           Ds(i, j) == Dots(segments, i, j)
<1>0. Dot # DotDot
    BY DEF Dot, DotDot
<1>1. S \subseteq 1..k
    BY DEF Survivors
<1>2. /\ segments[k + 1] \notin {Dot, DotDot} => next = S \cup {k + 1}
      /\ segments[k + 1] = Dot => next = S
      /\ segments[k + 1] = DotDot => next = {i \in S : Later(S, i) # {}}
    BY SurvivorsGoOn
<1>3. ASSUME NEW i \in S
      PROVE  /\ Ns(i, k) = Ds(i, k) + Cardinality(Later(S, i))
             /\ i \in Nat /\ i <= k
             /\ Ns(i, k) \in Nat /\ Ds(i, k) \in Nat
             /\ Ds(i, k + 1) = IF segments[k + 1] = DotDot THEN Ds(i, k) + 1 ELSE Ds(i, k)
             /\ Ns(i, k + 1) = IF segments[k + 1] \notin {Dot, DotDot} THEN Ns(i, k) + 1 ELSE Ns(i, k)
    <2>1. i \in Nat /\ i <= k
        BY <1>1
    <2>2. Ns(i, k) = Ds(i, k) + Cardinality(Later(S, i))
        BY DEF Balanced
    <2> HIDE DEF S
    <2>3. QED
        BY <2>1, <2>2, CountingOn
<1>4. ASSUME NEW i \in S
      PROVE  IsFiniteSet(Later(S, i)) /\ Cardinality(Later(S, i)) \in Nat
    <2>1. i \in Nat
        BY <1>3
    <2> HIDE DEF S
    <2>2. QED
        BY <1>1, <2>1, LaterIsFinite
<1> HIDE DEF S, next, Ns, Ds
<1>5. SUFFICES \A i \in next : Ns(i, k + 1) = Ds(i, k + 1) + Cardinality(Later(next, i))
    BY DEF Balanced, next, Ns, Ds
<1>6. CASE segments[k + 1] \notin {Dot, DotDot}
    <2>1. next = S \cup {k + 1}
        BY <1>2, <1>6
    <2>2. ASSUME NEW i \in S
          PROVE  Ns(i, k + 1) = Ds(i, k + 1) + Cardinality(Later(next, i))
        <3>1. Later(next, i) = Later(S, i) \cup {k + 1} /\ k + 1 \notin Later(S, i)
            BY <1>1, <1>3, <2>1 DEF Later
        <3>2. Cardinality(Later(next, i)) = Cardinality(Later(S, i)) + 1
            BY <1>4, <3>1, FS_AddElement
        <3>3. Ns(i, k + 1) = Ns(i, k) + 1 /\ Ds(i, k + 1) = Ds(i, k)
            BY <1>3, <1>6
        <3>4. QED
            BY <1>3, <1>4, <3>2, <3>3
    <2>3. Ns(k + 1, k + 1) = Ds(k + 1, k + 1) + Cardinality(Later(next, k + 1))
        <3>1. Ns(k + 1, k + 1) = 0 /\ Ds(k + 1, k + 1) = 0
            BY CountingStarts DEF Ns, Ds
        <3>2. Later(next, k + 1) = {}
            <4>1. \A y \in next : ~(y > k + 1)
                BY <1>1, <2>1
            <4>2. QED
                BY <4>1 DEF Later
        <3>3. Cardinality(Later(next, k + 1)) = 0
            BY <3>2, FS_EmptySet
        <3>4. QED
            BY <3>1, <3>3
    <2>4. QED
        BY <2>1, <2>2, <2>3
<1>7. CASE segments[k + 1] = Dot
    <2>1. next = S
        BY <1>2, <1>7
    <2>2. ASSUME NEW i \in S
          PROVE  Ns(i, k + 1) = Ds(i, k + 1) + Cardinality(Later(next, i))
        <3>1. Ns(i, k + 1) = Ns(i, k) /\ Ds(i, k + 1) = Ds(i, k)
            BY <1>0, <1>3, <1>7
        <3>2. QED
            BY <1>3, <2>1, <3>1
    <2>3. QED
        BY <2>1, <2>2
<1>8. CASE segments[k + 1] = DotDot
    <2>1. next = {i \in S : Later(S, i) # {}}
        BY <1>2, <1>8
    <2>2. CASE S = {}
        BY <2>1, <2>2
    <2>3. CASE S # {}
        <3>1. PICK x \in S : \A y \in S : y <= x
            BY <1>1, <2>3, ALastOne
        <3>2. next = S \ {x}
            BY <1>1, <2>1, <3>1, AllButTheLast
        <3>3. ASSUME NEW i \in next
              PROVE  Ns(i, k + 1) = Ds(i, k + 1) + Cardinality(Later(next, i))
            <4>1. i \in S /\ i # x /\ x > i
                BY <1>3, <3>1, <3>2
            <4>2. Later(S, i) = Later(next, i) \cup {x} /\ x \notin Later(next, i)
                BY <3>2, <4>1 DEF Later
            <4>3. IsFiniteSet(Later(next, i))
                <5>1. Later(next, i) \subseteq Later(S, i)
                    BY <4>2
                <5>2. QED
                    BY <1>4, <4>1, <5>1, FS_Subset
            <4>4. Cardinality(Later(S, i)) = Cardinality(Later(next, i)) + 1
                BY <4>2, <4>3, FS_AddElement
            <4>5. Cardinality(Later(next, i)) \in Nat
                BY <4>3, FS_CardinalityType
            <4>6. Ns(i, k + 1) = Ns(i, k) /\ Ds(i, k + 1) = Ds(i, k) + 1
                BY <1>3, <1>8, <4>1
            <4>7. Ns(i, k) = Ds(i, k) + Cardinality(Later(S, i)) /\ Ns(i, k) \in Nat /\ Ds(i, k) \in Nat
                BY <1>3, <4>1
            <4>8. QED
                BY <4>4, <4>5, <4>6, <4>7
        <3>4. QED
            BY <3>3
    <2>4. QED
        BY <2>2, <2>3
<1>9. QED
    BY <1>6, <1>7, <1>8

LEMMA AlwaysBalanced ==
    ASSUME NEW segments, NEW k \in Nat
    PROVE  Balanced(segments, k)
<1> DEFINE P == {n \in Nat : Balanced(segments, n)}
<1>1. 0 \in P
    BY BalancedStarts
<1>2. \A n \in Nat : n \in P => n + 1 \in P
    BY BalancedGoesOn
<1>3. Nat \subseteq P
    <2> HIDE DEF P
    <2> QED BY <1>1, <1>2, NatInductive
<1>4. QED
    BY <1>3

-----------------------------------------------------------------------------
(* The walk keeps the survivors.                                           *)
Entries(segments) == {segments[i] : i \in Nat}

Chosen(segments, list) == [k \in DOMAIN list |-> segments[list[k]]]

LEMMA FrontOfAppend ==
    ASSUME NEW S, NEW s \in Seq(S), NEW e \in S
    PROVE  Front(Append(s, e)) = s
<1> DEFINE t == Append(s, e)
<1> PICK n \in Nat : n = Len(s)
    BY LenProperties
<1>1. t \in Seq(S) /\ Len(t) = n + 1 /\ \A i \in 1..n : t[i] = s[i]
    BY AppendProperties
<1> HIDE DEF t
<1>2. Front(t) = SubSeq(t, 1, n)
    <2>1. Len(t) - 1 = n
        BY <1>1
    <2>2. QED
        BY <2>1 DEF Front
<1>3. /\ SubSeq(t, 1, n) \in Seq(S) /\ Len(SubSeq(t, 1, n)) = n
      /\ \A i \in 1..n : SubSeq(t, 1, n)[i] = t[i]
    <2>1. n <= Len(t)
        BY <1>1
    <2>2. QED
        BY <1>1, <2>1, PartOfAPath
<1> HIDE DEF Front
<1>4. \A i \in 1..n : Front(t)[i] = s[i]
    BY <1>1, <1>2, <1>3
<1>5. Front(t) \in Seq(S) /\ Len(Front(t)) = n
    BY <1>2, <1>3
<1>6. Front(t) = s
    BY <1>4, <1>5, SeqEqual
<1>7. QED
    BY <1>6 DEF t

LEMMA ChosenIsAList ==
    ASSUME NEW segments, NEW list \in Seq(Nat)
    PROVE  /\ Chosen(segments, list) \in Seq(Entries(segments))
           /\ Len(Chosen(segments, list)) = Len(list)
           /\ \A k \in 1..Len(list) : Chosen(segments, list)[k] = segments[list[k]]
<1> DEFINE D == Entries(segments)
           c == Chosen(segments, list)
<1> PICK n \in Nat : n = Len(list)
    BY LenProperties
<1>1. DOMAIN list = 1..n /\ \A k \in 1..n : list[k] \in Nat
    BY LenProperties, ElementOfSeq
<1>2. c = [k \in 1..n |-> segments[list[k]]]
    BY <1>1 DEF Chosen
<1> HIDE DEF c
<1>3. c \in [1..n -> D]
    BY <1>1, <1>2 DEF Entries
<1> HIDE DEF D
<1>4. c \in Seq(D) /\ Len(c) = n
    BY <1>3, FunctionIsASeq
<1>5. QED
    BY <1>2, <1>4 DEF c, D

LEMMA ChosenAppend ==
    ASSUME NEW segments, NEW list \in Seq(Nat), NEW x \in Nat
    PROVE  Chosen(segments, Append(list, x)) = Append(Chosen(segments, list), segments[x])
<1> DEFINE D == Entries(segments)
           longer == Append(list, x)
           a == Chosen(segments, longer)
           c == Chosen(segments, list)
           b == Append(c, segments[x])
<1> PICK n \in Nat : n = Len(list)
    BY LenProperties
<1>1. longer \in Seq(Nat) /\ Len(longer) = n + 1 /\ longer[n + 1] = x /\ \A i \in 1..n : longer[i] = list[i]
    BY AppendProperties
<1> HIDE DEF longer
<1>2. a \in Seq(D) /\ Len(a) = n + 1 /\ \A i \in 1..(n + 1) : a[i] = segments[longer[i]]
    BY <1>1, ChosenIsAList
<1>3. c \in Seq(D) /\ Len(c) = n /\ \A i \in 1..n : c[i] = segments[list[i]]
    BY ChosenIsAList
<1>4. segments[x] \in D
    BY DEF Entries
<1> HIDE DEF a, c, D
<1>5. b \in Seq(D) /\ Len(b) = n + 1 /\ b[n + 1] = segments[x] /\ \A i \in 1..n : b[i] = c[i]
    BY <1>3, <1>4, AppendProperties
<1> HIDE DEF b
<1>6. \A i \in 1..(n + 1) : i \in 1..n \/ i = n + 1
    OBVIOUS
<1>7. \A i \in 1..(n + 1) : a[i] = b[i]
    BY <1>1, <1>2, <1>3, <1>5, <1>6
<1>8. a = b
    BY <1>2, <1>5, <1>7, SeqEqual
<1>9. QED
    BY <1>8 DEF a, b, c, longer

LEMMA KeptAreSurvivors ==
    ASSUME NEW segments, NEW n \in Nat, NEW f, IsWalk(f, "keep", segments, n)
    PROVE  f[n] = Chosen(segments, Positions(n, Survivors(segments, n)))
<1> DEFINE S(k) == Survivors(segments, k)
           left(k) == Positions(k, S(k))
           P == {k \in Nat : k <= n => f[k] = Chosen(segments, left(k))}
           D == Entries(segments)
<1>0. Dot # DotDot
    BY DEF Dot, DotDot
<1>1. f[0] = <<>> /\ \A i \in 1..n : f[i] = Keep(f[i - 1], segments[i])
    BY KeepSteps
<1>2. Chosen(segments, <<>>) = <<>>
    <2>1. <<>> \in Seq(Nat) /\ Len(<<>>) = 0
        BY EmptySeq
    <2>2. Chosen(segments, <<>>) \in Seq(D) /\ Len(Chosen(segments, <<>>)) = 0
        BY <2>1, ChosenIsAList
    <2> HIDE DEF D
    <2>3. QED
        BY <2>2, EmptySeq
<1>3. 0 \in P
    <2>1. left(0) = <<>>
        BY PositionsStep
    <2>2. f[0] = Chosen(segments, left(0))
        BY <1>1, <1>2, <2>1, Zenon
    <2>3. QED
        BY <2>2
<1>4. ASSUME NEW k \in Nat, k \in P PROVE k + 1 \in P
    <2>1. SUFFICES ASSUME k + 1 <= n PROVE f[k + 1] = Chosen(segments, left(k + 1))
        OBVIOUS
    <2>2. f[k] = Chosen(segments, left(k))
        BY <1>4, <2>1
    <2>3. f[k + 1] = Keep(f[k], segments[k + 1])
        <3>1. k + 1 \in 1..n /\ (k + 1) - 1 = k
            BY <2>1
        <3>2. QED
            BY <1>1, <3>1
    <2>4. /\ segments[k + 1] \notin {Dot, DotDot} => S(k + 1) = S(k) \cup {k + 1}
          /\ segments[k + 1] = Dot => S(k + 1) = S(k)
          /\ segments[k + 1] = DotDot => S(k + 1) = {i \in S(k) : Later(S(k), i) # {}}
        BY AlwaysBalanced, SurvivorsGoOn
    <2>5. S(k) \subseteq 1..k
        BY DEF Survivors
    <2>6. left(k) \in Seq(Nat)
        BY PositionsAreNat
    <2> HIDE DEF S
    <2>7. CASE segments[k + 1] \notin {Dot, DotDot}
        <3>1. \A i \in 1..k : i \in S(k) <=> i \in S(k + 1)
            BY <2>4, <2>7
        <3>2. Positions(k, S(k + 1)) = left(k)
            BY <3>1, PositionsAgree
        <3>3. k + 1 \in S(k + 1)
            BY <2>4, <2>7
        <3>4. left(k + 1) = Append(left(k), k + 1)
            BY <3>2, <3>3, PositionsStep
        <3>5. Chosen(segments, Append(left(k), k + 1)) = Append(Chosen(segments, left(k)), segments[k + 1])
            <4>1. k + 1 \in Nat
                OBVIOUS
            <4> HIDE DEF left
            <4>2. QED
                BY <2>6, <4>1, ChosenAppend
        <3>6. Keep(f[k], segments[k + 1]) = Append(f[k], segments[k + 1])
            BY <2>7 DEF Keep
        <3> HIDE DEF left
        <3>7. QED
            BY <2>2, <2>3, <3>4, <3>5, <3>6
    <2>8. CASE segments[k + 1] = Dot
        <3>1. k + 1 \notin S(k + 1)
            BY <2>4, <2>5, <2>8
        <3>2. left(k + 1) = Positions(k, S(k + 1))
            BY <3>1, PositionsStep
        <3>3. left(k + 1) = left(k)
            BY <2>4, <2>8, <3>2
        <3>4. Keep(f[k], segments[k + 1]) = f[k]
            BY <2>8 DEF Keep
        <3> HIDE DEF left
        <3>5. QED
            BY <2>2, <2>3, <3>3, <3>4
    <2>9. CASE segments[k + 1] = DotDot
        <3>1. CASE S(k) = {}
            <4>1. S(k + 1) = {}
                BY <2>4, <2>9, <3>1
            <4>2. \A j \in Nat : Positions(j, {}) = <<>>
                <5> TAKE j \in Nat
                <5>1. Positions(0, {}) = <<>>
                    BY PositionsStep
                <5>2. Positions(j, {}) = Positions(0, {})
                    <6> PICK z \in Nat : z = 0
                        OBVIOUS
                    <6>1. z <= j /\ \A i \in {} : i \in Nat => i <= z
                        OBVIOUS
                    <6>2. Positions(j, {}) = Positions(z, {})
                        BY <6>1, PositionsEnd
                    <6>3. QED
                        BY <6>2
                <5>3. QED
                    BY <5>1, <5>2
            <4>3. left(k) = <<>> /\ left(k + 1) = <<>>
                <5>1. k + 1 \in Nat
                    OBVIOUS
                <5>2. QED
                    BY <3>1, <4>1, <4>2, <5>1, Zenon
            <4>4. f[k] = <<>>
                BY <1>2, <2>2, <4>3, Zenon
            <4>5. f[k + 1] = <<>>
                BY <1>0, <2>3, <2>9, <4>4 DEF Keep
            <4>6. QED
                BY <1>2, <4>3, <4>5, Zenon
        <3>2. CASE S(k) # {}
            <4>1. PICK x \in S(k) : \A y \in S(k) : y <= x
                BY <2>5, <3>2, ALastOne
            <4>2. x \in Nat /\ x # 0 /\ x <= k
                BY <2>5
            <4> PICK w \in Nat : w = x - 1
                <5>1. x - 1 \in Nat
                    BY <4>2
                <5>2. QED
                    BY <5>1
            <4>3. w + 1 = x
                BY <4>2
            <4> DEFINE m == Positions(w, S(k))
            <4>4. left(k) = Append(m, x)
                <5>1. left(k) = Positions(x, S(k))
                    BY <4>1, <4>2, PositionsEnd
                <5>2. Positions(w + 1, S(k)) = Append(m, w + 1)
                    <6>1. w + 1 \in S(k)
                        BY <4>3
                    <6>2. QED
                        BY <6>1, PositionsStep
                <5>3. QED
                    BY <4>3, <5>1, <5>2
            <4>5. S(k + 1) = S(k) \ {x}
                <5>1. {i \in S(k) : Later(S(k), i) # {}} = S(k) \ {x}
                    BY <2>5, <4>1, AllButTheLast
                <5>2. QED
                    BY <2>4, <2>9, <5>1
            <4>6. left(k + 1) = m
                <5>1. \A i \in S(k + 1) : i \in Nat => i <= w
                    BY <4>1, <4>2, <4>3, <4>5
                <5>2. w <= k + 1 /\ k + 1 \in Nat
                    BY <4>2, <4>3
                <5>3. left(k + 1) = Positions(w, S(k + 1))
                    BY <5>1, <5>2, PositionsEnd
                <5>4. \A i \in 1..w : i \in S(k + 1) <=> i \in S(k)
                    BY <4>3, <4>5
                <5>5. Positions(w, S(k + 1)) = m
                    BY <5>4, PositionsAgree
                <5>6. QED
                    BY <5>3, <5>5
            <4>7. m \in Seq(Nat)
                BY PositionsAreNat
            <4> HIDE DEF m, left
            <4>8. f[k] = Append(Chosen(segments, m), segments[x])
                BY <2>2, <4>2, <4>4, <4>7, ChosenAppend
            <4>9. Chosen(segments, m) \in Seq(D) /\ segments[x] \in D
                BY <4>2, <4>7, ChosenIsAList DEF Entries
            <4> HIDE DEF D
            <4>10. Front(f[k]) = Chosen(segments, m)
                BY <4>8, <4>9, FrontOfAppend
            <4>11. f[k] # <<>>
                BY <4>8, <4>9, AppendProperties
            <4>12. f[k + 1] = Front(f[k])
                BY <1>0, <2>3, <2>9, <4>11 DEF Keep
            <4>13. QED
                BY <4>6, <4>10, <4>12
        <3>3. QED
            BY <3>1, <3>2
    <2>10. QED
        BY <2>7, <2>8, <2>9
<1>5. Nat \subseteq P
    <2> HIDE DEF P
    <2> QED BY <1>3, <1>4, NatInductive
<1>6. QED
    BY <1>5

LEMMA AbsoluteIsKept ==
    ASSUME NEW T, NEW p \in Seq(T)
    PROVE  Root(Resolve(p)) = Root(p)
<1> DEFINE q == Resolve(p)
<1>1. DOMAIN p = 1..Len(p) /\ Len(p) \in Nat
    BY LenProperties
<1>2. q = [i \in 1..Len(p) |-> ResolvedToken(p[i])]
    BY <1>1 DEF Resolve, ResolvedToken
<1>3. q \in Seq(Normal(T))
    BY ResolveIsAPath
<1> HIDE DEF q
<1>4. p # <<>> <=> 1 \in 1..Len(p)
    BY <1>1, EmptySeq
<1>5. q # <<>> <=> 1 \in 1..Len(p)
    <2>1. DOMAIN q = 1..Len(q) /\ Len(q) \in Nat
        BY <1>3, LenProperties
    <2>2. q # <<>> <=> 1 \in 1..Len(q)
        BY <1>3, <2>1, EmptySeq
    <2>3. DOMAIN q = 1..Len(p)
        BY <1>2
    <2>4. QED
        BY <2>1, <2>2, <2>3
<1>6. ASSUME 1 \in 1..Len(p) PROVE q[1] = "/" <=> p[1] = "/"
    <2>1. q[1] = ResolvedToken(p[1])
        BY <1>2, <1>6
    <2>2. ASSUME NEW t PROVE ResolvedToken(t) = "/" <=> t = "/"
        <3>1. CASE ~IsEscape(t)
            BY <3>1 DEF ResolvedToken
        <3>2. CASE IsEscape(t)
            <4>1. /\ t # "/" /\ Uppercased[t] # "/"
                BY <3>2, RoutingAssumption DEF RoutingAssumption, IsEscape
            <4>2. "/" \notin Unreserved
                BY DEF Unreserved, Digits
            <4>3. QED
                BY <3>2, <4>1, <4>2 DEF ResolvedToken
        <3>3. QED
            BY <3>1, <3>2
    <2>3. QED
        BY <2>1, <2>2
<1>7. Absolute(q) <=> Absolute(p)
    BY <1>4, <1>5, <1>6 DEF Absolute
<1>8. QED
    BY <1>7 DEF Root, q

(* The walk and the description agree.                                     *)
LEMMA NormalizedByWalking ==
    ASSUME NEW T, NEW p \in Seq(T)
    PROVE  NormalizePath(p) = DotFree(p)
<1> DEFINE q == Resolve(p)
           segments == Split(Body(q))
           left == Positions(Len(segments), Survivors(segments, Len(segments)))
           ending == IF segments[Len(segments)] \notin {Dot, DotDot} THEN <<>> ELSE << <<>> >>
<1>1. segments \in Seq(Seq(Slashless(Normal(T)))) /\ segments # <<>>
    BY ResolveIsAPath, BodyIsAPath, SplitPieces
<1>2. Len(segments) \in Nat
    BY <1>1, LenProperties
<1>3. DotFree(p) = Root(p) \o Join(Chosen(segments, left) \o ending)
    <2> DEFINE n == Len(segments)
               Named(i) == segments[i] \notin {Dot, DotDot}
               Between(i, j) == (i + 1)..j
               cancelled(i) == \E j \in Between(i, n) :
                   Cardinality({k \in Between(i, j) : segments[k] = DotDot})
                       > Cardinality({k \in Between(i, j) : Named(k)})
               survives(i) == Named(i) /\ ~cancelled(i)
               members == {i \in 1..n : survives(i)}
               chosen  == Positions(n, members)
    <2>1. DotFree(p) = Root(p) \o Join([k \in DOMAIN chosen |-> segments[chosen[k]]] \o ending)
        BY DEF DotFree
    <2>2. members = Survivors(segments, n)
        <3>1. \A i, j : /\ {k \in Between(i, j) : segments[k] = DotDot} = Cancelling(segments, i, j)
                        /\ {k \in Between(i, j) : Named(k)} = Naming(segments, i, j)
            BY DEF Cancelling, Naming
        <3>2. \A i : cancelled(i) <=> \E j \in (i + 1)..n : Dots(segments, i, j) > Names(segments, i, j)
            BY <3>1, ZenonT(40) DEF Dots, Names
        <3> HIDE DEF cancelled
        <3>3. QED
            BY <3>2 DEF Survivors
    <2> HIDE DEF members, segments
    <2>3. QED
        BY <2>1, <2>2 DEF Chosen
<1>4. PICK f : /\ IsWalk(f, "keep", segments, Len(segments))
               /\ RemoveDotSegments(q) = Root(q) \o Join(f[Len(segments)] \o Ending(segments))
    BY <1>2, RemoveDotSegmentsWalks
<1>5. f[Len(segments)] = Chosen(segments, left)
    <2> HIDE DEF segments
    <2> QED BY <1>2, <1>4, KeptAreSurvivors
<1>6. Ending(segments) = ending
    BY DEF Ending, Last
<1>7. Root(q) = Root(p)
    BY AbsoluteIsKept
<1>8. NormalizePath(p) = RemoveDotSegments(q)
    BY DEF NormalizePath
<1> HIDE DEF segments, left, ending, q
<1>9. QED
    BY <1>3, <1>4, <1>5, <1>6, <1>7, <1>8

(* A path without dot segments keeps all of its segments.                  *)
LEMMA NothingToRemove ==
    ASSUME NEW T, "/" \in T, NEW p \in Seq(T), Range(Split(p)) \cap {Dot, DotDot} = {}
    PROVE  RemoveDotSegments(p) = p
<1> DEFINE segments == Split(Body(p))
           S == Seq(Slashless(T))
<1>1. Body(p) \in Seq(T) /\ (Absolute(p) => p = <<"/">> \o Body(p))
    BY BodyIsAPath
<1>2. segments \in Seq(S) /\ segments # <<>>
    BY <1>1, SplitPieces
<1> PICK n \in Nat : n = Len(segments)
    BY <1>2, LenProperties
<1>3. n # 0 /\ \A i \in 1..n : segments[i] \in S
    BY <1>2, EmptySeq, ElementOfSeq
<1>4. \A i \in 1..n : segments[i] \notin {Dot, DotDot}
    <2>1. Range(segments) = {segments[i] : i \in 1..n}
        BY <1>2, RangeEquality
    <2>2. Range(segments) \subseteq Range(Split(p))
        <3>1. CASE Absolute(p)
            <4> DEFINE one == << <<>> >>
            <4>1. Split(<<"/">> \o Body(p)) = one \o segments
                BY <1>1, SplitAfterASlash
            <4>2. one \in Seq(S)
                BY EmptySeq
            <4> HIDE DEF one, segments, S
            <4>3. Split(p) = one \o segments
                BY <1>1, <3>1, <4>1, Zenon
            <4>4. Range(one \o segments) = Range(one) \cup Range(segments)
                BY <1>2, <4>2, RangeConcatenation
            <4>5. QED
                BY <4>3, <4>4
        <3>2. CASE ~Absolute(p)
            BY <3>2 DEF Body
        <3>3. QED
            BY <3>1, <3>2
    <2>3. QED
        BY <2>1, <2>2
<1>5. PICK f : /\ IsWalk(f, "keep", segments, n)
               /\ RemoveDotSegments(p) = Root(p) \o Join(f[n] \o Ending(segments))
    BY RemoveDotSegmentsWalks
<1> HIDE DEF segments
<1>6. f[n] = segments
    <2> DEFINE P == {k \in Nat : k <= n => f[k] = SubSeq(segments, 1, k)}
    <2>1. f[0] = <<>> /\ \A i \in 1..n : f[i] = Append(f[i - 1], segments[i])
        <3>1. f[0] = <<>> /\ \A i \in 1..n : f[i] = Keep(f[i - 1], segments[i])
            <4>1. IsWalk(f, "keep", segments, n)
                BY <1>5, Zenon
            <4>2. QED
                BY <4>1, KeepSteps, SMTT(30)
        <3>2. \A i \in 1..n : Keep(f[i - 1], segments[i]) = Append(f[i - 1], segments[i])
            BY <1>4 DEF Keep
        <3>3. QED
            BY <3>1, <3>2
    <2>2. 0 \in P
        <3>1. SubSeq(segments, 1, 0) = <<>>
            BY SubSeqEmpty
        <3>2. QED
            BY <2>1, <3>1
    <2>3. ASSUME NEW k \in Nat, k \in P PROVE k + 1 \in P
        <3>1. SUFFICES ASSUME k + 1 <= n PROVE f[k + 1] = SubSeq(segments, 1, k + 1)
            OBVIOUS
        <3> DEFINE a == SubSeq(segments, 1, k)
                   b == SubSeq(segments, 1, k + 1)
                   c == Append(a, segments[k + 1])
        <3>2. f[k] = a
            BY <2>3, <3>1
        <3>3. f[k + 1] = c
            <4>1. k + 1 \in 1..n /\ (k + 1) - 1 = k
                BY <3>1
            <4>2. QED
                BY <2>1, <3>2, <4>1
        <3> HIDE DEF S
        <3>4. a \in Seq(S) /\ Len(a) = k /\ \A i \in 1..k : a[i] = segments[i]
            <4>1. k <= Len(segments)
                BY <3>1
            <4>2. QED
                BY <1>2, <4>1, PartOfAPath
        <3>5. b \in Seq(S) /\ Len(b) = k + 1 /\ \A i \in 1..(k + 1) : b[i] = segments[i]
            <4> PICK m \in Nat : m = k + 1
                OBVIOUS
            <4>1. m <= Len(segments)
                BY <3>1
            <4>2. /\ SubSeq(segments, 1, m) \in Seq(S) /\ Len(SubSeq(segments, 1, m)) = m
                  /\ \A i \in 1..m : SubSeq(segments, 1, m)[i] = segments[i]
                BY <1>2, <4>1, PartOfAPath
            <4>3. QED
                BY <4>2
        <3>6. segments[k + 1] \in S
            BY <1>3, <3>1
        <3> HIDE DEF a, b
        <3>7. c \in Seq(S) /\ Len(c) = k + 1 /\ c[k + 1] = segments[k + 1] /\ \A i \in 1..k : c[i] = a[i]
            BY <3>4, <3>6, AppendProperties
        <3> HIDE DEF c
        <3>8. \A i \in 1..(k + 1) : i \in 1..k \/ i = k + 1
            OBVIOUS
        <3>9. \A i \in 1..(k + 1) : c[i] = b[i]
            BY <3>4, <3>5, <3>7, <3>8
        <3>10. c = b
            BY <3>5, <3>7, <3>9, SeqEqual
        <3>11. QED
            BY <3>3, <3>10 DEF b
    <2>4. Nat \subseteq P
        <3> HIDE DEF P
        <3> QED BY <2>2, <2>3, NatInductive
    <2>5. f[n] = SubSeq(segments, 1, n)
        BY <2>4
    <2>6. SubSeq(segments, 1, Len(segments)) = segments
        BY <1>2, SubSeqFull
    <2>7. QED
        BY <2>5, <2>6
<1>7. Ending(segments) = <<>>
    BY <1>3, <1>4 DEF Ending, Last
<1>8. segments \o <<>> = segments
    BY <1>2, ConcatEmptySeq
<1>9. Join(segments) = Body(p)
    BY <1>1, JoinOfSplit DEF segments
<1>10. RemoveDotSegments(p) = Root(p) \o Body(p)
    BY <1>5, <1>6, <1>7, <1>8, <1>9
<1>11. CASE Absolute(p)
    BY <1>1, <1>10, <1>11 DEF Root
<1>12. CASE ~Absolute(p)
    <2>1. Root(p) = <<>> /\ Body(p) = p
        BY <1>12 DEF Root, Body
    <2>2. <<>> \o p = p
        BY ConcatEmptySeq
    <2>3. QED
        BY <1>10, <2>1, <2>2, Zenon
<1>13. QED
    BY <1>11, <1>12

LEMMA NormalStaysNormal ==
    ASSUME NEW T, NEW p \in Seq(Normal(T))
    PROVE  Resolve(p) = p
<1>1. p \in [1..Len(p) -> Normal(T)] /\ DOMAIN p = 1..Len(p)
    BY LenProperties
<1>2. Resolve(p) = [i \in 1..Len(p) |-> ResolvedToken(p[i])]
    BY <1>1 DEF Resolve, ResolvedToken
<1>3. \A t \in Normal(T) : ResolvedToken(t) = t
    BY DEF Normal, ResolvedToken
<1>4. \A i \in 1..Len(p) : ResolvedToken(p[i]) = p[i]
    BY <1>1, <1>3
<1>5. p = [i \in 1..Len(p) |-> p[i]]
    BY <1>1
<1>6. QED
    BY <1>2, <1>4, <1>5

(* Normalising a target removes exactly the dot segments and what they     *)
(* cancel and leaves nothing to do a second time, for every target         *)
(* (normalize_path, path.cpp:14-114).                                      *)
THEOREM PathsAreNormalized == Spec => []NormalizedAsWritten
<1>1. ASSUME RouterInv PROVE NormalizedAsWritten
    <2> DEFINE target == query.target
               T == Range(target)
               p == PathOf(target)
               path == RoutablePath(target)
    <2>1. target \in Seq(T)
        BY <1>1, RouterAssumption DEF RouterInv, RoutesInv, RouterAssumption
    <2> HIDE DEF target, T
    <2>2. p \in Seq(T)
        BY <2>1, PathOfIsAPath
    <2>3. path = DotFree(p)
        <3>1. path = NormalizePath(p)
            BY DEF RoutablePath
        <3> HIDE DEF p
        <3>2. QED
            BY <2>2, <3>1, NormalizedByWalking
    <2>4. path \in Seq(Normal(T)) /\ Range(Split(path)) \cap {Dot, DotDot} = {} /\ "/" \in Normal(T)
        BY <2>1, <2>2, RoutablePathIsNormal, ResolveIsAPath
    <2> HIDE DEF path
    <2>5. NormalizePath(path) = path
        BY <2>4, NormalStaysNormal, NothingToRemove DEF NormalizePath
    <2>6. QED
        BY <2>3, <2>5 DEF NormalizedAsWritten, path, p, target
<1>2. QED
    BY <1>1, AlwaysRouterInv, PTL
=============================================================================
