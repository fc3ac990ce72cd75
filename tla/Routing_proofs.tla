-------------------------- MODULE Routing_proofs --------------------------
(***************************************************************************)
(* What normalize_path, find and allowed_methods return, for every table   *)
(* and every target: the facts Router_proofs and Pipeline_proofs rest on.  *)
(*                                                                         *)
(* The recursive functions of Routing all walk along a sequence.  A walk   *)
(* exists for any of them (WalkExists), so each unfolds by one step        *)
(* (SplitAppend, JoinAppend, KeepSteps, PositionsStep), and what it        *)
(* computes is then shown by induction, over a set of numbers              *)
(* (NatInductive) or of sequences (SeqInductive).                          *)
(***************************************************************************)
EXTENDS Routing, WellFoundedInduction, SequenceTheorems, FiniteSetTheorems, TLAPS

(***************************************************************************)
(* Induction over the natural numbers, for a set rather than a predicate:  *)
(* what holds 0 and with each number the next one holds all of them.       *)
(***************************************************************************)
LEMMA NatInductive ==
    ASSUME NEW T, 0 \in T, \A n \in Nat : n \in T => n + 1 \in T
    PROVE  Nat \subseteq T
<1> DEFINE U == Nat \ T
           R == {ss \in Nat \X Nat : ss[1] < ss[2]}
<1>1. IsWellFoundedOn(R, Nat)
    BY NatLessThanWellFounded DEF OpToRel
<1>2. SUFFICES ASSUME U # {} PROVE FALSE
    OBVIOUS
<1>3. PICK x \in U : \A y \in U : ~ (<<y, x>> \in R)
    <2>1. U \subseteq Nat
        OBVIOUS
    <2>2. QED
        <3> HIDE DEF U, R
        <3> QED BY <1>1, <1>2, <2>1, WFMin
<1>4. x \in Nat /\ x # 0 /\ x - 1 \in Nat
    OBVIOUS
<1>5. <<x - 1, x>> \in R
    BY <1>4
<1>6. x - 1 \in T
    BY <1>3, <1>4, <1>5
<1>7. QED
    BY <1>4, <1>6

(* The first of some positions is one of them and none comes before it.    *)
LEMMA FirstOfIsFirst ==
    ASSUME NEW P, P \subseteq Nat, P # {}
    PROVE  FirstOf(P) \in P /\ \A j \in P : FirstOf(P) <= j
<1> DEFINE R == {ss \in Nat \X Nat : ss[1] < ss[2]}
<1>1. IsWellFoundedOn(R, Nat)
    BY NatLessThanWellFounded DEF OpToRel
<1>2. PICK x \in P : \A y \in P : ~ (<<y, x>> \in R)
    <2> HIDE DEF R
    <2> QED BY <1>1, WFMin
<1>3. \A y \in P : x <= y
    <2> SUFFICES ASSUME NEW y \in P PROVE x <= y
        OBVIOUS
    <2>1. <<y, x>> \notin R
        BY <1>2
    <2>2. QED
        BY <2>1
<1>4. QED
    BY <1>3 DEF FirstOf

(* Two firsts are the same.                                                *)
LEMMA FirstIsUnique ==
    ASSUME NEW P, P \subseteq Nat, NEW i \in P, \A j \in P : i <= j
    PROVE  FirstOf(P) = i
<1>1. FirstOf(P) \in P /\ FirstOf(P) <= i
    BY FirstOfIsFirst
<1>2. i <= FirstOf(P) /\ FirstOf(P) \in Nat /\ i \in Nat
    BY <1>1
<1> HIDE DEF FirstOf
<1>3. QED
    BY <1>1, <1>2, SMT

-----------------------------------------------------------------------------
(* Split, Join, remove_dot_segments, Positions and AllowedMethods are all  *)
(* one walk: a start, and a step for every position up to n.               *)

\* What one more route makes of the methods allowed.
Listed(before, table, serving, i) ==
    IF i \in serving THEN WithImplied(before, table[i].method) ELSE before

Stepped(kind, d, before, i) ==
    IF kind = "split" THEN Longer(before, d[i])
    ELSE IF kind = "join" THEN Joined(before, d[i], i)
    ELSE IF kind = "keep" THEN Keep(before, d[i])
    ELSE IF kind = "allowed" THEN Listed(before, d.table, d.serving, i)
    ELSE IF i \in d THEN Append(before, i) ELSE before

Started(kind) == IF kind = "split" THEN << <<>> >> ELSE <<>>

IsWalk(f, kind, d, n) ==
    f = [i \in 0..n |-> IF i = 0 THEN Started(kind) ELSE Stepped(kind, d, f[i - 1], i)]

LEMMA WalkExists ==
    ASSUME NEW kind, NEW d, NEW n \in Nat
    PROVE  \E f : IsWalk(f, kind, d, n)
<1> DEFINE T == {k \in Nat : \E f : IsWalk(f, kind, d, k)}
<1>1. 0 \in T
    <2> DEFINE f == [i \in 0..0 |-> Started(kind)]
    <2>1. f = [i \in 0..0 |-> IF i = 0 THEN Started(kind) ELSE Stepped(kind, d, f[i - 1], i)]
        OBVIOUS
    <2>2. QED
        BY <2>1 DEF IsWalk
<1>2. ASSUME NEW k \in Nat, k \in T
      PROVE  k + 1 \in T
    <2>1. PICK f : IsWalk(f, kind, d, k)
        BY <1>2
    <2> DEFINE g == [i \in 0..(k + 1) |-> IF i = k + 1 THEN Stepped(kind, d, f[k], k + 1)
                                                       ELSE f[i]]
    <2>2. \A i \in 0..k : g[i] = f[i]
        OBVIOUS
    <2>3. ASSUME NEW i \in 0..(k + 1)
          PROVE  g[i] = IF i = 0 THEN Started(kind) ELSE Stepped(kind, d, g[i - 1], i)
        <3>1. CASE i = k + 1
            <4>1. g[i] = Stepped(kind, d, f[k], k + 1) /\ g[i - 1] = f[k]
                BY <3>1
            <4>2. QED
                BY <3>1, <4>1
        <3>2. CASE i = 0
            BY <2>1, <3>2 DEF IsWalk
        <3>3. CASE i \in 1..k
            <4>1. i - 1 \in 0..k /\ i \in 0..k
                BY <3>3
            <4>2. f[i] = Stepped(kind, d, f[i - 1], i)
                BY <2>1, <3>3, <4>1 DEF IsWalk
            <4>3. QED
                BY <2>2, <3>3, <4>1, <4>2
        <3>4. QED
            BY <3>1, <3>2, <3>3
    <2>4. IsWalk(g, kind, d, k + 1)
        <3>1. g = [i \in 0..(k + 1) |-> g[i]]
            OBVIOUS
        <3> HIDE DEF g
        <3>2. QED
            BY <2>3, <3>1 DEF IsWalk
    <2>5. QED
        BY <2>4
<1>3. QED
    BY <1>1, <1>2, NatInductive

(* Two walks that take the same steps are in the same place.               *)
LEMMA WalksAgree ==
    ASSUME NEW kind, NEW d, NEW e, NEW n \in Nat, NEW m \in Nat, NEW f, NEW g,
           n <= m, IsWalk(f, kind, d, n), IsWalk(g, kind, e, m),
           d = e \/ (kind \in {"split", "join", "keep"} /\ \A i \in 1..n : d[i] = e[i])
    PROVE  \A i \in 0..n : f[i] = g[i]
<1> DEFINE T == {k \in Nat : k <= n => f[k] = g[k]}
<1>1. 0 \in T
    BY DEF IsWalk
<1>2. ASSUME NEW k \in Nat, k \in T PROVE k + 1 \in T
    <2>1. SUFFICES ASSUME k + 1 <= n PROVE f[k + 1] = g[k + 1]
        OBVIOUS
    <2>2. f[k] = g[k]
        BY <1>2, <2>1
    <2>3. k + 1 \in 0..n /\ k + 1 \in 0..m /\ k + 1 \in 1..n /\ k + 1 # 0 /\ (k + 1) - 1 = k
        BY <2>1
    <2>4. f[k + 1] = Stepped(kind, d, f[k], k + 1)
        BY <2>3 DEF IsWalk
    <2>5. g[k + 1] = Stepped(kind, e, g[k], k + 1)
        BY <2>3 DEF IsWalk
    <2>6. Stepped(kind, d, f[k], k + 1) = Stepped(kind, e, f[k], k + 1)
        <3>1. CASE d = e
            BY <3>1
        <3>2. CASE d # e
            <4>1. d[k + 1] = e[k + 1]
                BY <2>3, <3>2
            <4>2. QED
                BY <3>2, <4>1, Zenon DEF Stepped
        <3>3. QED
            BY <3>1, <3>2
    <2>7. QED
        BY <2>2, <2>4, <2>5, <2>6
<1>3. Nat \subseteq T
    <2> HIDE DEF T
    <2> QED BY <1>1, <1>2, NatInductive
<1>4. QED
    BY <1>3

(* A walk over more is one step ahead.                                     *)
LEMMA WalkGoesOn ==
    ASSUME NEW kind \in {"split", "join", "keep"}, NEW d, NEW e, NEW n \in Nat,
           NEW f, IsWalk(f, kind, d, n), NEW g, IsWalk(g, kind, e, n + 1),
           \A i \in 1..n : d[i] = e[i]
    PROVE  g[n + 1] = Stepped(kind, e, f[n], n + 1)
<1> PICK m \in Nat : m = n + 1
    OBVIOUS
<1>1. \A i \in 0..n : f[i] = g[i]
    <2>1. n <= m /\ IsWalk(g, kind, e, m)
        OBVIOUS
    <2>2. QED
        BY <2>1, WalksAgree
<1>2. n \in 0..n /\ m \in 0..m /\ m # 0 /\ m - 1 = n
    OBVIOUS
<1>3. g[m] = Stepped(kind, e, g[n], m)
    BY <1>2 DEF IsWalk
<1>4. QED
    BY <1>1, <1>2, <1>3

LEMMA WalkSteps ==
    ASSUME NEW kind, NEW d, NEW n \in Nat, NEW f, IsWalk(f, kind, d, n)
    PROVE  /\ f[0] = Started(kind)
           /\ \A i \in 1..n : f[i] = Stepped(kind, d, f[i - 1], i)
BY DEF IsWalk

-----------------------------------------------------------------------------
(* The routes that answer a method: its own, and GET's for a HEAD.         *)
Answers(route, method) ==
    route.method = method \/ (route.method = "GET" /\ method = "HEAD")

LEMMA FindAnswers ==
    ASSUME NEW table, DOMAIN table \subseteq Nat \ {0}, NEW q
    PROVE  LET serving == Serving(table, RoutablePath(q.target))
               found   == Find(table, q)
           IN /\ found.path_matched = (serving # {})
              /\ found.handler # 0 => /\ found.handler \in serving
                                      /\ Answers(table[found.handler], q.method)
                                      /\ found.path_matched
              /\ found.handler = 0 => \A i \in serving : ~Answers(table[i], q.method)
<1> DEFINE serving == Serving(table, RoutablePath(q.target))
           own == {i \in serving : table[i].method = q.method}
           get == {i \in serving : table[i].method = "GET"}
           found == Find(table, q)
<1>1. serving \subseteq Nat \ {0}
    BY DEF Serving
<1>2. CASE own # {}
    <2>1. FirstOf(own) \in own
        BY <1>1, <1>2, FirstOfIsFirst
    <2>2. found.handler = FirstOf(own) /\ found.path_matched = TRUE
        BY <1>2 DEF Find
    <2>3. QED
        BY <1>1, <2>1, <2>2 DEF Answers
<1>3. CASE own = {} /\ q.method = "HEAD" /\ get # {}
    <2>1. FirstOf(get) \in get
        BY <1>1, <1>3, FirstOfIsFirst
    <2>2. found.handler = FirstOf(get) /\ found.path_matched = TRUE
        BY <1>3 DEF Find
    <2>3. QED
        BY <1>1, <1>3, <2>1, <2>2 DEF Answers
<1>4. CASE own = {} /\ ~(q.method = "HEAD" /\ get # {})
    <2>1. found.handler = 0 /\ found.path_matched = (serving # {})
        BY <1>4 DEF Find, NotFound
    <2>2. QED
        BY <1>4, <2>1 DEF Answers
<1>5. QED
    BY <1>2, <1>3, <1>4

-----------------------------------------------------------------------------
(* allowed_methods, along the table.                                       *)

LEMMA AllowedMethodsUnfolds ==
    ASSUME NEW table, Len(table) \in Nat, NEW target
    PROVE  LET serving == Serving(table, RoutablePath(target))
           IN \E f : /\ f[0] = <<>>
                     /\ \A i \in 1..Len(table) : f[i] = Listed(f[i - 1], table, serving, i)
                     /\ AllowedMethods(table, target) = f[Len(table)]
<1> DEFINE serving == Serving(table, RoutablePath(target))
           d == [table |-> table, serving |-> serving]
           f == CHOOSE f : f = [i \in 0..Len(table) |->
                    IF i = 0 THEN <<>>
                    ELSE LET before == f[i - 1]
                         IN IF i \in serving THEN WithImplied(before, table[i].method) ELSE before]
<1>1. \A before, i : Stepped("allowed", d, before, i) = Listed(before, table, serving, i)
    BY DEF Stepped
<1>2. f = CHOOSE g : IsWalk(g, "allowed", d, Len(table))
    BY <1>1 DEF IsWalk, Started, Listed
<1>3. IsWalk(f, "allowed", d, Len(table))
    <2> HIDE DEF d
    <2> QED BY <1>2, WalkExists
<1>4. AllowedMethods(table, target) = f[Len(table)]
    BY DEF AllowedMethods
<1> HIDE DEF f, d
<1>5. /\ f[0] = Started("allowed")
      /\ \A i \in 1..Len(table) : f[i] = Stepped("allowed", d, f[i - 1], i)
    BY <1>3, WalkSteps
<1>6. QED
    BY <1>1, <1>4, <1>5 DEF Started

\* A list of methods, each once.
Distinct(list) ==
    /\ list \in Seq(Methods)
    /\ \A i, j \in DOMAIN list : list[i] = list[j] => i = j

LEMMA WithMethodAdds ==
    ASSUME NEW list, Distinct(list), NEW m \in Methods
    PROVE  Distinct(WithMethod(list, m)) /\ Range(WithMethod(list, m)) = Range(list) \cup {m}
<1>1. CASE m \in Range(list)
    BY <1>1 DEF WithMethod
<1>2. CASE m \notin Range(list)
    <2> DEFINE longer == Append(list, m)
    <2>1. /\ list \in Seq(Methods) /\ Len(list) \in Nat
          /\ DOMAIN list = 1..Len(list)
        BY DEF Distinct
    <2>2. /\ longer \in Seq(Methods) /\ Len(longer) = Len(list) + 1
          /\ \A i \in 1..Len(list) : longer[i] = list[i]
          /\ longer[Len(list) + 1] = m
          /\ DOMAIN longer = 1..(Len(list) + 1)
        BY <2>1
    <2>3. \A i \in 1..Len(list) : list[i] # m
        BY <1>2, <2>1 DEF Range
    <2> HIDE DEF longer
    <2>4. ASSUME NEW i \in DOMAIN longer, NEW j \in DOMAIN longer, longer[i] = longer[j]
          PROVE  i = j
        <3>1. i \in 1..Len(list) \/ i = Len(list) + 1
            BY <2>1, <2>2
        <3>2. j \in 1..Len(list) \/ j = Len(list) + 1
            BY <2>1, <2>2
        <3>3. QED
            BY <3>1, <3>2, <2>1, <2>2, <2>3, <2>4 DEF Distinct
    <2>5. Range(longer) = Range(list) \cup {m}
        <3>1. \A i \in DOMAIN longer : longer[i] \in Range(list) \cup {m}
            BY <2>1, <2>2 DEF Range
        <3>2. \A i \in DOMAIN list : list[i] = longer[i] /\ i \in DOMAIN longer
            BY <2>1, <2>2
        <3>3. Len(list) + 1 \in DOMAIN longer
            BY <2>1, <2>2
        <3>4. QED
            BY <2>2, <3>1, <3>2, <3>3 DEF Range
    <2>6. WithMethod(list, m) = longer
        BY <1>2 DEF WithMethod, longer
    <2>7. QED
        BY <2>2, <2>4, <2>5, <2>6 DEF Distinct
<1>3. QED
    BY <1>1, <1>2

\* The methods a route answers to.
MethodsOf(route) == {m \in Methods : Answers(route, m)}

LEMMA WithImpliedAdds ==
    ASSUME NEW list, Distinct(list), NEW route, route.method \in Methods
    PROVE  /\ Distinct(WithImplied(list, route.method))
           /\ Range(WithImplied(list, route.method)) = Range(list) \cup MethodsOf(route)
<1> DEFINE one == WithMethod(list, route.method)
<1>1. Distinct(one) /\ Range(one) = Range(list) \cup {route.method}
    BY WithMethodAdds
<1>2. CASE route.method = "GET"
    <2>1. WithImplied(list, route.method) = WithMethod(one, "HEAD")
        BY <1>2 DEF WithImplied
    <2>2. "HEAD" \in Methods
        BY DEF Methods
    <2> HIDE DEF one
    <2>3. Distinct(WithMethod(one, "HEAD")) /\ Range(WithMethod(one, "HEAD")) = Range(one) \cup {"HEAD"}
        BY <1>1, <2>2, WithMethodAdds
    <2>4. MethodsOf(route) = {"GET", "HEAD"}
        BY <1>2 DEF MethodsOf, Methods, Answers
    <2>5. QED
        BY <1>1, <1>2, <2>1, <2>3, <2>4
<1>3. CASE route.method # "GET"
    <2>1. WithImplied(list, route.method) = one
        BY <1>3 DEF WithImplied
    <2>2. MethodsOf(route) = {route.method}
        BY <1>3 DEF MethodsOf, Answers
    <2>3. QED
        BY <1>1, <2>1, <2>2
<1>4. QED
    BY <1>2, <1>3

(* allowed_methods lists, each once, the methods some route that takes the *)
(* path answers to, and nothing else.                                      *)
LEMMA AllowedMethodsAnswer ==
    ASSUME NEW table, Len(table) \in Nat, DOMAIN table = 1..Len(table),
           \A i \in DOMAIN table : table[i].method \in Methods,
           NEW target
    PROVE  LET serving == Serving(table, RoutablePath(target))
               allowed == AllowedMethods(table, target)
           IN /\ Distinct(allowed)
              /\ Range(allowed) = {m \in Methods : \E i \in serving : Answers(table[i], m)}
<1> DEFINE serving == Serving(table, RoutablePath(target))
           n == Len(table)
           Upto(k) == {m \in Methods : \E i \in serving : i <= k /\ Answers(table[i], m)}
<1>1. PICK f : /\ f[0] = <<>>
               /\ \A i \in 1..n : f[i] = Listed(f[i - 1], table, serving, i)
               /\ AllowedMethods(table, target) = f[n]
    BY AllowedMethodsUnfolds
<1>2. serving \subseteq 1..n
    BY DEF Serving
<1> HIDE DEF serving
<1> DEFINE T == {k \in Nat : k <= n => Distinct(f[k]) /\ Range(f[k]) = Upto(k)}
<1>3. 0 \in T
    <2>1. f[0] = <<>>
        BY <1>1
    <2>2. Upto(0) = {}
        BY <1>2
    <2>3. Distinct(<<>>) /\ Range(<<>>) = {}
        BY DEF Distinct, Range
    <2>4. QED
        BY <2>1, <2>2, <2>3
<1>4. ASSUME NEW k \in Nat, k \in T
      PROVE  k + 1 \in T
    <2>1. SUFFICES ASSUME k + 1 <= n
                   PROVE  Distinct(f[k + 1]) /\ Range(f[k + 1]) = Upto(k + 1)
        OBVIOUS
    <2>2. Distinct(f[k]) /\ Range(f[k]) = Upto(k)
        BY <1>4, <2>1
    <2>3. f[k + 1] = Listed(f[k], table, serving, k + 1)
        <3>1. k + 1 \in 1..n /\ (k + 1) - 1 = k
            BY <2>1
        <3>2. QED
            BY <1>1, <3>1
    <2>4. CASE k + 1 \in serving
        <3>1. f[k + 1] = WithImplied(f[k], table[k + 1].method)
            BY <2>3, <2>4 DEF Listed
        <3>2. table[k + 1].method \in Methods
            BY <2>1
        <3>3. Distinct(f[k + 1]) /\ Range(f[k + 1]) = Range(f[k]) \cup MethodsOf(table[k + 1])
            BY <2>2, <3>1, <3>2, WithImpliedAdds
        <3>4. Upto(k + 1) = Upto(k) \cup MethodsOf(table[k + 1])
            <4>1. \A i \in serving : i <= k + 1 <=> i <= k \/ i = k + 1
                BY <1>2
            <4>2. QED
                BY <2>4, <4>1 DEF MethodsOf
        <3>5. QED
            BY <2>2, <3>3, <3>4
    <2>5. CASE k + 1 \notin serving
        <3>1. f[k + 1] = f[k]
            BY <2>3, <2>5 DEF Listed
        <3>2. \A i \in serving : i <= k + 1 <=> i <= k
            BY <1>2, <2>5
        <3>3. Upto(k + 1) = Upto(k)
            BY <3>2
        <3>4. QED
            BY <2>2, <3>1, <3>3
    <2>6. QED
        BY <2>4, <2>5
<1>5. Nat \subseteq T
    <2> HIDE DEF T
    <2> QED BY <1>3, <1>4, NatInductive
<1>6. Distinct(f[n]) /\ Range(f[n]) = Upto(n)
    BY <1>5
<1>7. Upto(n) = {m \in Methods : \E i \in serving : Answers(table[i], m)}
    BY <1>2
<1>8. QED
    BY <1>1, <1>6, <1>7 DEF serving

-----------------------------------------------------------------------------
(* The two together.                                                       *)

\* What a table of routes is: a list, of methods the router knows.
IsTable(table) ==
    /\ Len(table) \in Nat
    /\ DOMAIN table = 1..Len(table)
    /\ \A i \in DOMAIN table : table[i].method \in Methods

LEMMA FindAndAllowedAgree ==
    ASSUME NEW table, IsTable(table), NEW q, q.method \in Methods
    PROVE  /\ Find(table, q).handler # 0 <=> q.method \in Range(AllowedMethods(table, q.target))
           /\ Find(table, q).path_matched <=> AllowedMethods(table, q.target) # <<>>
           /\ Find(table, q).handler # 0 => Find(table, q).path_matched
<1> DEFINE serving == Serving(table, RoutablePath(q.target))
           found   == Find(table, q)
           allowed == AllowedMethods(table, q.target)
<1>1. /\ found.path_matched = (serving # {})
      /\ found.handler # 0 => /\ found.handler \in serving
                              /\ Answers(table[found.handler], q.method)
                              /\ found.path_matched
      /\ found.handler = 0 => \A i \in serving : ~Answers(table[i], q.method)
    <2>1. DOMAIN table \subseteq Nat \ {0}
        BY DEF IsTable
    <2>2. QED
        BY <2>1, FindAnswers
<1>2. Distinct(allowed) /\ Range(allowed) = {m \in Methods : \E i \in serving : Answers(table[i], m)}
    BY AllowedMethodsAnswer DEF IsTable
<1>3. \A i \in serving : table[i].method \in Methods /\ Answers(table[i], table[i].method)
    BY DEF Serving, IsTable, Answers
<1> HIDE DEF serving, found, allowed
<1>4. allowed # <<>> <=> Range(allowed) # {}
    BY <1>2 DEF Distinct, Range
<1>5. QED
    BY <1>1, <1>2, <1>3, <1>4 DEF found, allowed

(* What a table answered before more routes were added it answers still,   *)
(* unless a HEAD route took over from the GET that stood in for it.        *)
LEMMA EarlierRoutesStand ==
    ASSUME NEW S, NEW table \in Seq(S), NEW n \in 1..Len(table), NEW q
    PROVE  LET earlier == Find(SubSeq(table, 1, n), q)
               found   == Find(table, q)
           IN earlier.handler # 0 /\ found # earlier =>
                  /\ q.method = "HEAD"
                  /\ table[earlier.handler].method = "GET"
                  /\ table[found.handler].method = "HEAD"
<1> DEFINE part    == SubSeq(table, 1, n)
           path    == RoutablePath(q.target)
           serving == Serving(table, path)
           before  == Serving(part, path)
           own(s)  == {i \in s : table[i].method = q.method}
           get(s)  == {i \in s : table[i].method = "GET"}
           answer(i) == [handler |-> i, path_matched |-> TRUE,
                         params |-> Captured(table[i].pattern, path)]
           earlier == Find(part, q)
           found   == Find(table, q)
<1>1. /\ Len(table) \in Nat /\ DOMAIN table = 1..Len(table)
      /\ DOMAIN part = 1..n
      /\ \A i \in 1..n : part[i] = table[i]
    BY DEF part
<1>2. serving \subseteq Nat \ {0} /\ before = {i \in serving : i <= n}
    <2> HIDE DEF part
    <2> QED BY <1>1 DEF Serving
<1>3. \A s \in SUBSET (Nat \ {0}) : s # {} => FirstOf(s) \in s /\ \A j \in s : FirstOf(s) <= j
    BY FirstOfIsFirst
<1>4. ASSUME NEW m
      PROVE  LET early == {i \in before : table[i].method = m}
                 late  == {i \in serving : table[i].method = m}
             IN early # {} => late # {} /\ FirstOf(early) = FirstOf(late) /\ FirstOf(early) \in early
    <2> DEFINE early == {i \in before : table[i].method = m}
               late  == {i \in serving : table[i].method = m}
    <2> SUFFICES ASSUME early # {}
                 PROVE  late # {} /\ FirstOf(early) = FirstOf(late) /\ FirstOf(early) \in early
        OBVIOUS
    <2>1. early \subseteq late /\ late \subseteq Nat /\ \A i \in late : i <= n => i \in early
        BY <1>2
    <2> HIDE DEF early, late
    <2>2. FirstOf(early) \in early /\ \A j \in early : FirstOf(early) <= j
        BY <2>1, FirstOfIsFirst
    <2>3. FirstOf(late) \in late /\ \A j \in late : FirstOf(late) <= j
        BY <2>1, <2>2, FirstOfIsFirst
    <2>4. FirstOf(late) <= FirstOf(early) /\ FirstOf(early) <= n
        BY <2>1, <2>2, <2>3, <1>2 DEF early
    <2>5. FirstOf(late) \in Nat /\ FirstOf(early) \in Nat /\ n \in Nat
        <3>1. n \in Nat
            BY <1>1
        <3>2. QED
            BY <2>1, <2>2, <2>3, <3>1
    <2>6. FirstOf(late) <= n
        BY <2>4, <2>5
    <2>7. FirstOf(late) \in early /\ FirstOf(early) <= FirstOf(late)
        BY <2>1, <2>2, <2>3, <2>6
    <2>8. FirstOf(late) = FirstOf(early)
        BY <2>4, <2>5, <2>7
    <2>9. QED
        BY <2>2, <2>3, <2>8
<1>5. /\ own(before) # {} => earlier = answer(FirstOf(own(before)))
      /\ own(before) = {} /\ q.method = "HEAD" /\ get(before) # {} => earlier = answer(FirstOf(get(before)))
      /\ own(before) = {} /\ ~(q.method = "HEAD" /\ get(before) # {}) => earlier.handler = 0
    <2> DEFINE of(m) == {i \in before : part[i].method = m}
               partAnswer(i) == [handler |-> i, path_matched |-> TRUE,
                                 params |-> Captured(part[i].pattern, path)]
    <2>1. of(q.method) = own(before) /\ of("GET") = get(before)
        BY <1>1 DEF Serving
    <2>2. \A i \in before : partAnswer(i) = answer(i)
        BY <1>1 DEF Serving
    <2>3. CASE own(before) # {}
        <3>1. earlier = partAnswer(FirstOf(own(before)))
            BY <2>1, <2>3 DEF Find
        <3>2. FirstOf(own(before)) \in before
            BY <1>4, <2>3
        <3>3. QED
            BY <2>2, <2>3, <3>1, <3>2
    <2>4. CASE own(before) = {} /\ q.method = "HEAD" /\ get(before) # {}
        <3>1. earlier = partAnswer(FirstOf(get(before)))
            BY <2>1, <2>4 DEF Find
        <3>2. FirstOf(get(before)) \in before
            BY <1>4, <2>4
        <3>3. QED
            BY <2>2, <2>4, <3>1, <3>2
    <2>5. CASE own(before) = {} /\ ~(q.method = "HEAD" /\ get(before) # {})
        BY <2>1, <2>5 DEF Find, NotFound
    <2>6. QED
        BY <2>3, <2>4, <2>5
<1>6. /\ own(serving) # {} => found = answer(FirstOf(own(serving)))
      /\ own(serving) = {} /\ q.method = "HEAD" /\ get(serving) # {} => found = answer(FirstOf(get(serving)))
    BY DEF Find
<1>7. \A i : answer(i).handler = i
    OBVIOUS
<1> HIDE DEF serving, before, earlier, found, answer
<1>8. CASE own(before) # {}
    <2>1. own(serving) # {} /\ FirstOf(own(before)) = FirstOf(own(serving))
        BY <1>4, <1>8
    <2>2. earlier = found
        BY <1>5, <1>6, <1>8, <2>1
    <2>3. QED
        BY <2>2 DEF earlier, found
<1>9. CASE own(before) = {} /\ q.method = "HEAD" /\ get(before) # {}
    <2>1. earlier = answer(FirstOf(get(before))) /\ FirstOf(get(before)) \in get(before)
        BY <1>4, <1>5, <1>9
    <2>2. CASE own(serving) # {}
        <3>1. found = answer(FirstOf(own(serving))) /\ FirstOf(own(serving)) \in own(serving)
            BY <1>2, <1>3, <1>6, <2>2
        <3>2. QED
            BY <1>7, <1>9, <2>1, <3>1 DEF earlier, found
    <2>3. CASE own(serving) = {}
        BY <1>4, <1>6, <1>9, <2>1, <2>3 DEF earlier, found
    <2>4. QED
        BY <2>2, <2>3
<1>10. CASE own(before) = {} /\ ~(q.method = "HEAD" /\ get(before) # {})
    BY <1>5, <1>10 DEF earlier
<1>11. QED
    BY <1>8, <1>9, <1>10 DEF earlier, found

-----------------------------------------------------------------------------
(* Induction over sequences, for a set of them.                            *)
LEMMA SeqInductive ==
    ASSUME NEW S, NEW T, <<>> \in T,
           \A s \in Seq(S), e \in S : s \in T => Append(s, e) \in T
    PROVE  Seq(S) \subseteq T
<1> DEFINE N == {n \in Nat : \A s \in Seq(S) : Len(s) = n => s \in T}
<1>1. 0 \in N
    BY EmptySeq
<1>2. ASSUME NEW n \in Nat, n \in N PROVE n + 1 \in N
    <2>1. SUFFICES ASSUME NEW s \in Seq(S), Len(s) = n + 1 PROVE s \in T
        OBVIOUS
    <2>2. s # <<>>
        BY <2>1, EmptySeq
    <2>3. PICK p \in Seq(S), e \in S : s = Append(p, e)
        BY <2>2, SequenceEmptyOrAppend
    <2>4. Len(s) = Len(p) + 1 /\ Len(p) \in Nat
        BY <2>3, AppendProperties, LenProperties
    <2>5. Len(p) = n
        BY <2>1, <2>4
    <2>6. QED
        BY <1>2, <2>3, <2>5
<1>3. Nat \subseteq N
    <2> HIDE DEF N
    <2> QED BY <1>1, <1>2, NatInductive
<1>4. QED
    BY <1>3, LenProperties

-----------------------------------------------------------------------------
(* The four of them as walks.                                              *)
LEMMA SplitWalks ==
    ASSUME NEW path, Len(path) \in Nat
    PROVE  \E f : IsWalk(f, "split", path, Len(path)) /\ Split(path) = f[Len(path)]
<1> DEFINE f == CHOOSE f : f = [i \in 0..Len(path) |->
                    IF i = 0 THEN << <<>> >> ELSE Longer(f[i - 1], path[i])]
<1>1. f = CHOOSE g : IsWalk(g, "split", path, Len(path))
    BY DEF IsWalk, Started, Stepped
<1>2. IsWalk(f, "split", path, Len(path))
    BY <1>1, WalkExists
<1>3. Split(path) = f[Len(path)]
    BY DEF Split
<1>4. QED
    BY <1>2, <1>3

LEMMA JoinWalks ==
    ASSUME NEW pieces, Len(pieces) \in Nat
    PROVE  \E f : IsWalk(f, "join", pieces, Len(pieces)) /\ Join(pieces) = f[Len(pieces)]
<1> DEFINE f == CHOOSE f : f = [i \in 0..Len(pieces) |->
                    IF i = 0 THEN <<>> ELSE Joined(f[i - 1], pieces[i], i)]
<1>1. f = CHOOSE g : IsWalk(g, "join", pieces, Len(pieces))
    BY DEF IsWalk, Started, Stepped
<1>2. IsWalk(f, "join", pieces, Len(pieces))
    BY <1>1, WalkExists
<1>3. Join(pieces) = f[Len(pieces)]
    BY DEF Join
<1>4. QED
    BY <1>2, <1>3

LEMMA PositionsWalk ==
    ASSUME NEW n \in Nat, NEW S
    PROVE  \E f : IsWalk(f, "positions", S, n) /\ Positions(n, S) = f[n]
<1> DEFINE f == CHOOSE f : f = [i \in 0..n |->
                    IF i = 0 THEN <<>> ELSE IF i \in S THEN Append(f[i - 1], i) ELSE f[i - 1]]
<1>1. f = CHOOSE g : IsWalk(g, "positions", S, n)
    BY DEF IsWalk, Started, Stepped
<1>2. IsWalk(f, "positions", S, n)
    BY <1>1, WalkExists
<1>3. Positions(n, S) = f[n]
    BY DEF Positions
<1>4. QED
    BY <1>2, <1>3

\* The segments of a path and what the walk along them keeps.
Ending(segments) == IF Last(segments) \in {Dot, DotDot} THEN << <<>> >> ELSE <<>>

LEMMA RemoveDotSegmentsWalks ==
    ASSUME NEW path, Len(Split(Body(path))) \in Nat
    PROVE  LET segments == Split(Body(path))
           IN \E f : /\ IsWalk(f, "keep", segments, Len(segments))
                     /\ RemoveDotSegments(path)
                            = Root(path) \o Join(f[Len(segments)] \o Ending(segments))
<1> DEFINE segments == Split(Body(path))
           f == CHOOSE f : f = [i \in 0..Len(segments) |->
                    IF i = 0 THEN <<>> ELSE Keep(f[i - 1], segments[i])]
<1>1. f = CHOOSE g : IsWalk(g, "keep", segments, Len(segments))
    BY DEF IsWalk, Started, Stepped
<1>2. IsWalk(f, "keep", segments, Len(segments))
    BY <1>1, WalkExists
<1>3. RemoveDotSegments(path) = Root(path) \o Join(f[Len(segments)] \o Ending(segments))
    BY DEF RemoveDotSegments, Ending
<1>4. QED
    BY <1>2, <1>3

-----------------------------------------------------------------------------
(* Split and Join one token, one piece at a time.                          *)
LEMMA SplitEmpty == Split(<<>>) = << <<>> >>
<1>1. PICK f : IsWalk(f, "split", <<>>, Len(<<>>)) /\ Split(<<>>) = f[Len(<<>>)]
    BY SplitWalks, EmptySeq
<1>2. Len(<<>>) = 0
    BY EmptySeq
<1>3. QED
    BY <1>1, <1>2, WalkSteps DEF Started

LEMMA SplitAppend ==
    ASSUME NEW T, NEW p \in Seq(T), NEW t \in T
    PROVE  Split(Append(p, t)) = Longer(Split(p), t)
<1> DEFINE q == Append(p, t)
<1> PICK n \in Nat : n = Len(p)
    BY LenProperties
<1>1. n \in Nat /\ Len(q) = n + 1 /\ q[n + 1] = t /\ \A i \in 1..n : p[i] = q[i]
    BY AppendProperties, LenProperties
<1> HIDE DEF q
<1>2. PICK f : IsWalk(f, "split", p, n) /\ Split(p) = f[n]
    BY <1>1, SplitWalks
<1>3. PICK g : IsWalk(g, "split", q, n + 1) /\ Split(q) = g[n + 1]
    BY <1>1, SplitWalks
<1>4. n + 1 \in Nat /\ n <= n + 1 /\ n \in 0..n /\ n + 1 \in 1..(n + 1) /\ (n + 1) - 1 = n
    BY <1>1
<1>6. g[n + 1] = Stepped("split", q, f[n], n + 1)
    BY <1>1, <1>2, <1>3, WalkGoesOn
<1>7. g[n + 1] = Longer(f[n], t)
    BY <1>1, <1>6 DEF Stepped
<1>8. QED
    BY <1>2, <1>3, <1>7 DEF q

LEMMA JoinEmpty == Join(<<>>) = <<>>
<1>1. PICK f : IsWalk(f, "join", <<>>, Len(<<>>)) /\ Join(<<>>) = f[Len(<<>>)]
    BY JoinWalks, EmptySeq
<1>2. Len(<<>>) = 0
    BY EmptySeq
<1>3. QED
    BY <1>1, <1>2, WalkSteps DEF Started

LEMMA JoinAppend ==
    ASSUME NEW T, NEW ps \in Seq(T), NEW q \in T
    PROVE  Join(Append(ps, q)) = IF ps = <<>> THEN q ELSE Join(ps) \o <<"/">> \o q
<1> DEFINE qs == Append(ps, q)
<1> PICK n \in Nat : n = Len(ps)
    BY LenProperties
<1>1. n \in Nat /\ Len(qs) = n + 1 /\ qs[n + 1] = q /\ \A i \in 1..n : ps[i] = qs[i]
    BY AppendProperties, LenProperties
<1>9. n = 0 <=> ps = <<>>
    BY EmptySeq
<1> HIDE DEF qs
<1>2. PICK f : IsWalk(f, "join", ps, n) /\ Join(ps) = f[n]
    BY <1>1, JoinWalks
<1>3. PICK g : IsWalk(g, "join", qs, n + 1) /\ Join(qs) = g[n + 1]
    BY <1>1, JoinWalks
<1>4. n + 1 \in Nat /\ n <= n + 1 /\ n \in 0..n /\ n + 1 \in 1..(n + 1) /\ (n + 1) - 1 = n
      /\ (n + 1 = 1 <=> n = 0)
    BY <1>1
<1>6. g[n + 1] = Stepped("join", qs, f[n], n + 1)
    BY <1>1, <1>2, <1>3, WalkGoesOn
<1>7. g[n + 1] = Joined(f[n], q, n + 1)
    BY <1>1, <1>6 DEF Stepped
<1>8. QED
    BY <1>2, <1>3, <1>4, <1>7, <1>9 DEF qs, Joined

-----------------------------------------------------------------------------
(* The pieces of a path hold no slash, and there is one more of them than  *)
(* there are slashes.                                                      *)
Slashless(T) == T \ {"/"}

(* Putting sequences together does not depend on where it begins.          *)
LEMMA Associates ==
    \A T : \A a, b, c \in Seq(T) : (a \o b) \o c = a \o (b \o c)
BY ConcatAssociative

LEMMA LongerPieces ==
    ASSUME NEW T, NEW ps \in Seq(Seq(Slashless(T))), ps # <<>>, NEW t \in T
    PROVE  /\ Longer(ps, t) \in Seq(Seq(Slashless(T)))
           /\ Longer(ps, t) # <<>>
           /\ Len(Longer(ps, t)) = IF t = "/" THEN Len(ps) + 1 ELSE Len(ps)
           /\ t # "/" => \A xs \in Seq(Seq(Slashless(T))), q \in Seq(Slashless(T)) :
                            ps = Append(xs, q) => Longer(ps, t) = Append(xs, Append(q, t))
<1> DEFINE P == Seq(Slashless(T))
<1>0. <<>> \in P
    BY EmptySeq
<1> HIDE DEF P
<1>1. CASE t = "/"
    <2>1. Longer(ps, t) = Append(ps, <<>>)
        BY <1>1 DEF Longer
    <2>2. Append(ps, <<>>) \in Seq(P) /\ Append(ps, <<>>) # <<>> /\ Len(Append(ps, <<>>)) = Len(ps) + 1
        BY <1>0, AppendProperties DEF P
    <2>3. QED
        BY <1>1, <2>1, <2>2 DEF P
<1>2. CASE t # "/"
    <2>1. PICK xs \in Seq(P), q \in P : ps = Append(xs, q)
        BY SequenceEmptyOrAppend DEF P
    <2>2. Append(q, t) \in P
        <3>1. t \in Slashless(T)
            BY <1>2 DEF Slashless
        <3>2. QED
            BY <3>1, AppendProperties DEF P
    <2>3. Longer(ps, t) = [ps EXCEPT ![Len(ps)] = Append(ps[Len(ps)], t)]
        BY <1>2 DEF Longer
    <2>4. /\ Len(ps) = Len(xs) + 1 /\ ps[Len(ps)] = q /\ Len(xs) \in Nat
          /\ \A i \in 1..Len(xs) : ps[i] = xs[i]
        BY <2>1, AppendProperties, LenProperties
    <2>5. Len(ps) \in 1..Len(ps)
        BY <2>4
    <2>6. ps \in Seq(P)
        BY DEF P
    <2>7. /\ Longer(ps, t) \in Seq(P)
          /\ Len(Longer(ps, t)) = Len(ps)
          /\ \A j \in 1..Len(ps) : Longer(ps, t)[j] = IF j = Len(ps) THEN Append(q, t) ELSE ps[j]
        BY <2>2, <2>3, <2>4, <2>5, <2>6, ExceptSeq
    <2>8. Longer(ps, t) = Append(xs, Append(q, t))
        <3> DEFINE other == Append(xs, Append(q, t))
        <3>1. /\ other \in Seq(P) /\ Len(other) = Len(xs) + 1
              /\ \A i \in 1..Len(xs) : other[i] = xs[i]
              /\ other[Len(xs) + 1] = Append(q, t)
            BY <2>2, AppendProperties
        <3> HIDE DEF other
        <3>2. ASSUME NEW i \in 1..Len(ps) PROVE other[i] = Longer(ps, t)[i]
            <4>1. CASE i = Len(ps)
                BY <3>1, <2>4, <2>7, <4>1
            <4>2. CASE i # Len(ps)
                <5>1. i \in 1..Len(xs)
                    BY <2>4, <4>2
                <5>2. QED
                    BY <3>1, <2>4, <2>7, <4>2, <5>1
            <4>3. QED
                BY <4>1, <4>2
        <3>3. Longer(ps, t) = other
            BY <3>1, <3>2, <2>4, <2>7, SeqEqual
        <3>4. QED
            BY <3>3 DEF other
    <2>9. ASSUME NEW ys \in Seq(P), NEW r \in P, ps = Append(ys, r)
          PROVE  ys = xs /\ r = q
        <3>1. Append(ys, r) = Append(xs, q)
            BY <2>1, <2>9
        <3>2. QED
            BY <3>1, AppendInjective
    <2>10. Longer(ps, t) # <<>>
        <3>1. Append(xs, Append(q, t)) # <<>>
            BY <2>2, AppendProperties
        <3>2. QED
            BY <2>8, <3>1
    <2>11. QED
        BY <1>2, <2>7, <2>8, <2>9, <2>10 DEF P
<1>3. QED
    BY <1>1, <1>2

(* A character that is no slash lengthens the last piece.                  *)
LEMMA PieceGrows ==
    ASSUME NEW T, NEW xs \in Seq(Seq(Slashless(T))), NEW q \in Seq(Slashless(T)),
           NEW t \in T, t # "/"
    PROVE  Longer(Append(xs, q), t) = Append(xs, Append(q, t))
<1> DEFINE P == Seq(Slashless(T))
<1>1. Append(xs, q) \in Seq(P) /\ Append(xs, q) # <<>>
    <2> HIDE DEF P
    <2> QED BY AppendProperties DEF P
<1>2. PICK ps \in Seq(P) : ps = Append(xs, q) /\ ps # <<>>
    BY <1>1, Zenon
<1>3. \A ys \in Seq(P), y \in P : ps = Append(ys, y) => Longer(ps, t) = Append(ys, Append(y, t))
    <2>1. \A us \in Seq(P), c \in T : /\ us # <<>> /\ c # "/"
                                       => \A ys \in Seq(P), y \in P :
                                              us = Append(ys, y) => Longer(us, c) = Append(ys, Append(y, c))
        BY LongerPieces
    <2>2. QED
        BY <1>2, <2>1, Zenon
<1>4. QED
    BY <1>2, <1>3, Zenon

Slashes(path) == {i \in DOMAIN path : path[i] = "/"}

LEMMA SlashesAreFinite ==
    ASSUME NEW T, NEW p \in Seq(T)
    PROVE  /\ IsFiniteSet(Slashes(p)) /\ SlashCount(p) = Cardinality(Slashes(p))
           /\ SlashCount(p) \in Nat
           /\ Slashes(p) \subseteq 1..Len(p)
<1>1. Slashes(p) \subseteq 1..Len(p) /\ Len(p) \in Nat
    BY LenProperties DEF Slashes
<1>2. IsFiniteSet(1..Len(p))
    BY <1>1, FS_Interval
<1>3. IsFiniteSet(Slashes(p))
    BY <1>1, <1>2, FS_Subset
<1>4. QED
    BY <1>1, <1>3, FS_CardinalityType DEF SlashCount, Slashes

LEMMA SlashCountAppend ==
    ASSUME NEW T, NEW p \in Seq(T), NEW t \in T
    PROVE  SlashCount(Append(p, t)) = IF t = "/" THEN SlashCount(p) + 1 ELSE SlashCount(p)
<1> DEFINE q == Append(p, t)
<1>1. /\ q \in Seq(T) /\ Len(q) = Len(p) + 1 /\ Len(p) \in Nat
      /\ \A i \in 1..Len(p) : q[i] = p[i]
      /\ q[Len(p) + 1] = t
    BY AppendProperties, LenProperties
<1>2. DOMAIN p = 1..Len(p) /\ DOMAIN q = 1..Len(q)
    BY <1>1, LenProperties
<1>3. SlashCount(q) = Cardinality(Slashes(q)) /\ SlashCount(p) = Cardinality(Slashes(p))
    BY <1>1, SlashesAreFinite
<1>4. IsFiniteSet(Slashes(p)) /\ Slashes(p) \subseteq 1..Len(p) /\ SlashCount(p) \in Nat
    BY SlashesAreFinite
<1> HIDE DEF q
<1>5. CASE t = "/"
    <2>1. Slashes(q) = Slashes(p) \cup {Len(p) + 1}
        BY <1>1, <1>2, <1>5 DEF Slashes
    <2>2. Len(p) + 1 \notin Slashes(p)
        BY <1>1, <1>4
    <2>3. Cardinality(Slashes(q)) = Cardinality(Slashes(p)) + 1
        BY <1>4, <2>1, <2>2, FS_AddElement
    <2>4. QED
        BY <1>3, <1>5, <2>3 DEF q
<1>6. CASE t # "/"
    <2>1. Slashes(q) = Slashes(p)
        BY <1>1, <1>2, <1>6 DEF Slashes
    <2>2. QED
        BY <1>3, <1>6, <2>1 DEF q
<1>7. QED
    BY <1>5, <1>6

LEMMA SplitPieces ==
    ASSUME NEW T, NEW p \in Seq(T)
    PROVE  /\ Split(p) \in Seq(Seq(Slashless(T)))
           /\ Split(p) # <<>>
           /\ Len(Split(p)) = SlashCount(p) + 1
<1> DEFINE P == {s \in Seq(T) : /\ Split(s) \in Seq(Seq(Slashless(T)))
                                /\ Split(s) # <<>>
                                /\ Len(Split(s)) = SlashCount(s) + 1}
<1>1. <<>> \in P
    <2>1. <<>> \in Seq(T) /\ <<>> \in Seq(Slashless(T))
        BY EmptySeq
    <2>2. << <<>> >> \in Seq(Seq(Slashless(T))) /\ << <<>> >> # <<>> /\ Len(<< <<>> >>) = 1
        BY <2>1
    <2>3. SlashCount(<<>>) = 0
        <3>1. {i \in DOMAIN <<>> : <<>>[i] = "/"} = {}
            BY LenProperties, EmptySeq
        <3>2. QED
            BY <3>1, FS_EmptySet DEF SlashCount
    <2>4. /\ Split(<<>>) \in Seq(Seq(Slashless(T)))
          /\ Split(<<>>) # <<>>
          /\ Len(Split(<<>>)) = 1
        BY <2>2, SplitEmpty, Zenon
    <2>5. Len(Split(<<>>)) = SlashCount(<<>>) + 1
        <3>1. SlashCount(<<>>) + 1 = 1
            BY <2>3
        <3>2. QED
            BY <2>4, <3>1, Zenon
    <2>6. QED
        BY <2>1, <2>4, <2>5, Zenon
<1>2. ASSUME NEW s \in Seq(T), NEW t \in T, s \in P PROVE Append(s, t) \in P
    <2>1. Append(s, t) \in Seq(T)
        BY AppendProperties
    <2>2. /\ Split(s) \in Seq(Seq(Slashless(T))) /\ Split(s) # <<>>
          /\ Len(Split(s)) = SlashCount(s) + 1
        BY <1>2
    <2>3. Split(Append(s, t)) = Longer(Split(s), t)
        BY SplitAppend
    <2>4. /\ Longer(Split(s), t) \in Seq(Seq(Slashless(T)))
          /\ Longer(Split(s), t) # <<>>
          /\ Len(Longer(Split(s), t)) = IF t = "/" THEN Len(Split(s)) + 1 ELSE Len(Split(s))
        BY <2>2, LongerPieces
    <2>5. SlashCount(Append(s, t)) = IF t = "/" THEN SlashCount(s) + 1 ELSE SlashCount(s)
        BY SlashCountAppend
    <2>6. QED
        BY <2>1, <2>2, <2>3, <2>4, <2>5
<1>3. Seq(T) \subseteq P
    <2> HIDE DEF P
    <2> QED BY <1>1, <1>2, SeqInductive
<1>4. QED
    BY <1>3

LEMMA JoinIsAPath ==
    ASSUME NEW T, "/" \in T, NEW ps \in Seq(Seq(T))
    PROVE  Join(ps) \in Seq(T)
<1> DEFINE P == {s \in Seq(Seq(T)) : Join(s) \in Seq(T)}
<1>1. <<>> \in P
    BY EmptySeq, JoinEmpty
<1>2. ASSUME NEW s \in Seq(Seq(T)), NEW q \in Seq(T), s \in P PROVE Append(s, q) \in P
    <2>1. Append(s, q) \in Seq(Seq(T))
        BY AppendProperties
    <2>2. Join(Append(s, q)) = IF s = <<>> THEN q ELSE Join(s) \o <<"/">> \o q
        BY JoinAppend
    <2>3. Join(s) \o <<"/">> \o q \in Seq(T)
        <3>1. Join(s) \in Seq(T) /\ <<"/">> \in Seq(T)
            BY <1>2
        <3>2. Join(s) \o <<"/">> \in Seq(T)
            BY <3>1, ConcatProperties
        <3>3. QED
            BY <3>2, ConcatProperties
    <2>4. QED
        BY <2>1, <2>2, <2>3
<1>3. Seq(Seq(T)) \subseteq P
    <2> HIDE DEF P
    <2> QED BY <1>1, <1>2, SeqInductive
<1>4. QED
    BY <1>3

(* Joining the pieces of a path gives the path back.                       *)
LEMMA JoinOfSplit ==
    ASSUME NEW T, NEW p \in Seq(T)
    PROVE  Join(Split(p)) = p
<1> DEFINE P == {s \in Seq(T) : Join(Split(s)) = s}
           S == Slashless(T)
<1>1. <<>> \in P
    <2>1. <<>> \in Seq(T)
        BY EmptySeq
    <2>2. <<>> \in Seq({<<>>}) /\ << <<>> >> = Append(<<>>, <<>>)
        OBVIOUS
    <2>3. Join(Append(<<>>, <<>>)) = <<>>
        BY <2>2, JoinAppend
    <2>4. Join(Split(<<>>)) = Join(<< <<>> >>)
        BY SplitEmpty, Zenon
    <2>5. Join(<< <<>> >>) = <<>>
        BY <2>2, <2>3, Zenon
    <2>6. QED
        BY <2>1, <2>4, <2>5, Zenon
<1>2. ASSUME NEW s \in Seq(T), NEW t \in T, s \in P PROVE Append(s, t) \in P
    <2>1. Append(s, t) \in Seq(T) /\ Append(s, t) = s \o <<t>>
        BY AppendProperties, AppendIsConcat
    <2>2. Split(s) \in Seq(Seq(S)) /\ Split(s) # <<>> /\ Join(Split(s)) = s
        BY <1>2, SplitPieces
    <2>3. Split(Append(s, t)) = Longer(Split(s), t)
        BY SplitAppend
    <2> HIDE DEF S
    <2>4. CASE t = "/"
        <3>1. Longer(Split(s), t) = Append(Split(s), <<>>)
            BY <2>4 DEF Longer
        <3>2. <<>> \in Seq(S)
            BY EmptySeq
        <3>3. Join(Append(Split(s), <<>>)) = s \o <<"/">> \o <<>>
            BY <2>2, <3>2, JoinAppend
        <3>4. s \o <<"/">> \o <<>> = s \o <<t>>
            <4>1. s \o <<t>> \in Seq(T)
                BY <2>1
            <4>2. QED
                BY <2>4, <4>1, ConcatEmptySeq
        <3>5. QED
            BY <2>1, <2>3, <3>1, <3>3, <3>4
    <2>5. CASE t # "/"
        <3>1. PICK xs \in Seq(Seq(S)), q \in Seq(S) : Split(s) = Append(xs, q)
            BY <2>2, SequenceEmptyOrAppend
        <3>2. Longer(Split(s), t) = Append(xs, Append(q, t))
            <4>1. Longer(Append(xs, q), t) = Append(xs, Append(q, t))
                BY <2>5, PieceGrows DEF S
            <4>2. QED
                BY <3>1, <4>1, Zenon
        <3>3. Append(q, t) \in Seq(S) /\ Append(q, t) = q \o <<t>>
            <4>1. t \in S
                BY <2>5 DEF S, Slashless
            <4>2. QED
                BY <4>1, AppendProperties, AppendIsConcat
        <3>4. Join(Append(xs, Append(q, t))) =
                  IF xs = <<>> THEN Append(q, t) ELSE Join(xs) \o <<"/">> \o Append(q, t)
            BY <3>3, JoinAppend
        <3>5. s = IF xs = <<>> THEN q ELSE Join(xs) \o <<"/">> \o q
            BY <2>2, <3>1, JoinAppend
        <3>6. CASE xs = <<>>
            BY <2>1, <2>3, <3>2, <3>4, <3>5, <3>6
        <3>7. CASE xs # <<>>
            <4> DEFINE U == T \cup {"/"}
                       a == Join(xs) \o <<"/">>
            <4>1. xs \in Seq(Seq(U)) /\ q \in Seq(U) /\ <<t>> \in Seq(U) /\ <<"/">> \in Seq(U)
                <5>1. S \subseteq U
                    BY DEF S, Slashless
                <5>2. Seq(S) \subseteq Seq(U)
                    BY <5>1, SeqMonotonic
                <5>3. QED
                    BY <5>2, SeqMonotonic
            <4>2. a \in Seq(U)
                <5>1. Join(xs) \in Seq(U)
                    BY <4>1, JoinIsAPath
                <5>2. QED
                    BY <4>1, <5>1, ConcatProperties
            <4> HIDE DEF a, U
            <4>3. (a \o q) \o <<t>> = a \o (q \o <<t>>)
                <5> DEFINE one == <<t>>
                <5>1. q \in Seq(U) /\ one \in Seq(U)
                    BY <4>1
                <5> HIDE DEF one
                <5>2. (a \o q) \o one = a \o (q \o one)
                    BY <4>2, <5>1, Associates, SMTT(30)
                <5>3. QED
                    BY <5>2, Zenon DEF one
            <4>4. Join(Append(xs, Append(q, t))) = a \o Append(q, t) /\ s = a \o q
                BY <3>4, <3>5, <3>7 DEF a
            <4>5. QED
                BY <2>1, <2>3, <3>2, <3>3, <4>3, <4>4
        <3>8. QED
            BY <3>6, <3>7
    <2>6. QED
        BY <2>4, <2>5
<1>3. Seq(T) \subseteq P
    <2> HIDE DEF P
    <2> QED BY <1>1, <1>2, SeqInductive
<1>4. QED
    BY <1>3

(* What holds no slash goes on with the piece a path ends in.              *)
LEMMA SplitGoesOn ==
    ASSUME NEW T, NEW p \in Seq(T), NEW xs \in Seq(Seq(Slashless(T))),
           Split(p) = Append(xs, <<>>), NEW q \in Seq(Slashless(T))
    PROVE  Split(p \o q) = Append(xs, q)
<1> DEFINE S == Slashless(T)
           P == {s \in Seq(S) : Split(p \o s) = Append(xs, s)}
<1>1. <<>> \in P
    BY EmptySeq, ConcatEmptySeq
<1>2. ASSUME NEW s \in Seq(S), NEW t \in S, s \in P PROVE Append(s, t) \in P
    <2>1. t \in T /\ t # "/" /\ s \in Seq(T)
        <3>1. S \subseteq T
            BY DEF Slashless
        <3>2. QED
            BY <3>1, SeqMonotonic DEF Slashless
    <2>2. p \o s \in Seq(T)
        BY <2>1, ConcatProperties
    <2>3. p \o Append(s, t) = Append(p \o s, t)
        <3>1. <<t>> \in Seq(T)
            BY <2>1
        <3>2. Append(s, t) = s \o <<t>> /\ Append(p \o s, t) = (p \o s) \o <<t>>
            BY <2>1, <2>2, AppendIsConcat
        <3>3. (p \o s) \o <<t>> = p \o (s \o <<t>>)
            BY <2>1, <3>1, Associates
        <3>4. QED
            BY <3>2, <3>3
    <2>4. Split(p \o Append(s, t)) = Longer(Split(p \o s), t)
        BY <2>1, <2>2, <2>3, SplitAppend
    <2>5. Split(p \o s) = Append(xs, s)
        BY <1>2
    <2>6. Split(p \o s) \in Seq(Seq(S)) /\ Split(p \o s) # <<>>
        BY <2>2, SplitPieces
    <2>7. Longer(Split(p \o s), t) = Append(xs, Append(s, t))
        <3>1. Longer(Append(xs, s), t) = Append(xs, Append(s, t))
            BY <2>1, PieceGrows
        <3>2. QED
            BY <2>5, <3>1, Zenon
    <2>8. Append(s, t) \in Seq(S)
        BY AppendProperties
    <2>9. QED
        BY <2>4, <2>7, <2>8
<1>3. Seq(S) \subseteq P
    <2> HIDE DEF P, S
    <2> QED BY <1>1, <1>2, SeqInductive
<1>4. QED
    BY <1>3

(* Splitting what pieces were joined into gives the pieces back.           *)
LEMMA SplitOfJoin ==
    ASSUME NEW T, "/" \in T, NEW ps \in Seq(Seq(Slashless(T))), ps # <<>>
    PROVE  Split(Join(ps)) = ps
<1> DEFINE S == Slashless(T)
           P == {s \in Seq(Seq(S)) : s # <<>> => Split(Join(s)) = s}
<1>0. Seq(S) \subseteq Seq(T)
    <2>1. S \subseteq T
        BY DEF Slashless
    <2>2. QED
        BY <2>1, SeqMonotonic
<1>1. <<>> \in P
    BY EmptySeq
<1>2. ASSUME NEW s \in Seq(Seq(S)), NEW q \in Seq(S), s \in P PROVE Append(s, q) \in P
    <2>1. Append(s, q) \in Seq(Seq(S)) /\ Append(s, q) # <<>>
        <3> HIDE DEF S
        <3> QED BY AppendProperties
    <2>2. SUFFICES Split(Join(Append(s, q))) = Append(s, q)
        BY <2>1
    <2>3. Join(Append(s, q)) = IF s = <<>> THEN q ELSE Join(s) \o <<"/">> \o q
        BY JoinAppend
    <2>4. q \in Seq(T) /\ s \in Seq(Seq(T))
        BY <1>0, SeqMonotonic
    <2>5. CASE s = <<>>
        <3>1. << <<>> >> = Append(<<>>, <<>>) /\ <<>> \in Seq(T) /\ <<>> \in Seq(Seq(S))
            OBVIOUS
        <3>2. Split(<<>>) = Append(<<>>, <<>>)
            BY <3>1, SplitEmpty, Zenon
        <3>3. Split(<<>> \o q) = Append(<<>>, q)
            BY <3>1, <3>2, SplitGoesOn
        <3>4. <<>> \o q = q
            BY <2>4, ConcatEmptySeq
        <3>5. QED
            BY <2>3, <2>5, <3>3, <3>4
    <2>6. CASE s # <<>>
        <3>1. Join(s) \in Seq(T)
            BY <2>4, JoinIsAPath
        <3>2. Split(Join(s)) = s
            BY <1>2, <2>6
        <3>3. Append(Join(s), "/") \in Seq(T) /\ Append(Join(s), "/") = Join(s) \o <<"/">>
            BY <3>1, AppendProperties, AppendIsConcat
        <3>4. Split(Append(Join(s), "/")) = Append(s, <<>>)
            BY <3>1, <3>2, SplitAppend DEF Longer
        <3>5. Split(Append(Join(s), "/") \o q) = Append(s, q)
            BY <3>3, <3>4, SplitGoesOn
        <3>6. QED
            BY <2>3, <2>6, <3>3, <3>5
    <2>7. QED
        BY <2>5, <2>6
<1>3. Seq(Seq(S)) \subseteq P
    <2> HIDE DEF P, S
    <2> QED BY <1>1, <1>2, SeqInductive
<1>4. QED
    BY <1>3

(* A slash in front is an empty piece in front.                            *)
LEMMA JoinAfterASlash ==
    ASSUME NEW T, "/" \in T, NEW ps \in Seq(Seq(T)), ps # <<>>
    PROVE  Join(<< <<>> >> \o ps) = <<"/">> \o Join(ps)
<1> DEFINE P == {s \in Seq(Seq(T)) : s # <<>> => Join(<< <<>> >> \o s) = <<"/">> \o Join(s)}
           one == << <<>> >>
<1>0. one \in Seq(Seq(T)) /\ <<"/">> \in Seq(T) /\ <<>> \in Seq(T) /\ one # <<>>
    OBVIOUS
<1>1. <<>> \in P
    BY EmptySeq
<1>2. ASSUME NEW s \in Seq(Seq(T)), NEW q \in Seq(T), s \in P PROVE Append(s, q) \in P
    <2>1. Append(s, q) \in Seq(Seq(T)) /\ Append(s, q) # <<>>
        BY AppendProperties
    <2>2. SUFFICES Join(one \o Append(s, q)) = <<"/">> \o Join(Append(s, q))
        BY <2>1
    <2>3. one \o s \in Seq(Seq(T)) /\ one \o s # <<>>
        BY <1>0, ConcatProperties, ConcatEqualIffEmpty
    <2>4. one \o Append(s, q) = Append(one \o s, q)
        <3>1. <<q>> \in Seq(Seq(T))
            OBVIOUS
        <3>2. Append(s, q) = s \o <<q>> /\ Append(one \o s, q) = (one \o s) \o <<q>>
            BY <2>3, AppendIsConcat
        <3>3. (one \o s) \o <<q>> = one \o (s \o <<q>>)
            BY <1>0, <3>1, Associates
        <3>4. QED
            BY <3>2, <3>3
    <2> HIDE DEF one
    <2>5. Join(one \o Append(s, q)) = Join(one \o s) \o <<"/">> \o q
        BY <2>3, <2>4, JoinAppend
    <2>6. Join(Append(s, q)) = IF s = <<>> THEN q ELSE Join(s) \o <<"/">> \o q
        BY JoinAppend
    <2>7. CASE s = <<>>
        <3>1. one \o s = one
            BY <1>0, <2>7, ConcatEmptySeq
        <3>2. Join(one) = <<>>
            <4>1. one = Append(<<>>, <<>>) /\ <<>> \in Seq({<<>>})
                BY DEF one
            <4>2. Join(Append(<<>>, <<>>)) = <<>>
                BY <4>1, JoinAppend
            <4>3. QED
                BY <4>1, <4>2, Zenon
        <3>3. <<>> \o <<"/">> = <<"/">>
            BY <1>0, ConcatEmptySeq
        <3>4. QED
            BY <2>5, <2>6, <2>7, <3>1, <3>2, <3>3
    <2>8. CASE s # <<>>
        <3>1. Join(one \o s) = <<"/">> \o Join(s)
            BY <1>2, <2>8 DEF one
        <3>2. Join(s) \in Seq(T)
            BY JoinIsAPath
        <3>3. (<<"/">> \o Join(s)) \o <<"/">> = <<"/">> \o (Join(s) \o <<"/">>)
            BY <1>0, <3>2, Associates
        <3>4. Join(s) \o <<"/">> \in Seq(T)
            BY <1>0, <3>2, ConcatProperties
        <3>5. (<<"/">> \o (Join(s) \o <<"/">>)) \o q = <<"/">> \o ((Join(s) \o <<"/">>) \o q)
            <4> DEFINE a == <<"/">>
                       b == Join(s) \o <<"/">>
            <4>1. a \in Seq(T) /\ b \in Seq(T) /\ q \in Seq(T)
                BY <1>0, <3>4
            <4> HIDE DEF a, b
            <4>2. (a \o b) \o q = a \o (b \o q)
                BY <4>1, Associates, SMTT(30)
            <4>3. QED
                BY <4>2, Zenon DEF a, b
        <3>6. QED
            BY <2>5, <2>6, <2>8, <3>1, <3>3, <3>5
    <2>9. QED
        BY <2>7, <2>8
<1>3. Seq(Seq(T)) \subseteq P
    <2> HIDE DEF P
    <2> QED BY <1>1, <1>2, SeqInductive
<1>4. QED
    BY <1>3

LEMMA SplitAfterASlash ==
    ASSUME NEW T, "/" \in T, NEW p \in Seq(T)
    PROVE  Split(<<"/">> \o p) = << <<>> >> \o Split(p)
<1> DEFINE S == Slashless(T)
           one == << <<>> >>
<1>1. Split(p) \in Seq(Seq(S)) /\ Split(p) # <<>>
    BY SplitPieces
<1>2. Seq(S) \subseteq Seq(T)
    <2>1. S \subseteq T
        BY DEF Slashless
    <2>2. QED
        BY <2>1, SeqMonotonic
<1>3. Split(p) \in Seq(Seq(T))
    BY <1>1, <1>2, SeqMonotonic
<1>4. one \in Seq(Seq(S)) /\ one # <<>>
    OBVIOUS
<1>5. one \o Split(p) \in Seq(Seq(S)) /\ one \o Split(p) # <<>>
    BY <1>1, <1>4, ConcatProperties, ConcatEqualIffEmpty
<1>6. Join(one \o Split(p)) = <<"/">> \o p
    BY <1>1, <1>3, JoinAfterASlash, JoinOfSplit
<1> HIDE DEF one
<1>7. Split(Join(one \o Split(p))) = one \o Split(p)
    BY <1>5, SplitOfJoin DEF S
<1>8. QED
    BY <1>6, <1>7 DEF one

-----------------------------------------------------------------------------
(* What is left when the dots are removed.                                 *)
NoDots(T) == Seq(Slashless(T)) \ {Dot, DotDot}

(* The walk along the segments, step by step.                              *)
LEMMA KeepSteps ==
    ASSUME NEW segments, NEW n \in Nat, NEW f, IsWalk(f, "keep", segments, n)
    PROVE  f[0] = <<>> /\ \A i \in 1..n : f[i] = Keep(f[i - 1], segments[i])
<1>1. \A i \in 1..n : Stepped("keep", segments, f[i - 1], i) = Keep(f[i - 1], segments[i])
    BY DEF Stepped
<1>2. f[0] = <<>>
    BY DEF IsWalk, Started
<1>3. \A i \in 1..n : f[i] = Stepped("keep", segments, f[i - 1], i)
    BY DEF IsWalk
<1>4. QED
    BY <1>1, <1>2, <1>3

LEMMA KeptSegments ==
    ASSUME NEW T, NEW segments \in Seq(Seq(Slashless(T))), segments # <<>>,
           NEW f, IsWalk(f, "keep", segments, Len(segments))
    PROVE  LET xs == f[Len(segments)] \o Ending(segments)
           IN /\ xs \in Seq(NoDots(T))
              /\ xs # <<>>
              /\ Len(xs) <= Len(segments)
<1> DEFINE S == Seq(Slashless(T))
           N == NoDots(T)
<1> PICK n \in Nat : n = Len(segments)
    BY LenProperties
<1>0. n # 0
    BY EmptySeq
<1>1. \A i \in 1..n : segments[i] \in S
    BY ElementOfSeq
<1>2. f[0] = <<>> /\ \A i \in 1..n : f[i] = Keep(f[i - 1], segments[i])
    BY KeepSteps
<1>3. ASSUME NEW kept \in Seq(N), NEW segment \in S
      PROVE  /\ Keep(kept, segment) \in Seq(N)
             /\ segment \in {Dot, DotDot} => Len(Keep(kept, segment)) <= Len(kept)
             /\ segment \notin {Dot, DotDot} =>
                    Keep(kept, segment) # <<>> /\ Len(Keep(kept, segment)) = Len(kept) + 1
    <2>0. Len(kept) \in Nat
        BY LenProperties
    <2>1. CASE segment = Dot
        BY <2>0, <2>1 DEF Keep
    <2>2. CASE segment = DotDot /\ kept = <<>>
        BY <2>0, <2>2 DEF Keep
    <2>3. CASE segment # Dot /\ segment = DotDot /\ kept # <<>>
        <3>1. Keep(kept, segment) = Front(kept)
            BY <2>3 DEF Keep
        <3>2. Front(kept) = SubSeq(kept, 1, Len(kept) - 1)
            BY DEF Front
        <3>3. \A i \in 1..(Len(kept) - 1) : kept[i] \in N
            BY <2>0, ElementOfSeq
        <3>4. Len(kept) - 1 \in Nat
            BY <2>0, <2>3, EmptySeq
        <3>5. SubSeq(kept, 1, Len(kept) - 1) \in Seq(N)
            BY <3>3, <3>4, SubSeqProperties
        <3>6. Len(SubSeq(kept, 1, Len(kept) - 1)) <= Len(kept)
            <4> HIDE DEF N
            <4>1. Len(SubSeq(kept, 1, Len(kept) - 1)) =
                      IF 1 <= Len(kept) - 1 THEN Len(kept) - 1 - 1 + 1 ELSE 0
                BY <3>3, <3>4, SubSeqProperties
            <4>2. QED
                BY <2>0, <4>1
        <3>7. QED
            BY <2>3, <3>1, <3>2, <3>5, <3>6
    <2>4. CASE segment \notin {Dot, DotDot}
        <3>1. Keep(kept, segment) = Append(kept, segment)
            BY <2>4 DEF Keep
        <3>2. segment \in N
            BY <2>4 DEF NoDots
        <3>3. /\ Append(kept, segment) \in Seq(N)
              /\ Append(kept, segment) # <<>>
              /\ Len(Append(kept, segment)) = Len(kept) + 1
            <4>1. kept \in Seq(N)
                OBVIOUS
            <4> HIDE DEF N
            <4>2. QED
                BY <3>2, <4>1, AppendProperties
        <3>4. QED
            BY <2>4, <3>1, <3>3, Zenon
    <2>5. QED
        BY <2>1, <2>2, <2>3, <2>4
<1> HIDE DEF N, S
<1> DEFINE P == {k \in Nat : k <= n => f[k] \in Seq(N) /\ Len(f[k]) <= k}
<1>4. 0 \in P
    <2>1. f[0] \in Seq(N) /\ Len(f[0]) = 0
        BY <1>2, EmptySeq, Zenon
    <2>2. QED
        BY <2>1
<1>5. ASSUME NEW k \in Nat, k \in P PROVE k + 1 \in P
    <2>1. SUFFICES ASSUME k + 1 <= n PROVE f[k + 1] \in Seq(N) /\ Len(f[k + 1]) <= k + 1
        OBVIOUS
    <2>2. f[k] \in Seq(N) /\ Len(f[k]) <= k
        BY <1>5, <2>1
    <2>3. k + 1 \in 1..n /\ (k + 1) - 1 = k
        BY <2>1
    <2>4. f[k + 1] = Keep(f[k], segments[k + 1])
        BY <1>2, <2>3
    <2>5. segments[k + 1] \in S
        BY <1>1, <2>3
    <2>6. Len(f[k]) \in Nat
        BY <2>2, LenProperties
    <2>7. f[k + 1] \in Seq(N)
        BY <1>3, <2>2, <2>4, <2>5, Zenon
    <2>8. Len(f[k + 1]) <= Len(f[k]) \/ Len(f[k + 1]) = Len(f[k]) + 1
        BY <1>3, <2>2, <2>4, <2>5, Zenon
    <2>9. Len(f[k + 1]) \in Nat
        BY <2>7, LenProperties, Zenon
    <2>10. QED
        <3>1. Len(f[k + 1]) <= k + 1
            BY <2>2, <2>6, <2>8, <2>9
        <3>2. QED
            BY <2>7, <3>1
<1>6. \A k \in 0..n : f[k] \in Seq(N) /\ Len(f[k]) <= k
    <2>1. Nat \subseteq P
        <3> HIDE DEF P
        <3> QED BY <1>4, <1>5, NatInductive
    <2>2. QED
        BY <2>1
<1>7. f[n - 1] \in Seq(N) /\ Len(f[n - 1]) <= n - 1 /\ Len(f[n - 1]) \in Nat
    <2>1. n - 1 \in 0..n
        BY <1>0
    <2>2. QED
        BY <1>6, <2>1, LenProperties
<1>8. f[n] = Keep(f[n - 1], segments[n]) /\ segments[n] \in S /\ Last(segments) = segments[n]
    <2>1. n \in 1..n
        BY <1>0
    <2>2. QED
        BY <1>1, <1>2, <2>1 DEF Last
<1>9. f[n] \in Seq(N) /\ Len(f[n]) \in Nat
    <2>1. f[n] \in Seq(N)
        BY <1>3, <1>7, <1>8
    <2>2. QED
        BY <2>1, LenProperties
<1>10. CASE segments[n] \in {Dot, DotDot}
    <2> DEFINE one == << <<>> >>
    <2>1. Ending(segments) = one
        BY <1>8, <1>10 DEF Ending
    <2>2. Len(f[n]) <= n - 1
        <3>1. Len(f[n]) <= Len(f[n - 1])
            BY <1>3, <1>7, <1>8, <1>10
        <3>2. QED
            BY <1>7, <1>9, <3>1
    <2>3. one \in Seq(N) /\ Len(one) = 1
        <3>1. <<>> \in Seq(Slashless(T))
            BY EmptySeq
        <3>2. <<>> # Dot /\ <<>> # DotDot
            BY DEF Dot, DotDot
        <3>3. <<>> \in N
            BY <3>1, <3>2 DEF N, NoDots
        <3>4. QED
            BY <3>3
    <2> HIDE DEF one
    <2>4. f[n] \o one \in Seq(N) /\ Len(f[n] \o one) = Len(f[n]) + 1
        <3>1. f[n] \o one \in Seq(N) /\ Len(f[n] \o one) = Len(f[n]) + Len(one)
            BY <1>9, <2>3, ConcatProperties, Zenon
        <3>2. QED
            BY <2>3, <3>1, Zenon
    <2>5. f[n] \o one # <<>>
        BY <1>9, <2>4, EmptySeq
    <2>6. Len(f[n] \o one) <= n
        BY <1>9, <2>2, <2>4
    <2>7. QED
        BY <2>1, <2>4, <2>5, <2>6 DEF N
<1>11. CASE segments[n] \notin {Dot, DotDot}
    <2>1. Ending(segments) = <<>>
        BY <1>8, <1>11 DEF Ending
    <2>2. f[n] \o <<>> = f[n]
        BY <1>9, ConcatEmptySeq
    <2>3. f[n] # <<>> /\ Len(f[n]) = Len(f[n - 1]) + 1
        BY <1>3, <1>7, <1>8, <1>11
    <2>4. Len(f[n]) <= n
        BY <1>7, <1>9, <2>3
    <2>5. QED
        BY <1>9, <2>1, <2>2, <2>3, <2>4 DEF N
<1>12. QED
    BY <1>10, <1>11

LEMMA BodyIsAPath ==
    ASSUME NEW T, NEW p \in Seq(T)
    PROVE  /\ Body(p) \in Seq(T)
           /\ Absolute(p) => p = <<"/">> \o Body(p) /\ "/" \in T
<1>1. CASE Absolute(p)
    <2>1. p # <<>> /\ p[1] = "/"
        BY <1>1 DEF Absolute
    <2>2. Len(p) \in Nat /\ Len(p) # 0
        BY <2>1, EmptySeq, LenProperties
    <2>3. "/" \in T
        <3>1. 1 \in 1..Len(p)
            BY <2>2
        <3>2. QED
            BY <2>1, <3>1, ElementOfSeq
    <2>4. Tail(p) \in Seq(T) /\ Tail(p) = SubSeq(p, 2, Len(p))
        BY <2>1, HeadTailProperties, TailIsSubSeq
    <2>5. SubSeq(p, 1, Len(p)) = <<p[1]>> \o SubSeq(p, 1 + 1, Len(p))
        <3>1. 1 \in 1..Len(p) /\ Len(p) \in 1..Len(p)
            BY <2>2
        <3>2. QED
            BY <3>1, SubSeqRecursiveFirst
    <2>6. SubSeq(p, 1, Len(p)) = p
        BY SubSeqFull
    <2>7. Body(p) = Tail(p)
        BY <1>1 DEF Body
    <2>8. 1 + 1 = 2
        OBVIOUS
    <2>9. p = <<"/">> \o Tail(p)
        BY <2>1, <2>4, <2>5, <2>6, <2>8, Zenon
    <2>10. QED
        BY <2>3, <2>4, <2>7, <2>9, Zenon
<1>2. CASE ~Absolute(p)
    BY <1>2 DEF Body
<1>3. QED
    BY <1>1, <1>2

(* Removing the dot segments leaves none, and no more pieces than there    *)
(* were.                                                                   *)
LEMMA NoDotsRemain ==
    ASSUME NEW T, "/" \in T, NEW p \in Seq(T)
    PROVE  LET q == RemoveDotSegments(p)
           IN /\ q \in Seq(T)
              /\ Range(Split(q)) \cap {Dot, DotDot} = {}
              /\ Len(Split(q)) <= Len(Split(p))
<1> DEFINE segments == Split(Body(p))
           q == RemoveDotSegments(p)
           one == << <<>> >>
           S == Seq(Slashless(T))
<1>1. Body(p) \in Seq(T)
    BY BodyIsAPath
<1>2. segments \in Seq(S) /\ segments # <<>>
    BY <1>1, SplitPieces
<1>3. Len(segments) \in Nat
    BY <1>2, LenProperties
<1>4. PICK f : /\ IsWalk(f, "keep", segments, Len(segments))
               /\ q = Root(p) \o Join(f[Len(segments)] \o Ending(segments))
    BY <1>3, RemoveDotSegmentsWalks
<1> DEFINE xs == f[Len(segments)] \o Ending(segments)
<1>5. xs \in Seq(NoDots(T)) /\ xs # <<>> /\ Len(xs) <= Len(segments)
    BY <1>2, <1>4, KeptSegments
<1>6. q = Root(p) \o Join(xs)
    BY <1>4
<1> HIDE DEF xs, q, segments
<1>7. xs \in Seq(S) /\ xs \in Seq(Seq(T)) /\ Len(xs) \in Nat
    <2>1. NoDots(T) \subseteq S
        BY DEF NoDots
    <2>2. S \subseteq Seq(T)
        <3>1. Slashless(T) \subseteq T
            BY DEF Slashless
        <3>2. QED
            BY <3>1, SeqMonotonic
    <2>3. NoDots(T) \subseteq Seq(T)
        BY <2>1, <2>2
    <2> HIDE DEF S
    <2>4. QED
        BY <1>5, <2>1, <2>3, SeqMonotonic, LenProperties
<1>8. Split(Join(xs)) = xs
    BY <1>5, <1>7, SplitOfJoin
<1>9. Join(xs) \in Seq(T)
    BY <1>7, JoinIsAPath
<1>10. \A i \in 1..Len(xs) : xs[i] \notin {Dot, DotDot}
    <2>1. \A i \in 1..Len(xs) : xs[i] \in NoDots(T)
        BY <1>5, ElementOfSeq
    <2>2. QED
        BY <2>1 DEF NoDots
<1>11. CASE Absolute(p)
    <2>1. q = <<"/">> \o Join(xs)
        BY <1>6, <1>11 DEF Root
    <2>2. Split(q) = one \o xs
        BY <1>8, <1>9, <2>1, SplitAfterASlash
    <2>3. p = <<"/">> \o Body(p)
        BY <1>11, BodyIsAPath
    <2>4. Split(p) = one \o segments
        <3>1. Split(<<"/">> \o Body(p)) = one \o segments
            BY <1>1, SplitAfterASlash DEF segments
        <3>2. QED
            BY <2>3, <3>1
    <2>5. one \in Seq(S) /\ Len(one) = 1 /\ one[1] = <<>>
        BY EmptySeq
    <2> HIDE DEF one
    <2>6. \A ys \in Seq(S) : Len(one \o ys) = 1 + Len(ys)
        <3> TAKE ys \in Seq(S)
        <3>1. Len(one \o ys) = Len(one) + Len(ys)
            BY <2>5, ConcatProperties, Zenon
        <3>2. QED
            BY <2>5, <3>1, Zenon
    <2>7. Len(Split(q)) <= Len(Split(p))
        <3>1. Len(Split(q)) = 1 + Len(xs) /\ Len(Split(p)) = 1 + Len(segments)
            BY <1>2, <1>7, <2>2, <2>4, <2>6, Zenon
        <3>2. QED
            BY <1>3, <1>5, <1>7, <3>1
    <2>8. q \in Seq(T)
        <3>1. <<"/">> \in Seq(T)
            OBVIOUS
        <3>2. QED
            BY <1>9, <2>1, <3>1, ConcatProperties
    <2>9. Range(one \o xs) = Range(one) \cup Range(xs)
        BY <1>7, <2>5, RangeConcatenation
    <2>10. Range(one) = {<<>>} /\ \A x \in Range(xs) : x \notin {Dot, DotDot}
        <3>1. Range(one) = {one[i] : i \in 1..Len(one)} /\ Range(xs) = {xs[i] : i \in 1..Len(xs)}
            BY <1>7, <2>5, RangeEquality
        <3>2. QED
            BY <1>10, <2>5, <3>1
    <2>11. <<>> # Dot /\ <<>> # DotDot
        BY DEF Dot, DotDot
    <2>12. Range(Split(q)) \cap {Dot, DotDot} = {}
        BY <2>2, <2>9, <2>10, <2>11
    <2>13. QED
        BY <2>7, <2>8, <2>12 DEF q
<1>12. CASE ~Absolute(p)
    <2>1. q = <<>> \o Join(xs)
        BY <1>6, <1>12 DEF Root
    <2>2. q = Join(xs)
        BY <1>9, <2>1, ConcatEmptySeq
    <2>3. Body(p) = p
        BY <1>12 DEF Body
    <2>4. Len(Split(q)) <= Len(Split(p))
        BY <1>5, <1>8, <2>2, <2>3 DEF segments
    <2>5. \A x \in Range(xs) : x \notin {Dot, DotDot}
        <3>1. Range(xs) = {xs[i] : i \in 1..Len(xs)}
            BY <1>7, RangeEquality
        <3>2. QED
            BY <1>10, <3>1
    <2>6. QED
        BY <1>8, <1>9, <2>2, <2>4, <2>5 DEF q
<1>13. QED
    BY <1>11, <1>12

-----------------------------------------------------------------------------
(* What find makes of a target before it looks at the table.               *)
LEMMA FewerSlashes ==
    ASSUME NEW T, NEW p \in Seq(T), NEW U, NEW q \in Seq(U), Slashes(q) \subseteq Slashes(p)
    PROVE  /\ SlashCount(q) <= SlashCount(p)
           /\ SlashCount(q) = SlashCount(p) => Slashes(q) = Slashes(p)
<1>1. IsFiniteSet(Slashes(p)) /\ SlashCount(p) = Cardinality(Slashes(p))
    BY SlashesAreFinite
<1>2. SlashCount(q) = Cardinality(Slashes(q))
    BY SlashesAreFinite
<1>3. QED
    BY <1>1, <1>2, FS_Subset

LEMMA FunctionIsASeq ==
    ASSUME NEW S, NEW n \in Nat, NEW f \in [1..n -> S]
    PROVE  f \in Seq(S) /\ Len(f) = n
<1>1. f \in Seq(S)
    BY SeqDef
<1>2. 1..Len(f) = 1..n /\ Len(f) \in Nat
    BY <1>1, LenProperties
<1>3. ASSUME NEW a \in Nat, NEW b \in Nat, 1..a = 1..b PROVE a <= b
    <2>1. CASE a = 0
        BY <2>1
    <2>2. CASE a # 0
        <3>1. a \in 1..a
            BY <2>2
        <3>2. a \in 1..b
            BY <1>3, <3>1
        <3>3. QED
            BY <3>2
    <2>3. QED
        BY <2>1, <2>2
<1>4. Len(f) <= n /\ n <= Len(f)
    BY <1>2, <1>3
<1>5. QED
    BY <1>1, <1>2, <1>4

LEMMA PartOfAPath ==
    ASSUME NEW T, NEW p \in Seq(T), NEW k \in Nat, k <= Len(p)
    PROVE  /\ SubSeq(p, 1, k) \in Seq(T)
           /\ Len(SubSeq(p, 1, k)) = k
           /\ \A i \in 1..k : SubSeq(p, 1, k)[i] = p[i]
<1> PICK m \in Nat : m = 1
    OBVIOUS
<1>1. \A i \in m..k : p[i] \in T
    <2>1. \A i \in 1..Len(p) : p[i] \in T
        BY ElementOfSeq
    <2>2. Len(p) \in Nat
        BY LenProperties
    <2>3. QED
        BY <2>1, <2>2
<1>2. /\ SubSeq(p, m, k) \in Seq(T)
      /\ Len(SubSeq(p, m, k)) = IF m <= k THEN k - m + 1 ELSE 0
      /\ \A i \in 1..(k - m + 1) : SubSeq(p, m, k)[i] = p[m + i - 1]
    BY <1>1, SubSeqProperties
<1>3. k - m + 1 = k /\ \A i \in 1..k : m + i - 1 = i
    OBVIOUS
<1>4. k = IF m <= k THEN k - m + 1 ELSE 0
    OBVIOUS
<1>5. QED
    BY <1>2, <1>3, <1>4

LEMMA PathOfIsAPath ==
    ASSUME NEW T, NEW target \in Seq(T)
    PROVE  PathOf(target) \in Seq(T) /\ SlashCount(PathOf(target)) <= SlashCount(target)
<1> DEFINE cuts == {i \in DOMAIN target : target[i] = "?"}
           p == PathOf(target)
<1>1. Len(target) \in Nat /\ DOMAIN target = 1..Len(target) /\ SlashCount(target) \in Nat
    BY LenProperties, SlashesAreFinite
<1>2. CASE cuts = {}
    BY <1>1, <1>2 DEF PathOf
<1>3. CASE cuts # {}
    <2> PICK m \in cuts : m = FirstOf(cuts)
        <3>1. cuts \subseteq Nat
            BY <1>1
        <3> HIDE DEF cuts
        <3>2. QED
            BY <1>3, <3>1, FirstOfIsFirst
    <2> PICK k \in Nat : k = m - 1
        <3>1. m - 1 \in Nat
            BY <1>1
        <3>2. QED
            BY <3>1
    <2>1. p = SubSeq(target, 1, k)
        BY <1>3 DEF PathOf
    <2>2. k <= Len(target)
        BY <1>1
    <2>3. \A i \in 1..k : target[i] \in T
        BY <1>1, <2>2, ElementOfSeq
    <2> HIDE DEF p
    <2>4. /\ SubSeq(target, 1, k) \in Seq(T)
          /\ Len(SubSeq(target, 1, k)) = k
          /\ \A i \in 1..k : SubSeq(target, 1, k)[i] = target[i]
        BY <2>2, PartOfAPath
    <2>5. p \in Seq(T) /\ Len(p) = k
        BY <2>1, <2>4
    <2>6. \A i \in 1..Len(p) : i \in 1..Len(target) /\ p[i] = target[i]
        BY <1>1, <2>1, <2>2, <2>4, <2>5
    <2>7. DOMAIN p = 1..Len(p)
        BY <2>5, LenProperties
    <2>8. Slashes(p) \subseteq Slashes(target)
        BY <1>1, <2>6, <2>7 DEF Slashes
    <2>9. QED
        BY <2>5, <2>8, FewerSlashes DEF p
<1>4. QED
    BY <1>2, <1>3

\* The tokens of a normalized path: no escape that means itself unescaped,
\* and none in lowercase.
Normal(T) ==
    {t \in T \cup Unreserved \cup DOMAIN Unescape \cup {"/"} :
        IsEscape(t) => Unescape[t] \notin Unreserved /\ Uppercased[t] = t}

ResolvedToken(t) ==
    IF ~IsEscape(t) THEN t
    ELSE IF Unescape[t] \in Unreserved THEN Unescape[t]
    ELSE Uppercased[t]

LEMMA ResolveIsAPath ==
    ASSUME NEW T, NEW p \in Seq(T)
    PROVE  /\ Resolve(p) \in Seq(Normal(T))
           /\ SlashCount(Resolve(p)) = SlashCount(p)
           /\ "/" \in Normal(T)
<1> DEFINE q == Resolve(p)
<1> PICK n \in Nat : n = Len(p)
    BY LenProperties
<1>1. DOMAIN p = 1..n /\ \A i \in 1..n : p[i] \in T
    BY LenProperties, ElementOfSeq
<1>2. q = [i \in 1..n |-> ResolvedToken(p[i])]
    BY <1>1 DEF Resolve, ResolvedToken
<1>3. ASSUME NEW t \in T
      PROVE  ResolvedToken(t) \in Normal(T) /\ (ResolvedToken(t) = "/" <=> t = "/")
    <2>1. CASE ~IsEscape(t)
        BY <2>1 DEF ResolvedToken, Normal
    <2>2. CASE IsEscape(t) /\ Unescape[t] \in Unreserved
        <3>1. ResolvedToken(t) = Unescape[t] /\ ~IsEscape(Unescape[t]) /\ t # "/"
            BY <2>2, RoutingAssumption DEF RoutingAssumption, ResolvedToken, IsEscape
        <3>2. Unescape[t] # "/"
            BY <2>2 DEF Unreserved, Digits
        <3>3. QED
            BY <2>2, <3>1, <3>2 DEF Normal
    <2>3. CASE IsEscape(t) /\ Unescape[t] \notin Unreserved
        <3>1. ResolvedToken(t) = Uppercased[t]
            BY <2>3 DEF ResolvedToken
        <3>2. /\ Uppercased[t] \in DOMAIN Unescape
              /\ Unescape[Uppercased[t]] = Unescape[t]
              /\ Uppercased[Uppercased[t]] = Uppercased[t]
              /\ "/" \notin DOMAIN Unescape
            BY <2>3, RoutingAssumption DEF RoutingAssumption, IsEscape
        <3>3. QED
            BY <2>3, <3>1, <3>2 DEF Normal, IsEscape
    <2>4. QED
        BY <2>1, <2>2, <2>3
<1> HIDE DEF q
<1>4. q \in Seq(Normal(T)) /\ Len(q) = n /\ DOMAIN q = 1..n
    <2>1. \A i \in 1..n : ResolvedToken(p[i]) \in Normal(T)
        BY <1>1, <1>3
    <2>2. q \in [1..n -> Normal(T)]
        BY <1>2, <2>1
    <2>3. QED
        BY <1>2, <2>2, FunctionIsASeq
<1>5. Slashes(q) = Slashes(p)
    BY <1>1, <1>2, <1>3, <1>4 DEF Slashes
<1>6. "/" \in Normal(T)
    BY RoutingAssumption DEF RoutingAssumption, Normal, IsEscape
<1>7. SlashCount(q) = SlashCount(p)
    <2>1. SlashCount(q) = Cardinality(Slashes(q))
        BY <1>4, SlashesAreFinite
    <2>2. SlashCount(p) = Cardinality(Slashes(p))
        BY SlashesAreFinite
    <2>3. QED
        BY <1>5, <2>1, <2>2
<1>8. QED
    BY <1>4, <1>6, <1>7 DEF q

LEMMA RoutablePathIsNormal ==
    ASSUME NEW T, NEW target \in Seq(T)
    PROVE  LET path == RoutablePath(target)
           IN /\ path \in Seq(Normal(T))
              /\ Split(path) \in Seq(Seq(Slashless(Normal(T)))) /\ Split(path) # <<>>
              /\ Range(Split(path)) \cap {Dot, DotDot} = {}
              /\ Len(Split(path)) <= SlashCount(target) + 1
<1> DEFINE p == PathOf(target)
           q == Resolve(p)
           path == RemoveDotSegments(q)
<1>1. p \in Seq(T) /\ SlashCount(p) <= SlashCount(target)
    BY PathOfIsAPath
<1> HIDE DEF p
<1>2. q \in Seq(Normal(T)) /\ SlashCount(q) = SlashCount(p) /\ "/" \in Normal(T)
    BY <1>1, ResolveIsAPath
<1> HIDE DEF q
<1>3. /\ path \in Seq(Normal(T))
      /\ Range(Split(path)) \cap {Dot, DotDot} = {}
      /\ Len(Split(path)) <= Len(Split(q))
    BY <1>2, NoDotsRemain
<1>4. Len(Split(q)) = SlashCount(q) + 1
    BY <1>2, SplitPieces
<1>5. RoutablePath(target) = path
    BY DEF RoutablePath, NormalizePath, path, q, p
<1> HIDE DEF path
<1>6. Split(path) \in Seq(Seq(Slashless(Normal(T)))) /\ Split(path) # <<>>
    BY <1>3, SplitPieces
<1>7. Len(Split(path)) <= SlashCount(target) + 1
    <2>1. SlashCount(p) \in Nat /\ SlashCount(target) \in Nat
        BY <1>1, SlashesAreFinite
    <2>2. Len(Split(path)) \in Nat
        BY <1>6, LenProperties
    <2>3. Len(Split(path)) <= SlashCount(p) + 1
        BY <1>2, <1>3, <1>4
    <2>4. QED
        BY <1>1, <2>1, <2>2, <2>3
<1>8. QED
    BY <1>3, <1>5, <1>6, <1>7

-----------------------------------------------------------------------------
(* Decoding a path that keeps its separators decodes it piece by piece.    *)
DecodedToken(t) == IF IsEscape(t) THEN Unescape[t] ELSE t

DecodedPieces(pieces) == [k \in DOMAIN pieces |-> PercentDecode(pieces[k])]

\* The tokens that are a separator, when decoded, only if they were before.
KeepsSeparators(T) == {t \in T : DecodedToken(t) = "/" => t = "/"}

\* What the tokens of a set stand for.
Decodings(T) == T \cup {DecodedToken(t) : t \in T}

LEMMA DecodeIsAPath ==
    ASSUME NEW T, NEW p \in Seq(T)
    PROVE  /\ PercentDecode(p) \in Seq(Decodings(T))
           /\ Len(PercentDecode(p)) = Len(p)
           /\ \A i \in 1..Len(p) : PercentDecode(p)[i] = DecodedToken(p[i])
<1> DEFINE q == PercentDecode(p)
<1> PICK n \in Nat : n = Len(p)
    BY LenProperties
<1>1. DOMAIN p = 1..n /\ \A i \in 1..n : p[i] \in T
    BY LenProperties, ElementOfSeq
<1>2. q = [i \in 1..n |-> DecodedToken(p[i])]
    BY <1>1 DEF PercentDecode, DecodedToken
<1> HIDE DEF q
<1>3. q \in [1..n -> Decodings(T)]
    BY <1>1, <1>2 DEF Decodings
<1>4. q \in Seq(Decodings(T)) /\ Len(q) = n
    BY <1>3, FunctionIsASeq
<1>5. QED
    BY <1>2, <1>4 DEF q

LEMMA DecodeAppend ==
    ASSUME NEW T, NEW p \in Seq(T), NEW t \in T
    PROVE  PercentDecode(Append(p, t)) = Append(PercentDecode(p), DecodedToken(t))
<1> DEFINE q == Append(p, t)
           a == PercentDecode(q)
           d == PercentDecode(p)
           b == Append(d, DecodedToken(t))
           U == Decodings(T)
<1> PICK n \in Nat : n = Len(p)
    BY LenProperties
<1>1. q \in Seq(T) /\ Len(q) = n + 1 /\ q[n + 1] = t /\ \A i \in 1..n : q[i] = p[i]
    BY AppendProperties
<1> HIDE DEF q
<1>2. a \in Seq(U) /\ Len(a) = n + 1 /\ \A i \in 1..(n + 1) : a[i] = DecodedToken(q[i])
    BY <1>1, DecodeIsAPath
<1>3. d \in Seq(U) /\ Len(d) = n /\ \A i \in 1..n : d[i] = DecodedToken(p[i])
    BY DecodeIsAPath
<1>4. DecodedToken(t) \in U
    BY DEF Decodings
<1> HIDE DEF a, d, U
<1>5. b \in Seq(U) /\ Len(b) = n + 1 /\ b[n + 1] = DecodedToken(t) /\ \A i \in 1..n : b[i] = d[i]
    BY <1>3, <1>4, AppendProperties
<1> HIDE DEF b
<1>6. \A i \in 1..(n + 1) : i \in 1..n \/ i = n + 1
    OBVIOUS
<1>7. \A i \in 1..(n + 1) : a[i] = b[i]
    BY <1>1, <1>2, <1>3, <1>5, <1>6
<1>8. a = b
    BY <1>2, <1>5, <1>7, SeqEqual
<1>9. QED
    BY <1>8 DEF a, b, d, q

LEMMA DecodedPiecesAppend ==
    ASSUME NEW P, NEW ps \in Seq(P), NEW q \in P
    PROVE  /\ DecodedPieces(Append(ps, q)) = Append(DecodedPieces(ps), PercentDecode(q))
           /\ Len(DecodedPieces(ps)) = Len(ps)
           /\ \A k \in 1..Len(ps) : DecodedPieces(ps)[k] = PercentDecode(ps[k])
<1> DEFINE D == P \cup {PercentDecode(x) : x \in P}
           qs == Append(ps, q)
           a == DecodedPieces(qs)
           d == DecodedPieces(ps)
           b == Append(d, PercentDecode(q))
<1> PICK n \in Nat : n = Len(ps)
    BY LenProperties
<1>0. ASSUME NEW xs \in Seq(P)
      PROVE  /\ DecodedPieces(xs) \in Seq(D)
             /\ Len(DecodedPieces(xs)) = Len(xs)
             /\ \A k \in 1..Len(xs) : DecodedPieces(xs)[k] = PercentDecode(xs[k])
    <2> DEFINE e == DecodedPieces(xs)
    <2> PICK m \in Nat : m = Len(xs)
        BY LenProperties
    <2>1. DOMAIN xs = 1..m /\ \A i \in 1..m : xs[i] \in P
        BY LenProperties, ElementOfSeq
    <2>2. e = [i \in 1..m |-> PercentDecode(xs[i])]
        BY <2>1 DEF DecodedPieces
    <2> HIDE DEF e
    <2>3. e \in [1..m -> D]
        BY <2>1, <2>2
    <2> HIDE DEF D
    <2>4. e \in Seq(D) /\ Len(e) = m
        BY <2>3, FunctionIsASeq
    <2>5. QED
        BY <2>2, <2>4 DEF e
<1>1. qs \in Seq(P) /\ Len(qs) = n + 1 /\ qs[n + 1] = q /\ \A i \in 1..n : qs[i] = ps[i]
    BY AppendProperties
<1> HIDE DEF qs
<1>2. a \in Seq(D) /\ Len(a) = n + 1 /\ \A i \in 1..(n + 1) : a[i] = PercentDecode(qs[i])
    BY <1>0, <1>1
<1>3. d \in Seq(D) /\ Len(d) = n /\ \A i \in 1..n : d[i] = PercentDecode(ps[i])
    BY <1>0
<1>4. PercentDecode(q) \in D
    OBVIOUS
<1> HIDE DEF a, d, D
<1>5. b \in Seq(D) /\ Len(b) = n + 1 /\ b[n + 1] = PercentDecode(q) /\ \A i \in 1..n : b[i] = d[i]
    BY <1>3, <1>4, AppendProperties
<1> HIDE DEF b
<1>6. \A i \in 1..(n + 1) : i \in 1..n \/ i = n + 1
    OBVIOUS
<1>7. \A i \in 1..(n + 1) : a[i] = b[i]
    BY <1>1, <1>2, <1>3, <1>5, <1>6
<1>8. a = b
    BY <1>2, <1>5, <1>7, SeqEqual
<1>9. QED
    BY <1>3, <1>8 DEF a, b, d, qs

LEMMA SplitOfDecoded ==
    ASSUME NEW T, NEW p \in Seq(KeepsSeparators(T))
    PROVE  Split(PercentDecode(p)) = DecodedPieces(Split(p))
<1> DEFINE K == KeepsSeparators(T)
           P == {s \in Seq(K) : Split(PercentDecode(s)) = DecodedPieces(Split(s))}
           U == Decodings(K)
<1>1. <<>> \in P
    <2>1. <<>> \in Seq(K) /\ Len(<<>>) = 0
        BY EmptySeq
    <2>2. PercentDecode(<<>>) = <<>>
        <3>1. PercentDecode(<<>>) \in Seq(U) /\ Len(PercentDecode(<<>>)) = 0
            BY <2>1, DecodeIsAPath
        <3>2. QED
            BY <3>1, EmptySeq
    <2>3. DecodedPieces(<< <<>> >>) = << <<>> >>
        <3>1. << <<>> >> = [k \in 1..1 |-> <<>>]
            OBVIOUS
        <3>2. \A k \in DOMAIN << <<>> >> : << <<>> >>[k] = <<>>
            OBVIOUS
        <3>3. DecodedPieces(<< <<>> >>) = [k \in DOMAIN << <<>> >> |-> <<>>]
            BY <2>2, <3>2 DEF DecodedPieces
        <3>4. DOMAIN << <<>> >> = 1..1
            OBVIOUS
        <3>5. QED
            BY <3>1, <3>3, <3>4, Zenon
    <2>4. Split(PercentDecode(<<>>)) = DecodedPieces(Split(<<>>))
        BY <2>2, <2>3, SplitEmpty, Zenon
    <2>5. QED
        BY <2>1, <2>4, Zenon
<1>2. ASSUME NEW s \in Seq(K), NEW t \in K, s \in P PROVE Append(s, t) \in P
    <2>1. Append(s, t) \in Seq(K)
        BY AppendProperties
    <2>2. SUFFICES Split(PercentDecode(Append(s, t))) = DecodedPieces(Split(Append(s, t)))
        BY <2>1
    <2>3. Split(PercentDecode(s)) = DecodedPieces(Split(s))
        BY <1>2
    <2>4. PercentDecode(Append(s, t)) = Append(PercentDecode(s), DecodedToken(t))
        BY DecodeAppend
    <2>5. PercentDecode(s) \in Seq(U) /\ DecodedToken(t) \in U
        <3>1. PercentDecode(s) \in Seq(U)
            BY DecodeIsAPath
        <3>2. DecodedToken(t) \in U
            BY DEF Decodings
        <3>3. QED
            BY <3>1, <3>2
    <2>6. Split(Append(PercentDecode(s), DecodedToken(t))) = Longer(DecodedPieces(Split(s)), DecodedToken(t))
        BY <2>3, <2>5, SplitAppend
    <2>7. Split(Append(s, t)) = Longer(Split(s), t)
        BY SplitAppend
    <2>8. Split(s) \in Seq(Seq(Slashless(K))) /\ Split(s) # <<>>
        BY SplitPieces
    <2>9. /\ DecodedPieces(Split(s)) \in Seq(Seq(Slashless(U)))
          /\ DecodedPieces(Split(s)) # <<>>
        BY <2>3, <2>5, SplitPieces
    <2>10. SUFFICES Longer(DecodedPieces(Split(s)), DecodedToken(t)) = DecodedPieces(Longer(Split(s), t))
        BY <2>4, <2>6, <2>7
    <2> DEFINE S == Seq(Slashless(K))
    <2>11. CASE t = "/"
        <3>1. DecodedToken(t) = "/"
            BY <2>11, RoutingAssumption DEF RoutingAssumption, DecodedToken, IsEscape
        <3>2. <<>> \in S
            BY EmptySeq
        <3>3. DecodedPieces(Append(Split(s), <<>>)) = Append(DecodedPieces(Split(s)), PercentDecode(<<>>))
            BY <2>8, <3>2, DecodedPiecesAppend
        <3>4. PercentDecode(<<>>) = <<>>
            <4>1. <<>> \in Seq(K) /\ Len(<<>>) = 0
                BY EmptySeq
            <4>2. PercentDecode(<<>>) \in Seq(U) /\ Len(PercentDecode(<<>>)) = 0
                BY <4>1, DecodeIsAPath
            <4>3. QED
                BY <4>2, EmptySeq
        <3>5. QED
            BY <2>11, <3>1, <3>3, <3>4 DEF Longer
    <2>12. CASE t # "/"
        <3>1. DecodedToken(t) # "/"
            BY <2>12 DEF KeepsSeparators
        <3>2. PICK xs \in Seq(S), q \in S : Split(s) = Append(xs, q)
            BY <2>8, SequenceEmptyOrAppend
        <3>3. t \in Slashless(K)
            BY <2>12 DEF Slashless
        <3>4. Append(q, t) \in S
            BY <3>3, AppendProperties
        <3>5. Longer(Split(s), t) = Append(xs, Append(q, t))
            <4>1. Longer(Append(xs, q), t) = Append(xs, Append(q, t))
                BY <2>12, PieceGrows
            <4>2. QED
                BY <3>2, <4>1, Zenon
        <3>6. DecodedPieces(Append(xs, Append(q, t))) = Append(DecodedPieces(xs), PercentDecode(Append(q, t)))
            BY <3>4, DecodedPiecesAppend
        <3>7. PercentDecode(Append(q, t)) = Append(PercentDecode(q), DecodedToken(t))
            BY <3>3, DecodeAppend
        <3>8. DecodedPieces(Split(s)) = Append(DecodedPieces(xs), PercentDecode(q))
            BY <3>2, DecodedPiecesAppend
        <3>9. DecodedPieces(xs) \in Seq(Seq(Slashless(U))) /\ PercentDecode(q) \in Seq(Slashless(U))
            <4>1. ASSUME NEW r \in S PROVE PercentDecode(r) \in Seq(Slashless(U))
                <5>1. \A i \in 1..Len(r) : r[i] \in Slashless(K)
                    BY ElementOfSeq
                <5>2. \A i \in 1..Len(r) : DecodedToken(r[i]) \in Slashless(U)
                    BY <5>1 DEF Slashless, Decodings, KeepsSeparators
                <5> DEFINE e == PercentDecode(r)
                <5>3. Len(e) = Len(r) /\ e \in Seq(Decodings(Slashless(K)))
                      /\ \A i \in 1..Len(r) : e[i] = DecodedToken(r[i])
                    BY DecodeIsAPath
                <5> HIDE DEF e
                <5>4. e \in [1..Len(e) -> Slashless(U)]
                    <6>1. e \in [1..Len(e) -> Decodings(Slashless(K))]
                        BY <5>3, LenProperties
                    <6>2. \A i \in 1..Len(e) : e[i] \in Slashless(U)
                        BY <5>2, <5>3
                    <6>3. QED
                        BY <6>1, <6>2
                <5>5. Len(e) \in Nat
                    BY <5>3, LenProperties
                <5>6. e \in Seq(Slashless(U))
                    BY <5>4, <5>5, SeqDef
                <5>7. QED
                    BY <5>6 DEF e
            <4>2. Len(DecodedPieces(xs)) = Len(xs)
                  /\ \A k \in 1..Len(xs) : DecodedPieces(xs)[k] = PercentDecode(xs[k])
                BY DecodedPiecesAppend
            <4>3. \A k \in 1..Len(xs) : xs[k] \in S
                BY ElementOfSeq
            <4>4. \A k \in 1..Len(xs) : DecodedPieces(xs)[k] \in Seq(Slashless(U))
                BY <4>1, <4>2, <4>3
            <4>5. DOMAIN DecodedPieces(xs) = 1..Len(xs) /\ Len(xs) \in Nat
                BY LenProperties DEF DecodedPieces
            <4>6. DecodedPieces(xs) \in [1..Len(xs) -> Seq(Slashless(U))]
                <5>1. DecodedPieces(xs) = [k \in 1..Len(xs) |-> DecodedPieces(xs)[k]]
                    BY <4>5 DEF DecodedPieces
                <5>2. QED
                    BY <4>4, <5>1
            <4>7. DecodedPieces(xs) \in Seq(Seq(Slashless(U)))
                BY <4>5, <4>6, FunctionIsASeq
            <4>8. QED
                BY <4>1, <4>7
        <3>10. Longer(DecodedPieces(Split(s)), DecodedToken(t))
                   = Append(DecodedPieces(xs), Append(PercentDecode(q), DecodedToken(t)))
            <4> DEFINE d == DecodedToken(t)
            <4>1. PICK ys \in Seq(Seq(Slashless(U))), y \in Seq(Slashless(U)) :
                      ys = DecodedPieces(xs) /\ y = PercentDecode(q)
                BY <3>9, Zenon
            <4>2. d \in U /\ d # "/"
                BY <2>5, <3>1
            <4> HIDE DEF d
            <4>3. Longer(Append(ys, y), d) = Append(ys, Append(y, d))
                BY <4>2, PieceGrows
            <4>4. QED
                BY <3>8, <4>1, <4>3, Zenon DEF d
        <3>11. QED
            BY <3>5, <3>6, <3>7, <3>10
    <2>13. QED
        BY <2>11, <2>12
<1>3. Seq(K) \subseteq P
    <2> HIDE DEF P, K
    <2> QED BY <1>1, <1>2, SeqInductive
<1>4. QED
    BY <1>3

-----------------------------------------------------------------------------
(* The members of a set, in order.                                         *)
LEMMA PositionsStep ==
    ASSUME NEW k \in Nat, NEW S
    PROVE  /\ Positions(0, S) = <<>>
           /\ Positions(k + 1, S) = IF k + 1 \in S THEN Append(Positions(k, S), k + 1)
                                                   ELSE Positions(k, S)
<1>1. PICK f : IsWalk(f, "positions", S, k) /\ Positions(k, S) = f[k]
    BY PositionsWalk
<1> PICK m \in Nat : m = k + 1
    OBVIOUS
<1>2. PICK g : IsWalk(g, "positions", S, m) /\ Positions(m, S) = g[m]
    BY PositionsWalk
<1>3. PICK h : IsWalk(h, "positions", S, 0) /\ Positions(0, S) = h[0]
    BY PositionsWalk
<1>4. k <= m /\ k \in 0..k /\ m \in 1..m /\ m - 1 = k
    OBVIOUS
<1>5. f[k] = g[k]
    BY <1>1, <1>2, <1>4, WalksAgree
<1>6. g[m] = Stepped("positions", S, g[m - 1], m)
    BY <1>2, <1>4 DEF IsWalk
<1>7. g[m] = IF m \in S THEN Append(g[m - 1], m) ELSE g[m - 1]
    BY <1>6 DEF Stepped
<1>8. h[0] = <<>>
    BY <1>3 DEF IsWalk, Started
<1>9. QED
    BY <1>1, <1>2, <1>3, <1>4, <1>5, <1>7, <1>8

LEMMA PositionsAreNat ==
    ASSUME NEW k \in Nat, NEW S
    PROVE  Positions(k, S) \in Seq(Nat)
<1> DEFINE P == {n \in Nat : Positions(n, S) \in Seq(Nat)}
<1>1. 0 \in P
    <2>1. Positions(0, S) = <<>>
        BY PositionsStep
    <2>2. Positions(0, S) \in Seq(Nat)
        BY <2>1, EmptySeq, Zenon
    <2>3. QED
        BY <2>2
<1>2. ASSUME NEW n \in Nat, n \in P PROVE n + 1 \in P
    <2>1. Positions(n + 1, S) = IF n + 1 \in S THEN Append(Positions(n, S), n + 1) ELSE Positions(n, S)
        BY PositionsStep
    <2>2. Append(Positions(n, S), n + 1) \in Seq(Nat)
        <3>1. n + 1 \in Nat /\ Positions(n, S) \in Seq(Nat)
            BY <1>2
        <3>2. QED
            BY <3>1, AppendProperties, Zenon
    <2>3. Positions(n + 1, S) \in Seq(Nat)
        BY <1>2, <2>1, <2>2, Zenon
    <2>4. QED
        BY <2>3
<1>3. Nat \subseteq P
    <2> HIDE DEF P
    <2> QED BY <1>1, <1>2, NatInductive
<1>4. QED
    BY <1>3

(* Sets that agree up to n have the same positions up to n.                *)
LEMMA PositionsAgree ==
    ASSUME NEW n \in Nat, NEW S, NEW R, \A i \in 1..n : i \in S <=> i \in R
    PROVE  Positions(n, S) = Positions(n, R)
<1> DEFINE P == {k \in Nat : k <= n => Positions(k, S) = Positions(k, R)}
<1>1. 0 \in P
    BY PositionsStep
<1>2. ASSUME NEW k \in Nat, k \in P PROVE k + 1 \in P
    <2>1. SUFFICES ASSUME k + 1 <= n PROVE Positions(k + 1, S) = Positions(k + 1, R)
        OBVIOUS
    <2>2. k + 1 \in S <=> k + 1 \in R
        BY <2>1
    <2>3. Positions(k, S) = Positions(k, R)
        BY <1>2, <2>1
    <2>4. Positions(k + 1, S) = IF k + 1 \in S THEN Append(Positions(k, S), k + 1) ELSE Positions(k, S)
        BY PositionsStep
    <2>5. Positions(k + 1, R) = IF k + 1 \in R THEN Append(Positions(k, R), k + 1) ELSE Positions(k, R)
        BY PositionsStep
    <2>6. QED
        BY <2>2, <2>3, <2>4, <2>5
<1>3. Nat \subseteq P
    <2> HIDE DEF P
    <2> QED BY <1>1, <1>2, NatInductive
<1>4. QED
    BY <1>3

(* Where a set has no more members there are no more positions.            *)
LEMMA PositionsEnd ==
    ASSUME NEW n \in Nat, NEW x \in Nat, x <= n, NEW S, \A i \in S : i \in Nat => i <= x
    PROVE  Positions(n, S) = Positions(x, S)
<1> DEFINE P == {k \in Nat : Positions(x + k, S) = Positions(x, S)}
<1>1. 0 \in P
    OBVIOUS
<1>2. ASSUME NEW k \in Nat, k \in P PROVE k + 1 \in P
    <2> PICK m \in Nat : m = x + k
        OBVIOUS
    <2>1. Positions(m, S) = Positions(x, S)
        BY <1>2
    <2>2. m + 1 \notin S
        OBVIOUS
    <2>3. Positions(m + 1, S) = Positions(m, S)
        BY <2>2, PositionsStep
    <2>4. m + 1 = x + (k + 1)
        OBVIOUS
    <2>5. QED
        BY <2>1, <2>3, <2>4
<1>3. Nat \subseteq P
    <2> HIDE DEF P
    <2> QED BY <1>1, <1>2, NatInductive
<1>4. n - x \in Nat /\ x + (n - x) = n
    OBVIOUS
<1>5. QED
    BY <1>3, <1>4

-----------------------------------------------------------------------------
(* The rest that a pattern captures.                                       *)
LEMMA PositionsIsAList ==
    ASSUME NEW n \in Nat, n # 0, NEW S, n \in S
    PROVE  /\ Len(Positions(n, S)) \in Nat \ {0}
           /\ DOMAIN Positions(n, S) = 1..Len(Positions(n, S))
           /\ Last(Positions(n, S)) = n
<1> PICK k \in Nat : k + 1 = n
    <2>1. n - 1 \in Nat /\ (n - 1) + 1 = n
        OBVIOUS
    <2>2. QED
        BY <2>1
<1>1. Positions(k, S) \in Seq(Nat)
    BY PositionsAreNat
<1>2. Positions(n, S) = Append(Positions(k, S), n)
    BY PositionsStep
<1>3. /\ Append(Positions(k, S), n) \in Seq(Nat)
      /\ Len(Append(Positions(k, S), n)) = Len(Positions(k, S)) + 1
      /\ Append(Positions(k, S), n)[Len(Positions(k, S)) + 1] = n
      /\ Len(Positions(k, S)) \in Nat
    BY <1>1, AppendProperties, LenProperties
<1>4. DOMAIN Positions(n, S) = 1..Len(Positions(n, S))
    BY <1>2, <1>3, LenProperties
<1>5. QED
    BY <1>2, <1>3, <1>4 DEF Last

LEMMA LastOfCaptured ==
    ASSUME NEW pattern, Len(pattern) \in Nat \ {0}, DOMAIN pattern = 1..Len(pattern),
           EndsInRest(pattern), NEW path
    PROVE  Last(Captured(pattern, path)).value = PercentDecode(RestOf(pattern, Split(path)))
<1> DEFINE n == Len(pattern)
           S == {i \in DOMAIN pattern : pattern[i].capture # "None"}
           bound == Positions(n, S)
           pieces == Split(path)
           value(i) == PercentDecode(IF pattern[i].capture = "Rest" THEN RestOf(pattern, pieces)
                                                                    ELSE pieces[i])
           list == [k \in DOMAIN bound |-> [name |-> pattern[bound[k]].text, value |-> value(bound[k])]]
<1>1. pattern[n].capture = "Rest"
    BY DEF EndsInRest, Last
<1>2. n \in S
    BY <1>1
<1>3. Len(bound) \in Nat \ {0} /\ DOMAIN bound = 1..Len(bound) /\ bound[Len(bound)] = n
    <2> HIDE DEF S
    <2> QED BY <1>2, PositionsIsAList DEF Last
<1>4. Captured(pattern, path) = list
    BY DEF Captured
<1> HIDE DEF bound, pieces, S
<1>5. list \in [1..Len(bound) -> Range(list)]
    BY <1>3 DEF Range
<1>6. Len(list) = Len(bound)
    <2> HIDE DEF list
    <2> QED BY <1>3, <1>5, FunctionIsASeq
<1>7. Last(list) = list[Len(bound)]
    BY <1>6 DEF Last
<1>8. Len(bound) \in DOMAIN bound
    BY <1>3
<1>9. list[Len(bound)].value = value(n)
    BY <1>3, <1>8
<1>10. value(n) = PercentDecode(RestOf(pattern, pieces))
    BY <1>1
<1>11. QED
    BY <1>4, <1>7, <1>9, <1>10 DEF pieces

(* A rest that matched begins with no slash and holds no dot segment after *)
(* it was decoded, and is the last segments of the path, each decoded.     *)
LEMMA TheRestStaysBelow ==
    ASSUME NEW T, NEW target \in Seq(T),
           NEW pattern, Len(pattern) \in Nat \ {0}, EndsInRest(pattern),
           Matches(pattern, RoutablePath(target))
    PROVE  LET segments == Split(RoutablePath(target))
               before   == Len(pattern) - 1
               rest     == PercentDecode(RestOf(pattern, segments))
           IN /\ ~Absolute(rest)
              /\ Range(Split(rest)) \cap {Dot, DotDot} = {}
              /\ Split(rest)
                     = [i \in 1..(Len(segments) - before) |-> PercentDecode(segments[before + i])]
<1> DEFINE path   == RoutablePath(target)
           pieces == Split(path)
           V      == Normal(T)
           S      == Seq(Slashless(V))
           raw    == RestOf(pattern, pieces)
           rest   == PercentDecode(raw)
<1> PICK n \in Nat : n = Len(pattern)
    OBVIOUS
<1> PICK m \in Nat : m = Len(pieces)
    BY RoutablePathIsNormal, LenProperties
<1>1. pieces \in Seq(S) /\ Range(pieces) \cap {Dot, DotDot} = {}
    BY RoutablePathIsNormal
<1>2. n # 0 /\ n <= m /\ pieces[n] # <<>> /\ SlashCount(rest) = SlashCount(raw)
    BY DEF Matches, SeparatorsKept
<1>3. "/" \in V
    BY RoutingAssumption DEF RoutingAssumption, Normal, IsEscape
<1> HIDE DEF path, pieces
<1> DEFINE parts == SubSeq(pieces, n, m)
<1>4. /\ parts \in Seq(S)
      /\ Len(parts) = m - n + 1
      /\ \A k \in 1..Len(parts) : n + k - 1 \in 1..m /\ parts[k] = pieces[n + k - 1]
    <2>1. \A i \in n..m : pieces[i] \in S
        <3>1. \A i \in 1..m : pieces[i] \in S
            BY <1>1, ElementOfSeq
        <3>2. QED
            BY <1>2, <3>1
    <2> HIDE DEF S
    <2>2. /\ SubSeq(pieces, n, m) \in Seq(S)
          /\ Len(SubSeq(pieces, n, m)) = IF n <= m THEN m - n + 1 ELSE 0
          /\ \A i \in 1..(m - n + 1) : SubSeq(pieces, n, m)[i] = pieces[n + i - 1]
        BY <2>1, SubSeqProperties
    <2> HIDE DEF parts
    <2>3. parts \in Seq(S) /\ Len(parts) = m - n + 1
        BY <1>2, <2>2 DEF parts
    <2>4. ASSUME NEW k \in 1..Len(parts)
          PROVE  n + k - 1 \in 1..m /\ parts[k] = pieces[n + k - 1]
        <3>1. k \in 1..(m - n + 1)
            BY <2>3
        <3>2. n + k - 1 \in 1..m
            BY <1>2, <3>1
        <3>3. QED
            BY <2>2, <3>1, <3>2 DEF parts
    <2>5. QED
        BY <2>3, <2>4
<1>5. parts # <<>> /\ Len(parts) \in Nat /\ 1 \in 1..Len(parts)
    <2>1. Len(parts) \in Nat /\ 1 \in 1..Len(parts)
        BY <1>2, <1>4
    <2>2. Len(parts) # 0
        BY <2>1
    <2>3. QED
        BY <2>1, <2>2, EmptySeq, Zenon
<1>6. raw = Join(parts)
    BY DEF RestOf, pieces
<1> HIDE DEF parts
<1>7. Split(raw) = parts
    BY <1>3, <1>4, <1>5, <1>6, SplitOfJoin
<1>8. raw \in Seq(V)
    <2>1. S \subseteq Seq(V)
        <3>1. Slashless(V) \subseteq V
            BY DEF Slashless
        <3>2. QED
            BY <3>1, SeqMonotonic
    <2>2. parts \in Seq(Seq(V))
        <3> HIDE DEF S
        <3> QED BY <1>4, <2>1, SeqMonotonic
    <2>3. QED
        BY <1>3, <1>6, <2>2, JoinIsAPath
<1> HIDE DEF raw
<1>9. /\ rest \in Seq(Decodings(V)) /\ Len(rest) = Len(raw) /\ Len(raw) \in Nat
      /\ DOMAIN raw = 1..Len(raw) /\ DOMAIN rest = 1..Len(raw)
      /\ \A i \in 1..Len(raw) : rest[i] = DecodedToken(raw[i])
    <2>1. /\ rest \in Seq(Decodings(V)) /\ Len(rest) = Len(raw)
          /\ \A i \in 1..Len(raw) : rest[i] = DecodedToken(raw[i])
        BY <1>8, DecodeIsAPath
    <2>2. DOMAIN raw = 1..Len(raw) /\ DOMAIN rest = 1..Len(rest) /\ Len(raw) \in Nat
        BY <1>8, <2>1, LenProperties
    <2>3. QED
        BY <2>1, <2>2
<1> HIDE DEF rest
<1>10. Slashes(raw) = Slashes(rest)
    <2>1. DecodedToken("/") = "/"
        BY RoutingAssumption DEF RoutingAssumption, DecodedToken, IsEscape
    <2>2. Slashes(raw) \subseteq Slashes(rest)
        BY <1>9, <2>1 DEF Slashes
    <2>3. QED
        BY <1>2, <1>8, <1>9, <2>2, FewerSlashes DEF rest
<1>11. raw \in Seq(KeepsSeparators(V))
    <2>1. \A i \in 1..Len(raw) : raw[i] \in V
        BY <1>8, ElementOfSeq
    <2>2. \A i \in 1..Len(raw) : DecodedToken(raw[i]) = "/" => raw[i] = "/"
        BY <1>9, <1>10 DEF Slashes
    <2>3. \A i \in 1..Len(raw) : raw[i] \in KeepsSeparators(V)
        BY <2>1, <2>2 DEF KeepsSeparators
    <2>4. raw \in [1..Len(raw) -> KeepsSeparators(V)]
        <3>1. raw \in [1..Len(raw) -> V]
            BY <1>8, LenProperties
        <3>2. QED
            BY <2>3, <3>1
    <2>5. QED
        BY <1>9, <2>4, FunctionIsASeq
<1>12. Split(rest) = DecodedPieces(parts)
    BY <1>7, <1>11, SplitOfDecoded DEF rest
<1>13. ~Absolute(rest)
    <2>1. SUFFICES ASSUME Absolute(rest) PROVE FALSE
        OBVIOUS
    <2>2. rest # <<>> /\ rest[1] = "/"
        BY <2>1 DEF Absolute
    <2>3. 1 \in 1..Len(raw) /\ raw # <<>>
        <3>1. Len(rest) # 0
            BY <1>9, <2>2, EmptySeq
        <3>2. 1 \in 1..Len(raw)
            BY <1>9, <3>1
        <3>3. QED
            BY <3>2, EmptySeq
    <2>4. raw[1] = "/"
        BY <1>9, <1>10, <2>2, <2>3 DEF Slashes
    <2>5. raw = <<"/">> \o Body(raw) /\ Body(raw) \in Seq(V)
        BY <1>8, <2>3, <2>4, BodyIsAPath DEF Absolute
    <2>6. Split(raw) = << <<>> >> \o Split(Body(raw))
        <3>1. Split(<<"/">> \o Body(raw)) = << <<>> >> \o Split(Body(raw))
            BY <1>3, <2>5, SplitAfterASlash
        <3>2. QED
            BY <2>5, <3>1, Zenon
    <2>7. Split(Body(raw)) \in Seq(S)
        BY <2>5, SplitPieces
    <2>8. (<< <<>> >> \o Split(Body(raw)))[1] = <<>>
        <3> DEFINE one == << <<>> >>
        <3>1. one \in Seq(S) /\ Len(one) = 1 /\ one[1] = <<>>
            BY EmptySeq
        <3>2. Len(Split(Body(raw))) \in Nat
            BY <2>7, LenProperties
        <3> HIDE DEF one
        <3>3. \A i \in 1..(Len(one) + Len(Split(Body(raw)))) :
                 (one \o Split(Body(raw)))[i] = IF i <= Len(one) THEN one[i]
                                                ELSE Split(Body(raw))[i - Len(one)]
            BY <2>7, <3>1, ConcatProperties
        <3>4. (one \o Split(Body(raw)))[1] = <<>>
            BY <3>1, <3>2, <3>3
        <3>5. QED
            BY <3>4 DEF one
    <2>9. parts[1] = <<>>
        BY <1>7, <2>6, <2>8, Zenon
    <2>10. parts[1] = pieces[n]
        <3> PICK k \in 1..Len(parts) : k = 1
            BY <1>5
        <3>1. parts[k] = pieces[n + k - 1]
            BY <1>4
        <3>2. n + k - 1 = n
            OBVIOUS
        <3>3. QED
            BY <3>1, <3>2
    <2>11. QED
        BY <1>2, <2>9, <2>10 DEF pieces
<1>14. Range(Split(rest)) \cap {Dot, DotDot} = {}
    <2>1. ASSUME NEW k \in 1..Len(parts), PercentDecode(parts[k]) \in {Dot, DotDot}
          PROVE  FALSE
        <3> DEFINE piece == parts[k]
                   d == PercentDecode(piece)
        <3>1. piece \in S /\ piece \notin {Dot, DotDot}
            <4>1. piece \in S
                BY <1>4, ElementOfSeq
            <4>2. piece = pieces[n + k - 1] /\ n + k - 1 \in 1..m
                BY <1>4
            <4>3. Range(pieces) = {pieces[i] : i \in 1..m}
                BY <1>1, RangeEquality DEF pieces
            <4>4. QED
                BY <1>1, <4>1, <4>2, <4>3 DEF pieces
        <3> HIDE DEF piece
        <3>2. Len(d) = Len(piece) /\ \A i \in 1..Len(piece) : d[i] = DecodedToken(piece[i])
            BY <3>1, DecodeIsAPath
        <3>3. \A i \in 1..Len(piece) : piece[i] \in V
            BY <3>1, ElementOfSeq DEF Slashless
        <3>4. ASSUME NEW t \in V, DecodedToken(t) = "." PROVE t = "."
            <4>1. "." \in Unreserved
                BY DEF Unreserved
            <4>2. QED
                BY <3>4, <4>1 DEF Normal, DecodedToken
        <3>5. d \in {Dot, DotDot}
            BY <2>1 DEF piece
        <3> HIDE DEF d
        <3>6. \A i \in 1..Len(d) : d[i] = "."
            BY <3>5 DEF Dot, DotDot
        <3>7. \A i \in 1..Len(d) : piece[i] = d[i]
            BY <3>2, <3>3, <3>4, <3>6
        <3>8. d \in Seq({"."}) /\ piece \in Seq(V)
            <4>1. Dot \in Seq({"."}) /\ DotDot \in Seq({"."})
                BY DEF Dot, DotDot
            <4>2. d \in Seq({"."})
                BY <3>5, <4>1
            <4>3. Slashless(V) \subseteq V
                BY DEF Slashless
            <4>4. QED
                BY <3>1, <4>2, <4>3, SeqMonotonic
        <3>9. d \in Seq(V \cup {"."}) /\ piece \in Seq(V \cup {"."})
            BY <3>8, SeqMonotonic
        <3>10. piece = d
            BY <3>2, <3>7, <3>9, SeqEqual
        <3>11. QED
            BY <3>1, <3>5, <3>10
    <2>2. DOMAIN DecodedPieces(parts) = 1..Len(parts)
        BY <1>4, LenProperties DEF DecodedPieces
    <2>3. \A k \in 1..Len(parts) : DecodedPieces(parts)[k] = PercentDecode(parts[k])
        BY <1>4, LenProperties DEF DecodedPieces
    <2>4. QED
        BY <1>12, <2>1, <2>2, <2>3 DEF Range
<1>15. Split(rest) = [i \in 1..(m - (n - 1)) |-> PercentDecode(pieces[(n - 1) + i])]
    <2>1. DOMAIN parts = 1..(m - (n - 1)) /\ m - (n - 1) = Len(parts)
        BY <1>4, <1>5, LenProperties
    <2>2. \A k \in 1..Len(parts) : parts[k] = pieces[(n - 1) + k]
        <3>1. \A k \in 1..Len(parts) : n + k - 1 = (n - 1) + k
            BY <1>5
        <3>2. QED
            BY <1>4, <3>1
    <2>3. QED
        BY <1>12, <2>1, <2>2 DEF DecodedPieces
<1>16. QED
    BY <1>13, <1>14, <1>15 DEF rest, raw, pieces, path
=============================================================================
