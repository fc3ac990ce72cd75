----------------------- MODULE RequestReader_proofs -----------------------
(***************************************************************************)
(* Proofs about RequestReader, for every conversation and every limit, and *)
(* about the digit loops of Parsing, for every text.  The order: what the  *)
(* loops compute; the bounds and the latch (ReaderInv); what a message has *)
(* left at each point of it; what each kind of line means and that the     *)
(* parsers read just that; the reader in step with its client (StepInv).   *)
(***************************************************************************)
EXTENDS RequestReader, SequenceTheorems, FiniteSetTheorems, WellFoundedInduction, TLAPS

(***************************************************************************)
(* Induction over the natural numbers, for a set rather than a predicate:  *)
(* what holds 0 and with each number the next one holds all of them.       *)
(***************************************************************************)
LEMMA LeastOf ==
    ASSUME NEW U, U \subseteq Nat, U # {}
    PROVE  \E x \in U : \A y \in U : x <= y
<1> DEFINE R == {ss \in Nat \X Nat : ss[1] < ss[2]}
<1>1. IsWellFoundedOn(R, Nat)
    BY NatLessThanWellFounded DEF OpToRel
<1>2. PICK x \in U : \A y \in U : ~ (<<y, x>> \in R)
    <2> HIDE DEF R
    <2> QED BY <1>1, WFMin
<1>3. ASSUME NEW y \in U PROVE x <= y
    <2>1. <<y, x>> \notin R
        BY <1>2
    <2>2. QED
        BY <2>1
<1>4. QED
    BY <1>3

LEMMA NatInductive ==
    ASSUME NEW T, 0 \in T, \A n \in Nat : n \in T => n + 1 \in T
    PROVE  Nat \subseteq T
<1> SUFFICES ASSUME Nat \ T # {} PROVE FALSE
    OBVIOUS
<1>1. PICK x \in Nat \ T : \A y \in Nat \ T : x <= y
    BY LeastOf
<1>2. x \in Nat /\ x # 0 /\ x - 1 \in Nat
    OBVIOUS
<1>3. x - 1 \in T
    BY <1>1, <1>2
<1>4. QED
    BY <1>2, <1>3

LEMMA MinIsLeast ==
    ASSUME NEW U, U \subseteq Nat, U # {}
    PROVE  Min(U) \in U /\ \A y \in U : Min(U) <= y
BY LeastOf DEF Min

LEMMA MaxIsGreatest ==
    ASSUME NEW n \in Nat, NEW U, U \subseteq 0..n, U # {}
    PROVE  Max(U) \in U /\ \A y \in U : Max(U) >= y
<1> DEFINE V == {k \in 0..n : n - k \in U}
<1>1. V \subseteq Nat /\ V # {}
    <2>1. PICK u \in U : TRUE
        OBVIOUS
    <2>2. n - u \in 0..n /\ n - (n - u) = u
        BY <2>1
    <2>3. n - u \in V
        BY <2>1, <2>2
    <2>4. V \subseteq 0..n /\ 0..n \subseteq Nat
        OBVIOUS
    <2> HIDE DEF V
    <2>5. QED
        BY <2>3, <2>4
<1>2. PICK k \in V : \A j \in V : k <= j
    BY <1>1, LeastOf
<1>3. n - k \in U
    BY <1>2
<1>4. ASSUME NEW y \in U PROVE n - k >= y
    <2>1. y \in 0..n /\ n - y \in 0..n /\ n - (n - y) = y
        OBVIOUS
    <2>2. k <= n - y
        BY <1>2, <2>1
    <2>3. k \in 0..n
        BY <1>2
    <2>4. QED
        BY <2>1, <2>2, <2>3
<1>5. QED
    BY <1>3, <1>4 DEF Max
-----------------------------------------------------------------------------
(* Flattening.                                                             *)

FlattenOf(f, seqs, n) ==
    f = [i \in 1..n |-> IF i = 1 THEN seqs[i] ELSE f[i - 1] \o seqs[i]]

LEMMA AFlatteningExists ==
    ASSUME NEW seqs, NEW n \in Nat
    PROVE  \E f : FlattenOf(f, seqs, n)
<1> DEFINE T == {k \in Nat : \E f : FlattenOf(f, seqs, k)}
<1>1. 0 \in T
    <2> DEFINE f == [i \in 1..0 |-> <<>>]
    <2>1. f = [i \in 1..0 |-> IF i = 1 THEN seqs[i] ELSE f[i - 1] \o seqs[i]]
        OBVIOUS
    <2>2. QED
        BY <2>1 DEF FlattenOf
<1>2. ASSUME NEW k \in Nat, k \in T
      PROVE  k + 1 \in T
    <2>1. PICK f : FlattenOf(f, seqs, k)
        BY <1>2
    <2> DEFINE last == IF k = 0 THEN seqs[1] ELSE f[k] \o seqs[k + 1]
               g == [i \in 1..(k + 1) |-> IF i = k + 1 THEN last ELSE f[i]]
    <2>2. \A i \in 1..k : g[i] = f[i]
        OBVIOUS
    <2>3. ASSUME NEW i \in 1..(k + 1)
          PROVE  g[i] = IF i = 1 THEN seqs[i] ELSE g[i - 1] \o seqs[i]
        <3>1. CASE i = k + 1
            <4>1. g[i] = last
                BY <3>1
            <4>2. k # 0 => g[i - 1] = f[k]
                BY <3>1
            <4>3. QED
                BY <3>1, <4>1, <4>2
        <3>2. CASE i \in 1..k
            <4>1. i # 1 => i - 1 \in 1..k
                BY <3>2
            <4>2. f[i] = IF i = 1 THEN seqs[i] ELSE f[i - 1] \o seqs[i]
                BY <2>1, <3>2 DEF FlattenOf
            <4>3. QED
                BY <2>2, <3>2, <4>1, <4>2
        <3>3. QED
            BY <3>1, <3>2
    <2>4. FlattenOf(g, seqs, k + 1)
        <3>1. g = [i \in 1..(k + 1) |-> g[i]]
            OBVIOUS
        <3> HIDE DEF g
        <3>2. QED
            BY <2>3, <3>1 DEF FlattenOf
    <2>5. QED
        BY <2>4
<1>3. QED
    BY <1>1, <1>2, NatInductive

LEMMA FlattenSeqUnfolds ==
    ASSUME NEW S, NEW seqs \in Seq(S)
    PROVE  \E f : /\ FlattenOf(f, seqs, Len(seqs))
                  /\ FlattenSeq(seqs) = IF seqs = <<>> THEN <<>> ELSE f[Len(seqs)]
<1> DEFINE f == CHOOSE f : f = [i \in 1..Len(seqs) |->
                                   IF i = 1 THEN seqs[i] ELSE f[i - 1] \o seqs[i]]
<1>1. f = CHOOSE g : FlattenOf(g, seqs, Len(seqs))
    BY DEF FlattenOf
<1>2. FlattenOf(f, seqs, Len(seqs))
    BY <1>1, AFlatteningExists
<1>3. Len(seqs) = 0 <=> seqs = <<>>
    OBVIOUS
<1>4. FlattenSeq(seqs) = IF seqs = <<>> THEN <<>> ELSE f[Len(seqs)]
    BY <1>3 DEF FlattenSeq
<1>5. QED
    BY <1>2, <1>4

LEMMA FlattenSeqType ==
    ASSUME NEW S, NEW seqs \in Seq(Seq(S))
    PROVE  FlattenSeq(seqs) \in Seq(S)
<1>1. PICK f : /\ FlattenOf(f, seqs, Len(seqs))
               /\ FlattenSeq(seqs) = IF seqs = <<>> THEN <<>> ELSE f[Len(seqs)]
    BY FlattenSeqUnfolds
<1> DEFINE n == Len(seqs)
           T == {k \in Nat : k \in 1..n => f[k] \in Seq(S)}
<1>2. n \in Nat /\ \A i \in 1..n : seqs[i] \in Seq(S)
    OBVIOUS
<1>3. 0 \in T
    OBVIOUS
<1>4. ASSUME NEW k \in Nat, k \in T
      PROVE  k + 1 \in T
    <2>1. SUFFICES ASSUME k + 1 \in 1..n PROVE f[k + 1] \in Seq(S)
        OBVIOUS
    <2>2. f[k + 1] = IF k + 1 = 1 THEN seqs[k + 1] ELSE f[(k + 1) - 1] \o seqs[k + 1]
        BY <1>1, <2>1 DEF FlattenOf
    <2>3. CASE k = 0
        BY <1>2, <2>1, <2>2, <2>3
    <2>4. CASE k # 0
        <3>1. (k + 1) - 1 = k /\ k \in 1..n /\ k + 1 # 1
            BY <1>2, <2>1, <2>4
        <3>2. f[k] \in Seq(S) /\ seqs[k + 1] \in Seq(S)
            BY <1>2, <1>4, <2>1, <3>1
        <3>3. QED
            BY <2>2, <3>1, <3>2
    <2>5. QED
        BY <2>3, <2>4
<1>5. Nat \subseteq T
    <2> HIDE DEF T
    <2> QED BY <1>3, <1>4, NatInductive
<1>6. seqs # <<>> => n \in 1..n
    BY <1>2
<1>7. QED
    BY <1>1, <1>2, <1>5, <1>6

-----------------------------------------------------------------------------
(* The digit loops.                                                        *)

\* One digit more, at a width of w, or exactly where w is 0.
OneMore(before, digit, base, w) ==
    IF w = 0 THEN before * base + digit ELSE (before * base + digit) % w

NumberOf(f, text, base, w, n) ==
    f = [i \in 0..n |-> IF i = 0 THEN 0 ELSE OneMore(f[i - 1], DigitValue[text[i]], base, w)]

\* The number that the first i digits write.
Written(text, base) == CHOOSE f : NumberOf(f, text, base, 0, Len(text))

LEMMA ANumberExists ==
    ASSUME NEW text, NEW base, NEW w, NEW n \in Nat
    PROVE  \E f : NumberOf(f, text, base, w, n)
<1> DEFINE T == {k \in Nat : \E f : NumberOf(f, text, base, w, k)}
<1>1. 0 \in T
    <2> DEFINE f == [i \in 0..0 |-> 0]
    <2>1. f = [i \in 0..0 |-> IF i = 0 THEN 0 ELSE OneMore(f[i - 1], DigitValue[text[i]], base, w)]
        OBVIOUS
    <2>2. QED
        BY <2>1 DEF NumberOf
<1>2. ASSUME NEW k \in Nat, k \in T
      PROVE  k + 1 \in T
    <2>1. PICK f : NumberOf(f, text, base, w, k)
        BY <1>2
    <2> DEFINE g == [i \in 0..(k + 1) |->
                        IF i = k + 1 THEN OneMore(f[k], DigitValue[text[k + 1]], base, w) ELSE f[i]]
    <2>2. \A i \in 0..k : g[i] = f[i]
        OBVIOUS
    <2>3. ASSUME NEW i \in 0..(k + 1)
          PROVE  g[i] = IF i = 0 THEN 0 ELSE OneMore(g[i - 1], DigitValue[text[i]], base, w)
        <3>1. CASE i = k + 1
            <4>1. g[i] = OneMore(f[k], DigitValue[text[k + 1]], base, w) /\ g[i - 1] = f[k]
                BY <3>1
            <4>2. QED
                BY <3>1, <4>1
        <3>2. CASE i = 0
            BY <2>1, <3>2 DEF NumberOf
        <3>3. CASE i \in 1..k
            <4>1. i - 1 \in 0..k /\ i \in 0..k
                BY <3>3
            <4>2. f[i] = OneMore(f[i - 1], DigitValue[text[i]], base, w)
                BY <2>1, <3>3, <4>1 DEF NumberOf
            <4>3. QED
                BY <2>2, <3>3, <4>1, <4>2
        <3>4. QED
            BY <3>1, <3>2, <3>3
    <2>4. NumberOf(g, text, base, w, k + 1)
        <3>1. g = [i \in 0..(k + 1) |-> g[i]]
            OBVIOUS
        <3> HIDE DEF g
        <3>2. QED
            BY <2>3, <3>1 DEF NumberOf
    <2>5. QED
        BY <2>4
<1>3. QED
    BY <1>1, <1>2, NatInductive

LEMMA ValuesUnfold ==
    ASSUME NEW text, Len(text) \in Nat, NEW base
    PROVE  NumberOf(Values(text, base), text, base, SizeMax, Len(text))
<1>1. SizeMax # 0
    BY ParsingAssumption DEF ParsingAssumption
<1>2. Values(text, base) = CHOOSE f : NumberOf(f, text, base, SizeMax, Len(text))
    BY <1>1 DEF Values, NumberOf, OneMore
<1>3. QED
    BY <1>2, ANumberExists

LEMMA WrittenUnfolds ==
    ASSUME NEW text, Len(text) \in Nat, NEW base
    PROVE  NumberOf(Written(text, base), text, base, 0, Len(text))
BY ANumberExists DEF Written

LEMMA DigitValues == \A token \in DOMAIN DigitValue : DigitValue[token] \in 0..11
<1>1. DOMAIN Digits = 1..12
    BY DEF Digits
<1>2. ASSUME NEW d \in Range(Digits)
      PROVE  \E i \in 0..11 : Digits[i + 1] = d
    <2>1. PICK j \in 1..12 : Digits[j] = d
        BY <1>1 DEF Range
    <2>2. j - 1 \in 0..11 /\ (j - 1) + 1 = j
        OBVIOUS
    <2>3. QED
        BY <2>1, <2>2
<1>3. QED
    BY <1>2 DEF DigitValue

LEMMA ExactStep ==
    ASSUME NEW base \in {10, 16}, NEW cap \in Nat, cap * base + (base - 1) < SizeMax,
           NEW n \in Nat, n <= cap, NEW d \in Nat, d < base
    PROVE  OneMore(n, d, base, SizeMax) = OneMore(n, d, base, 0)
<1>2. SizeMax \in Nat /\ SizeMax # 0
    BY ParsingAssumption DEF ParsingAssumption
<1>1. n * base + d \in Nat /\ n * base + d < SizeMax
    <2>1. CASE base = 10
        BY <1>2, <2>1
    <2>2. CASE base = 16
        BY <1>2, <2>2
    <2>3. QED
        BY <2>1, <2>2
<1>3. \A a \in Nat : a < SizeMax => a % SizeMax = a
    BY <1>2
<1>4. QED
    BY <1>1, <1>2, <1>3 DEF OneMore

\* The first k tokens are digits.
Legal(text, base, k) == \A j \in 1..k : IsDigit(text[j], base)

\* What the loop has after k digits, beside the number they write.
InStep(text, base, cap, k) ==
    LET v == Values(text, base)
        e == Written(text, base)
    IN /\ e[k] \in Nat /\ v[k] \in Nat
       /\ \A j \in 0..k : e[j] \in Nat /\ e[j] <= e[k]
       /\ e[k] <= cap => v[k] = e[k]
       /\ e[k] > cap => \E j \in 1..k : v[j] > cap

LEMMA OneMoreDigit ==
    ASSUME NEW base \in {10, 16}, NEW before \in Nat, NEW d \in Nat
    PROVE  /\ OneMore(before, d, base, 0) \in Nat
           /\ OneMore(before, d, base, 0) >= before
           /\ OneMore(before, d, base, SizeMax) \in Nat
<1>1. SizeMax \in Nat /\ SizeMax > 0
    BY ParsingAssumption DEF ParsingAssumption
<1>2. before * base + d \in Nat /\ before * base + d >= before
    <2>1. CASE base = 10
        BY <2>1
    <2>2. CASE base = 16
        BY <2>2
    <2>3. QED
        BY <2>1, <2>2
<1>3. \A a \in Nat : a % SizeMax \in Nat
    BY <1>1
<1>4. QED
    BY <1>1, <1>2, <1>3 DEF OneMore

LEMMA LoopStaysInStep ==
    ASSUME NEW text, Len(text) \in Nat,
           NEW base \in {10, 16}, NEW cap \in Nat, cap * base + (base - 1) < SizeMax
    PROVE  \A k \in 0..Len(text) : Legal(text, base, k) => InStep(text, base, cap, k)
<1> DEFINE n == Len(text)
           v == Values(text, base)
           e == Written(text, base)
           T == {k \in Nat : k <= n /\ Legal(text, base, k) => InStep(text, base, cap, k)}
<1>1. /\ NumberOf(v, text, base, SizeMax, n)
      /\ NumberOf(e, text, base, 0, n)
    BY ValuesUnfold, WrittenUnfolds
<1>2. 0 \in T
    <2>1. v[0] = 0 /\ e[0] = 0
        BY <1>1 DEF NumberOf
    <2> HIDE DEF v, e
    <2>2. QED
        BY <2>1 DEF InStep, v, e
<1>3. ASSUME NEW k \in Nat, k \in T
      PROVE  k + 1 \in T
    <2>1. SUFFICES ASSUME k + 1 <= n, Legal(text, base, k + 1)
                   PROVE  InStep(text, base, cap, k + 1)
        OBVIOUS
    <2>2. /\ e[k] \in Nat /\ v[k] \in Nat
          /\ \A j \in 0..k : e[j] \in Nat /\ e[j] <= e[k]
          /\ e[k] <= cap => v[k] = e[k]
          /\ e[k] > cap => \E j \in 1..k : v[j] > cap
        <3>1. k <= n /\ Legal(text, base, k)
            BY <2>1 DEF Legal
        <3>2. QED
            BY <1>3, <3>1 DEF InStep
    <2> DEFINE d == DigitValue[text[k + 1]]
    <2>3. d \in Nat /\ d < base
        <3>1. IsDigit(text[k + 1], base)
            BY <2>1 DEF Legal
        <3>2. QED
            BY <3>1, DigitValues DEF IsDigit
    <2>4. k + 1 \in 0..n /\ k + 1 # 0 /\ (k + 1) - 1 = k
        BY <2>1
    <2>5. v[k + 1] = OneMore(v[k], d, base, SizeMax) /\ e[k + 1] = OneMore(e[k], d, base, 0)
        <3> HIDE DEF v, e, n
        <3>1. /\ v[k + 1] = OneMore(v[(k + 1) - 1], DigitValue[text[k + 1]], base, SizeMax)
              /\ e[k + 1] = OneMore(e[(k + 1) - 1], DigitValue[text[k + 1]], base, 0)
            BY <1>1, <2>4 DEF NumberOf
        <3>2. QED
            BY <2>4, <3>1
    <2> HIDE DEF v, e, d, n
    <2>6. e[k + 1] \in Nat /\ v[k + 1] \in Nat /\ e[k + 1] >= e[k]
        <3>1. OneMore(v[k], d, base, SizeMax) \in Nat
            BY <2>2, <2>3, OneMoreDigit
        <3>2. OneMore(e[k], d, base, 0) \in Nat /\ OneMore(e[k], d, base, 0) >= e[k]
            BY <2>2, <2>3, OneMoreDigit
        <3>3. QED
            BY <2>5, <3>1, <3>2
    <2>7. \A j \in 0..(k + 1) : e[j] \in Nat /\ e[j] <= e[k + 1]
        <3> SUFFICES ASSUME NEW j \in 0..(k + 1) PROVE e[j] \in Nat /\ e[j] <= e[k + 1]
            OBVIOUS
        <3>1. CASE j = k + 1
            BY <2>6, <3>1
        <3>2. CASE j \in 0..k
            <4>1. e[j] \in Nat /\ e[j] <= e[k]
                BY <2>2, <3>2
            <4>2. QED
                BY <2>2, <2>6, <4>1
        <3>3. QED
            BY <3>1, <3>2
    <2>8. CASE e[k] <= cap
        <3>1. v[k + 1] = e[k + 1]
            BY <2>2, <2>3, <2>5, <2>8, ExactStep
        <3>2. e[k + 1] > cap => \E j \in 1..(k + 1) : v[j] > cap
            BY <3>1
        <3>3. QED
            BY <2>6, <2>7, <3>1, <3>2 DEF InStep, v, e
    <2>9. CASE e[k] > cap
        <3>1. \E j \in 1..(k + 1) : v[j] > cap
            BY <2>2, <2>9
        <3>2. ~(e[k + 1] <= cap)
            BY <2>2, <2>6, <2>9
        <3>3. QED
            BY <2>6, <2>7, <3>1, <3>2 DEF InStep, v, e
    <2>10. QED
        BY <2>2, <2>8, <2>9
<1>4. Nat \subseteq T
    <2> HIDE DEF T
    <2> QED BY <1>2, <1>3, NatInductive
<1>5. QED
    BY <1>4

(* A number is read exactly or refused: what the loop takes is the number  *)
(* the digits write, and it refuses as too large exactly what is.          *)
LEMMA NumbersAreExact ==
    ASSUME NEW S, NEW text \in Seq(S),
           NEW base \in {10, 16}, NEW cap \in Nat, cap * base + (base - 1) < SizeMax
    PROVE  LET parsed == ParseNumber(text, base, cap)
               e      == Written(text, base)
           IN /\ parsed.error = "None" <=>
                     /\ text # <<>>
                     /\ Legal(text, base, Len(text))
                     /\ e[Len(text)] <= cap
              /\ parsed.error = "None" => parsed.bytes = e[Len(text)]
              /\ parsed.error = "BodyTooLarge" <=>
                     \E k \in 1..Len(text) : Legal(text, base, k) /\ e[k] > cap
              /\ parsed.error \in {"None", "Malformed", "BodyTooLarge"}
              /\ parsed.bytes \in 0..cap
<1> DEFINE n == Len(text)
           v == Values(text, base)
           e == Written(text, base)
           legal  == {i \in DOMAIN text : \A j \in 1..i : IsDigit(text[j], base)}
           parsed == ParseNumber(text, base, cap)
<1>1. n \in Nat /\ DOMAIN text = 1..n /\ (text = <<>> <=> n = 0)
    OBVIOUS
<1>2. \A k \in 0..n : Legal(text, base, k) => InStep(text, base, cap, k)
    BY <1>1, LoopStaysInStep
<1>3. \A k \in 0..n : Legal(text, base, k) =>
          /\ e[k] \in Nat /\ v[k] \in Nat
          /\ e[k] <= cap => v[k] = e[k]
          /\ e[k] > cap => \E j \in 1..k : v[j] > cap
    <2> HIDE DEF v, e, n
    <2>1. QED
        BY <1>2 DEF InStep, v, e
<1>4. parsed = IF text = <<>> THEN Number("Malformed", 0)
               ELSE IF \E i \in legal : v[i] > cap THEN Number("BodyTooLarge", 0)
               ELSE IF legal # DOMAIN text THEN Number("Malformed", 0)
               ELSE Number("None", v[n])
    BY DEF ParseNumber
<1>5. legal = {i \in 1..n : Legal(text, base, i)}
    BY <1>1 DEF Legal
<1>6. \A k \in 1..n : Legal(text, base, k) => \A j \in 1..k : Legal(text, base, j)
    BY DEF Legal
<1> HIDE DEF n, v, e, legal, parsed
<1>7. (\E i \in legal : v[i] > cap) <=> \E k \in 1..n : Legal(text, base, k) /\ e[k] > cap
    <2>1. ASSUME NEW i \in legal, v[i] > cap PROVE e[i] > cap
        BY <1>1, <1>3, <1>5, <2>1
    <2>2. ASSUME NEW k \in 1..n, Legal(text, base, k), e[k] > cap
          PROVE  \E i \in legal : v[i] > cap
        <3>1. PICK j \in 1..k : v[j] > cap
            BY <1>1, <1>3, <2>2
        <3>2. j \in 1..n /\ Legal(text, base, j)
            BY <1>1, <1>6, <2>2
        <3>3. QED
            BY <1>5, <3>1, <3>2
    <2>3. QED
        BY <1>5, <2>1, <2>2
<1>8. legal = DOMAIN text /\ n # 0 <=> n # 0 /\ Legal(text, base, n)
    <2>1. n # 0 => n \in 1..n
        BY <1>1
    <2>2. QED
        BY <1>1, <1>5, <1>6, <2>1
<1>9. CASE text = <<>>
    <2>1. parsed = Number("Malformed", 0)
        BY <1>4, <1>9
    <2>2. QED
        BY <1>1, <1>9, <2>1 DEF Number, parsed, n, e
<1>10. CASE text # <<>> /\ \E i \in legal : v[i] > cap
    <2>1. parsed = Number("BodyTooLarge", 0)
        BY <1>4, <1>10
    <2>2. PICK k \in 1..n : Legal(text, base, k) /\ e[k] > cap
        BY <1>7, <1>10
    <2>3. Legal(text, base, n) => ~(e[n] <= cap)
        <3>1. Legal(text, base, n) => /\ e[n] \in Nat
                                      /\ e[n] <= cap => v[n] = e[n]
            BY <1>1, <1>3
        <3>2. Legal(text, base, n) => e[k] <= e[n]
            <4>1. Legal(text, base, n) => InStep(text, base, cap, n)
                BY <1>1, <1>2
            <4>2. k \in 0..n
                BY <1>1
            <4>3. QED
                BY <4>1, <4>2 DEF InStep, e
        <3>3. e[k] \in Nat
            BY <1>1, <1>3, <2>2
        <3>4. QED
            BY <2>2, <3>1, <3>2, <3>3
    <2>4. QED
        BY <2>1, <2>2, <2>3 DEF Number, parsed, n, e
<1>11. CASE text # <<>> /\ ~(\E i \in legal : v[i] > cap) /\ legal # DOMAIN text
    <2>1. parsed = Number("Malformed", 0)
        BY <1>4, <1>11
    <2>2. ~Legal(text, base, n)
        BY <1>1, <1>8, <1>11
    <2>3. QED
        BY <1>7, <1>11, <2>1, <2>2 DEF Number, parsed, n, e
<1>12. CASE text # <<>> /\ ~(\E i \in legal : v[i] > cap) /\ legal = DOMAIN text
    <2>1. parsed = Number("None", v[n])
        BY <1>4, <1>12
    <2>2. Legal(text, base, n) /\ n \in 1..n
        BY <1>1, <1>8, <1>12
    <2>3. e[n] \in Nat /\ e[n] <= cap
        BY <1>1, <1>3, <1>7, <1>12, <2>2
    <2>4. v[n] = e[n]
        BY <1>1, <1>3, <2>2, <2>3
    <2>5. parsed.error = "None" /\ parsed.bytes = e[n]
        BY <2>1, <2>4 DEF Number
    <2>6. QED
        BY <1>7, <1>12, <2>2, <2>3, <2>5 DEF parsed, n, e
<1>13. QED
    BY <1>9, <1>10, <1>11, <1>12

-----------------------------------------------------------------------------
(* What the parsers return.                                                *)

\* The strings, the literals among them that the provers do not know to be.
Tokens       == STRING \cup {"a", "host", "content-length", "chunked"}
Texts        == Seq(Tokens)
HeaderFields == [name : Texts, value : Texts]

LEMMA FindIsAPosition ==
    ASSUME NEW text \in Texts, NEW token
    PROVE  /\ Len(text) \in Nat
           /\ Find(text, token) \in Nat
           /\ Find(text, token) <= Len(text) + 1
<1>1. Len(text) \in Nat
    BY DEF Texts
<1>2. Positions(text, token) \subseteq 1..Len(text)
    BY DEF Positions
<1>3. Positions(text, token) # {} => Min(Positions(text, token)) \in Positions(text, token)
    <2>1. Positions(text, token) \subseteq Nat
        BY <1>1, <1>2
    <2>2. QED
        BY <2>1, MinIsLeast
<1>4. QED
    BY <1>1, <1>2, <1>3 DEF Find

LEMMA PartsAreTexts ==
    ASSUME NEW text \in Texts, NEW first \in Nat, NEW last \in Nat, last <= Len(text) + 1
    PROVE  /\ Between(text, first, last) \in Texts
           /\ Len(Between(text, first, last)) = IF first + 1 <= last - 1 THEN last - first - 1 ELSE 0
           /\ \A i \in 1..(last - first - 1) : Between(text, first, last)[i] = text[first + i]
<1>1. Len(text) \in Nat /\ \A i \in (first + 1)..(last - 1) : text[i] \in Tokens
    BY DEF Texts
<1>2. /\ SubSeq(text, first + 1, last - 1) \in Seq(Tokens)
      /\ Len(SubSeq(text, first + 1, last - 1)) =
             IF first + 1 <= last - 1 THEN (last - 1) - (first + 1) + 1 ELSE 0
      /\ \A i \in 1..((last - 1) - (first + 1) + 1) :
             SubSeq(text, first + 1, last - 1)[i] = text[(first + 1) + i - 1]
    BY <1>1, SubSeqProperties
<1>3. QED
    BY <1>1, <1>2 DEF Between, Texts

LEMMA RequestLineErrors ==
    \A line : ParseRequestLine(line) \in {"None", "Malformed", "UnsupportedVersion", "UnknownMethod"}
<1>1. \A part : ParseVersion(part) \in {"None", "Malformed", "UnsupportedVersion"}
    BY DEF ParseVersion
<1>2. QED
    BY <1>1 DEF ParseRequestLine

LEMMA SpokenVersionIsKnown ==
    ASSUME NEW line \in Texts, ParseRequestLine(line) = "None"
    PROVE  VersionOf(line) \in {"Http10", "Http11"}
<1> DEFINE sp1 == Find(line, Space)
           sp2 == sp1 + Find(SubSeq(line, sp1 + 1, Len(line)), Space)
           spoken == Between(line, sp2, Len(line) + 1)
<1>1. Len(line) \in Nat
    BY DEF Texts
<1>2. ParseVersion(spoken) = "None"
    BY DEF ParseRequestLine
<1>3. \E v \in DOMAIN SpokenVersions : spoken = <<v>>
    <2> HIDE DEF spoken
    <2>1. PICK v \in ShapedVersions : spoken = <<v>>
        BY <1>2 DEF ParseVersion
    <2>2. spoken[1] = v /\ v \in DOMAIN SpokenVersions
        BY <1>2, <2>1 DEF ParseVersion
    <2>3. QED
        BY <2>1, <2>2
<1>4. sp1 \in Nat /\ sp2 \in Nat
    <2>1. sp1 \in Nat /\ sp1 <= Len(line) + 1
        BY FindIsAPosition
    <2>2. SubSeq(line, sp1 + 1, Len(line)) \in Texts
        BY <1>1, <2>1, SubSeqProperties DEF Texts
    <2>3. Find(SubSeq(line, sp1 + 1, Len(line)), Space) \in Nat
        BY <2>2, FindIsAPosition
    <2>4. QED
        BY <1>1, <2>1, <2>3
<1>5. Len(spoken) = 1 /\ spoken[1] \in DOMAIN SpokenVersions
    BY <1>3
<1>6. /\ Len(spoken) = IF sp2 + 1 <= Len(line) THEN Len(line) - sp2 ELSE 0
      /\ \A i \in 1..(Len(line) - sp2) : spoken[i] = line[sp2 + i]
    <2> HIDE DEF sp2
    <2>1. Len(line) + 1 \in Nat /\ Len(line) + 1 <= Len(line) + 1 /\ (Len(line) + 1) - 1 = Len(line)
        BY <1>1
    <2>2. /\ Len(spoken) = IF sp2 + 1 <= (Len(line) + 1) - 1 THEN (Len(line) + 1) - sp2 - 1 ELSE 0
          /\ \A i \in 1..((Len(line) + 1) - sp2 - 1) : spoken[i] = line[sp2 + i]
        BY <1>4, <2>1, PartsAreTexts
    <2>3. (Len(line) + 1) - sp2 - 1 = Len(line) - sp2
        BY <1>1, <1>4
    <2>4. QED
        BY <2>1, <2>2, <2>3
<1> HIDE DEF sp1, sp2, spoken
<1>7. Len(line) = sp2 + 1 /\ spoken[1] = line[sp2 + 1]
    <2>1. sp2 + 1 <= Len(line) /\ Len(line) - sp2 = 1
        <3>1. Len(spoken) = IF sp2 + 1 <= Len(line) THEN Len(line) - sp2 ELSE 0
            BY <1>6
        <3>2. CASE sp2 + 1 <= Len(line)
            BY <1>5, <3>1, <3>2
        <3>3. CASE ~(sp2 + 1 <= Len(line))
            BY <1>5, <3>1, <3>3
        <3>4. QED
            BY <3>2, <3>3
    <2>2. 1 \in 1..(Len(line) - sp2)
        BY <2>1
    <2>3. spoken[1] = line[sp2 + 1]
        BY <1>6, <2>2
    <2>4. QED
        BY <1>1, <1>4, <2>1, <2>3
<1>8. Last(line) \in DOMAIN SpokenVersions
    BY <1>5, <1>7 DEF Last
<1>9. QED
    BY <1>8 DEF VersionOf, SpokenVersions

LEMMA LoweredIsText ==
    ASSUME NEW text \in Texts
    PROVE  Lowered(text) \in Texts
<1>1. \A t \in DOMAIN Folded : Folded[t] \in Tokens
    <2>1. DOMAIN Folded = {"Host", "Content-Length", "Chunked"}
        BY DEF Folded
    <2>2. /\ Folded["Host"] = "host"
          /\ Folded["Content-Length"] = "content-length"
          /\ Folded["Chunked"] = "chunked"
        BY DEF Folded
    <2>3. QED
        BY <2>1, <2>2 DEF Tokens
<1>2. Len(text) \in Nat /\ \A i \in 1..Len(text) : text[i] \in Tokens
    BY DEF Texts
<1>3. \A i \in 1..Len(text) :
          (IF text[i] \in DOMAIN Folded THEN Folded[text[i]] ELSE text[i]) \in Tokens
    BY <1>1, <1>2
<1>4. QED
    BY <1>2, <1>3 DEF Lowered, Texts

LEMMA TrimmedIsText ==
    ASSUME NEW text \in Texts
    PROVE  Trimmed(text) \in Texts
<1> DEFINE solid == {i \in DOMAIN text : ~IsOws(text[i])}
<1>1. Len(text) \in Nat /\ DOMAIN text = 1..Len(text) /\ \A i \in 1..Len(text) : text[i] \in Tokens
    BY DEF Texts
<1>2. CASE solid = {}
    BY <1>2 DEF Trimmed, Texts
<1>3. CASE solid # {}
    <2>1. solid \subseteq 0..Len(text) /\ solid \subseteq Nat /\ solid \subseteq 1..Len(text)
        BY <1>1
    <2> HIDE DEF solid
    <2>2. Min(solid) \in 1..Len(text) /\ Max(solid) \in 1..Len(text)
        BY <1>1, <1>3, <2>1, MinIsLeast, MaxIsGreatest
    <2>3. \A i \in Min(solid)..Max(solid) : text[i] \in Tokens
        BY <1>1, <2>2
    <2>4. SubSeq(text, Min(solid), Max(solid)) \in Seq(Tokens)
        BY <1>1, <2>2, <2>3, SubSeqProperties
    <2>5. Trimmed(text) = SubSeq(text, Min(solid), Max(solid))
        BY <1>3 DEF Trimmed, solid
    <2>6. QED
        BY <2>4, <2>5 DEF Texts
<1>4. QED
    BY <1>2, <1>3

LEMMA ParsedFieldIsAField ==
    ASSUME NEW line \in Texts, IsHeaderField(line)
    PROVE  ParseHeaderField(line) \in HeaderFields
<1> DEFINE colon == Find(line, ":")
<1>1. Len(line) \in Nat /\ colon \in Nat /\ colon <= Len(line) + 1
    BY FindIsAPosition
<1> HIDE DEF colon
<1>2. Between(line, 0, colon) \in Texts /\ Between(line, colon, Len(line) + 1) \in Texts
    BY <1>1, PartsAreTexts
<1>3. Lowered(Between(line, 0, colon)) \in Texts /\ Trimmed(Between(line, colon, Len(line) + 1)) \in Texts
    BY <1>2, LoweredIsText, TrimmedIsText
<1>4. QED
    BY <1>3 DEF ParseHeaderField, HeaderFields, colon

LEMMA ContentLengthInBounds ==
    ASSUME NEW text \in Texts
    PROVE  /\ ParseContentLength(text).error \in {"None", "Malformed", "BodyTooLarge"}
           /\ ParseContentLength(text).bytes \in 0..MaxDrain
<1>1. MaxDrain \in Nat /\ MaxDrain * 10 + (10 - 1) < SizeMax
    BY ParsingAssumption DEF ParsingAssumption
<1>2. 10 \in {10, 16}
    OBVIOUS
<1>3. QED
    BY <1>1, <1>2, NumbersAreExact DEF ParseContentLength, Texts

LEMMA ChunkSizeInBounds ==
    ASSUME NEW line \in Texts
    PROVE  /\ ParseChunkSize(line).error \in {"None", "Malformed", "BodyTooLarge"}
           /\ ParseChunkSize(line).bytes \in 0..MaxBody
<1>1. MaxBody \in Nat /\ MaxBody * 16 + (16 - 1) < SizeMax
    BY ParsingAssumption DEF ParsingAssumption
<1>2. 16 \in {10, 16}
    OBVIOUS
<1>3. Between(line, 0, Find(line, Semi)) \in Texts
    <2>1. Find(line, Semi) \in Nat /\ Find(line, Semi) <= Len(line) + 1
        BY FindIsAPosition
    <2>2. QED
        BY <2>1, PartsAreTexts
<1>4. QED
    BY <1>1, <1>2, <1>3, NumbersAreExact DEF ParseChunkSize, Texts

LEMMA MeasuredInBounds ==
    ASSUME headers \in Seq(HeaderFields)
    PROVE  /\ MeasureBody.error \in Errors \cup {"None"}
           /\ MeasureBody.bytes \in 0..MaxDrain
           /\ MeasureBody.chunked \in BOOLEAN
<1>1. MaxDrain \in Nat
    BY ParsingAssumption DEF ParsingAssumption
<1>2. ASSUME CountOf("content-length") = 1
      PROVE  ValueOf("content-length") \in Texts
    <2> DEFINE named == Named("content-length")
    <2>1. /\ named \subseteq 1..Len(headers) /\ Len(headers) \in Nat
          /\ \A i \in 1..Len(headers) : headers[i] \in HeaderFields
        BY DEF Named
    <2> HIDE DEF named
    <2>2. named \subseteq Nat /\ IsFiniteSet(named)
        <3>1. IsFiniteSet(1..Len(headers))
            BY <2>1, FS_Interval
        <3>2. QED
            <4>1. named \in SUBSET (1..Len(headers)) /\ named \subseteq Nat
                BY <2>1
            <4>2. QED
                BY <3>1, <4>1, FS_Subset
    <2>3. Cardinality(named) = 1
        BY <1>2 DEF CountOf, named
    <2>4. named # {}
        BY <2>2, <2>3, FS_EmptySet
    <2>5. Min(named) \in named
        BY <2>2, <2>4, MinIsLeast
    <2>6. headers[Min(named)] \in HeaderFields
        BY <2>1, <2>5
    <2>7. QED
        BY <2>6 DEF ValueOf, HeaderFields, named
<1>3. CASE CountOf("content-length") = 1
    <2>1. /\ ParseContentLength(ValueOf("content-length")).error \in {"None", "Malformed", "BodyTooLarge"}
          /\ ParseContentLength(ValueOf("content-length")).bytes \in 0..MaxDrain
        BY <1>2, <1>3, ContentLengthInBounds
    <2>2. QED
        BY <1>1, <2>1 DEF MeasureBody, Measured, Errors
<1>4. CASE CountOf("content-length") # 1
    BY <1>1, <1>4 DEF MeasureBody, Measured, Errors
<1>5. QED
    BY <1>3, <1>4

-----------------------------------------------------------------------------
(* What a client sends is a sequence of items.                             *)

Kinds == {"request", "field", "blank", "byte", "size", "crlf"}
Items == [kind : Kinds, text : Texts]

LEMMA ListsAreIndexed ==
    ASSUME NEW list, IsList(list)
    PROVE  /\ Len(list) \in Nat /\ DOMAIN list = 1..Len(list)
           /\ \A i \in 1..Len(list) : list[i] \in Range(list)
<1>1. list \in Seq(Range(list))
    BY DEF IsList
<1> HIDE DEF Range
<1>2. QED
    BY <1>1

LEMMA SentTextsAreTexts == Seq(STRING) \subseteq Texts
<1>1. STRING \subseteq Tokens
    BY DEF Tokens
<1>2. QED
    BY <1>1, SeqMonotonic DEF Texts

LEMMA FieldItemsAreItems ==
    ASSUME NEW fields, IsList(fields), \A f \in Range(fields) : f.text \in Seq(STRING)
    PROVE  FieldItems(fields) \in Seq(Items)
<1>1. Len(fields) \in Nat /\ \A i \in 1..Len(fields) : fields[i].text \in Texts
    BY ListsAreIndexed, SentTextsAreTexts
<1>2. \A i \in 1..Len(fields) : Item("field", fields[i].text) \in Items
    BY <1>1 DEF Item, Items, Kinds
<1>3. QED
    BY <1>1, <1>2 DEF FieldItems

LEMMA BytesAreItems ==
    ASSUME NEW n \in Nat
    PROVE  [i \in 1..n |-> Byte] \in Seq(Items)
<1>1. <<"a">> \in Texts
    BY DEF Texts, Tokens
<1>2. Byte \in Items
    BY <1>1 DEF Byte, Item, Items, Kinds
<1>3. QED
    BY <1>2

LEMMA ChunkItemsAreItems ==
    ASSUME NEW chunk, chunk.text \in Seq(STRING), chunk.n \in Nat
    PROVE  ChunkItems(chunk) \in Seq(Items)
<1>1. Item("size", chunk.text) \in Items
    BY SentTextsAreTexts DEF Item, Items, Kinds
<1>2. ChunkEnd \in Items
    BY DEF ChunkEnd, Item, Items, Kinds, Texts
<1>3. [i \in 1..chunk.n |-> Byte] \in Seq(Items)
    BY BytesAreItems
<1> DEFINE data == [i \in 1..chunk.n |-> Byte]
<1> HIDE DEF data
<1>4. <<Item("size", chunk.text)>> \in Seq(Items) /\ <<ChunkEnd>> \in Seq(Items) /\ data \in Seq(Items)
    BY <1>1, <1>2, <1>3 DEF data
<1>5. <<Item("size", chunk.text)>> \o data \o (IF chunk.n = 0 THEN <<>> ELSE <<ChunkEnd>>) \in Seq(Items)
    BY <1>4
<1>6. QED
    BY <1>5 DEF ChunkItems, data

LEMMA MessageItemsAreItems ==
    ASSUME NEW m, IsMessage(m)
    PROVE  MessageItems(m) \in Seq(Items)
<1>1. /\ m.line \in Seq(STRING) /\ m.bytes \in Nat
      /\ IsList(m.fields) /\ IsList(m.chunks) /\ IsList(m.trailers)
      /\ \A part \in Range(m.fields) : part.text \in Seq(STRING)
      /\ \A part \in Range(m.trailers) : part.text \in Seq(STRING)
      /\ \A part \in Range(m.chunks) : part.text \in Seq(STRING) /\ part.n \in Nat
    BY DEF IsMessage
<1> DEFINE first    == <<Item("request", m.line)>>
           fields   == FieldItems(m.fields)
           trailers == FieldItems(m.trailers)
           data     == [i \in 1..m.bytes |-> Byte]
           chunks   == [i \in 1..Len(m.chunks) |-> ChunkItems(m.chunks[i])]
           blank    == <<Blank>>
<1>2. first \in Seq(Items)
    <2>1. Item("request", m.line) \in Items
        BY <1>1, SentTextsAreTexts DEF Item, Items, Kinds
    <2>2. QED
        BY <2>1
<1>3. fields \in Seq(Items) /\ trailers \in Seq(Items)
    BY <1>1, FieldItemsAreItems
<1>4. data \in Seq(Items)
    BY <1>1, BytesAreItems
<1>5. FlattenSeq(chunks) \in Seq(Items)
    <2>1. Len(m.chunks) \in Nat /\ \A i \in 1..Len(m.chunks) : m.chunks[i] \in Range(m.chunks)
        BY <1>1, ListsAreIndexed
    <2>2. \A i \in 1..Len(m.chunks) : ChunkItems(m.chunks[i]) \in Seq(Items)
        BY <1>1, <2>1, ChunkItemsAreItems
    <2>3. chunks \in Seq(Seq(Items))
        BY <2>1, <2>2
    <2> HIDE DEF chunks
    <2>4. QED
        BY <2>3, FlattenSeqType
<1>6. blank \in Seq(Items)
    <2>1. Blank \in Items
        BY DEF Blank, Item, Items, Kinds, Texts
    <2>2. QED
        BY <2>1
<1>7. MessageItems(m) = first \o fields \o blank \o data \o FlattenSeq(chunks)
                           \o (IF m.chunks = <<>> THEN <<>> ELSE trailers \o blank)
    BY DEF MessageItems
<1> HIDE DEF first, fields, trailers, data, chunks, blank
<1>8. (IF m.chunks = <<>> THEN <<>> ELSE trailers \o blank) \in Seq(Items)
    BY <1>3, <1>6
<1>9. QED
    BY <1>2, <1>3, <1>4, <1>5, <1>6, <1>7, <1>8

-----------------------------------------------------------------------------
(* The inductive invariant.  StreamInv is what lies in the buffer, CountInv*)
(* the budgets, which may be overrun only by the one that fails the call,  *)
(* SizeInv the body that grows, and LatchInv the failure: no call runs on  *)
(* after one, and the last result is what every later call repeats.        *)

StreamInv == incoming \in Seq(Items) /\ unread \in Seq(Items)

RequestInv ==
    /\ phase \in LinePhases \cup BytePhases
    /\ version \in {"Http10", "Http11"}
    /\ headers \in Seq(HeaderFields)

CountInv ==
    /\ head_bytes \in 0..(MaxHead + 1)
    /\ field_count \in 0..(MaxFields + 1)
    /\ failure = "None" => head_bytes <= MaxHead /\ field_count <= MaxFields

SizeInv ==
    /\ body \in 0..MaxBody
    /\ chunk_bytes \in 0..MaxBody
    /\ body_bytes \in 0..MaxDrain
    /\ phase = "ChunkData" => body + chunk_bytes <= MaxBody
    /\ phase = "Body" => body_bytes <= MaxBody

Results == [error : Errors \cup {"None"}, continues : BOOLEAN,
            version : {"Http10", "Http11"}, body : 0..MaxBody]

LatchInv ==
    /\ busy \in BOOLEAN
    /\ failure \in Errors \cup {"None"}
    /\ results \in Seq(Results)
    /\ busy => failure = "None"
    /\ failure # "None" =>
          /\ results # <<>>
          /\ Last(results) = [error |-> failure, continues |-> FALSE,
                              version |-> version, body |-> body]

ReaderInv == StreamInv /\ RequestInv /\ CountInv /\ SizeInv /\ LatchInv

LEMMA Bounds ==
    /\ MaxBody \in Nat /\ MaxDrain \in Nat /\ MaxBody <= MaxDrain
    /\ MaxHead \in Nat /\ MaxFields \in Nat
BY ParsingAssumption, ReaderAssumption DEF ParsingAssumption, ReaderAssumption

\* Appending keeps what was there and puts the new result last.
LEMMA AppendedIsLast ==
    ASSUME NEW S, NEW list \in Seq(S), NEW e \in S
    PROVE  /\ Append(list, e) \in Seq(S)
           /\ Append(list, e) # <<>>
           /\ Last(Append(list, e)) = e
BY AppendProperties DEF Last

\* What Returns does to the results.
LEMMA ReturnsKeepsResults ==
    ASSUME results \in Seq(Results), version \in {"Http10", "Http11"}, body \in 0..MaxBody,
           NEW error \in Errors \cup {"None"}, NEW continues \in BOOLEAN,
           Returns(error, continues)
    PROVE  /\ busy' = FALSE
           /\ results' \in Seq(Results) /\ results' # <<>>
           /\ Last(results') = [error |-> error, continues |-> continues,
                                version |-> version, body |-> body]
<1> DEFINE r == [error |-> error, continues |-> continues, version |-> version, body |-> body]
<1>1. r \in Results
    BY DEF Results
<1>2. busy' = FALSE /\ results' = Append(results, r)
    BY DEF Returns
<1> HIDE DEF r
<1>3. QED
    BY <1>1, <1>2, AppendedIsLast DEF r

\* A failure, whatever else the step changes.
LEMMA FailsKeepsTheLatch ==
    ASSUME results \in Seq(Results), version \in {"Http10", "Http11"}, body \in 0..MaxBody,
           NEW error \in Errors, Fails(error), UNCHANGED <<version, body>>
    PROVE  /\ LatchInv'
           /\ phase' = phase
           /\ failure' = error /\ failure' # "None"
<1>1. Returns(error, FALSE) /\ failure' = error /\ phase' = phase
    BY DEF Fails
<1>2. error \in Errors \cup {"None"} /\ FALSE \in BOOLEAN /\ error # "None"
    BY DEF Errors
<1>3. /\ busy' = FALSE
      /\ results' \in Seq(Results) /\ results' # <<>>
      /\ Last(results') = [error |-> error, continues |-> FALSE, version |-> version, body |-> body]
    BY <1>1, <1>2, ReturnsKeepsResults
<1>4. QED
    BY <1>1, <1>2, <1>3 DEF LatchInv

-----------------------------------------------------------------------------
LEMMA InitReaderInv == Init => ReaderInv
<1> SUFFICES ASSUME Init PROVE ReaderInv
    OBVIOUS
<1>1. IsList(conversation) /\ \A m \in Range(conversation) : IsMessage(m)
    BY ReaderAssumption DEF ReaderAssumption, Init
<1> DEFINE messages == [i \in 1..Len(conversation) |-> MessageItems(conversation[i])]
<1>2. messages \in Seq(Seq(Items))
    <2>1. /\ Len(conversation) \in Nat
          /\ \A i \in 1..Len(conversation) : MessageItems(conversation[i]) \in Seq(Items)
        BY <1>1, ListsAreIndexed, MessageItemsAreItems
    <2>2. QED
        BY <2>1
<1>3. StreamInv
    <2>1. incoming = FlattenSeq(messages) /\ unread = <<>>
        BY DEF Init
    <2> HIDE DEF messages
    <2>2. QED
        BY <1>2, <2>1, FlattenSeqType DEF StreamInv
<1>4. RequestInv /\ CountInv /\ SizeInv
    BY Bounds DEF Init, RequestInv, CountInv, SizeInv, LinePhases
<1>5. LatchInv
    <2>1. <<>> \in Seq(Results)
        OBVIOUS
    <2>2. busy = FALSE /\ failure = "None" /\ results = <<>>
        BY DEF Init
    <2>3. QED
        BY <2>1, <2>2 DEF LatchInv
<1>6. QED
    BY <1>3, <1>4, <1>5 DEF ReaderInv

LEMMA CallerKeeps ==
    ASSUME ReaderInv, AppendItems \/ Call \/ CallAfterFailure \/ UNCHANGED vars
    PROVE  ReaderInv'
<1> USE DEF ReaderInv
<1>1. CASE AppendItems
    <2>1. PICK n \in 1..Len(incoming) :
              /\ unread' = unread \o SubSeq(incoming, 1, n)
              /\ incoming' = SubSeq(incoming, n + 1, Len(incoming))
        BY <1>1 DEF AppendItems
    <2>2. SubSeq(incoming, 1, n) \in Seq(Items) /\ SubSeq(incoming, n + 1, Len(incoming)) \in Seq(Items)
        BY DEF StreamInv
    <2>3. StreamInv'
        BY <2>1, <2>2 DEF StreamInv
    <2>4. QED
        BY <1>1, <2>3 DEF AppendItems, RequestInv, CountInv, SizeInv, LatchInv, requestVars, countVars
<1>2. CASE Call
    BY <1>2 DEF Call, StreamInv, RequestInv, CountInv, SizeInv, LatchInv,
                streamVars, requestVars, countVars
<1>3. CASE CallAfterFailure
    <2>1. /\ failure \in Errors \cup {"None"} /\ failure # "None"
          /\ UNCHANGED <<streamVars, unread, phase, requestVars, failure, countVars>>
          /\ Returns(failure, FALSE)
        BY <1>3 DEF CallAfterFailure, LatchInv
    <2>2. /\ busy' = FALSE
          /\ results' \in Seq(Results) /\ results' # <<>>
          /\ Last(results') = [error |-> failure, continues |-> FALSE,
                               version |-> version, body |-> body]
        BY <2>1, ReturnsKeepsResults DEF LatchInv, RequestInv, SizeInv
    <2>3. QED
        BY <2>1, <2>2 DEF StreamInv, RequestInv, CountInv, SizeInv, LatchInv,
                          streamVars, requestVars, countVars
<1>4. CASE UNCHANGED vars
    BY <1>4 DEF vars, StreamInv, RequestInv, CountInv, SizeInv, LatchInv,
                streamVars, requestVars, countVars
<1>5. QED
    BY <1>1, <1>2, <1>3, <1>4

-----------------------------------------------------------------------------
(* One line.                                                               *)

\* What handling a line keeps; head_bytes is read_next_line's own.
LineKept ==
    /\ RequestInv' /\ SizeInv' /\ LatchInv'
    /\ field_count' \in 0..(MaxFields + 1)
    /\ failure' = "None" => field_count' <= MaxFields

LEMMA GoingRoundKeepsTheLatch ==
    ASSUME LatchInv, failure = "None", GoesRound
    PROVE  LatchInv' /\ failure' = "None"
BY DEF LatchInv, GoesRound

LEMMA FailingKeepsTheLine ==
    ASSUME ReaderInv, NEW error \in Errors, Fails(error),
           UNCHANGED <<requestVars, body_bytes, chunk_bytes>>,
           field_count' \in 0..(MaxFields + 1)
    PROVE  LineKept
<1>1. LatchInv' /\ phase' = phase /\ failure' # "None"
    BY FailsKeepsTheLatch DEF ReaderInv, LatchInv, RequestInv, SizeInv, requestVars
<1>2. RequestInv' /\ SizeInv'
    BY <1>1 DEF ReaderInv, RequestInv, SizeInv, requestVars
<1>3. QED
    BY <1>1, <1>2 DEF LineKept

LEMMA FinishingKeepsTheLine ==
    ASSUME ReaderInv, failure = "None", Finishes
    PROVE  LineKept
<1>1. /\ Returns("None", TRUE) /\ failure' = failure /\ chunk_bytes' = chunk_bytes
      /\ ArmNextRequest
    BY DEF Finishes
<1>2. "None" \in Errors \cup {"None"} /\ TRUE \in BOOLEAN
    OBVIOUS
<1>3. busy' = FALSE /\ results' \in Seq(Results)
    BY <1>1, <1>2, ReturnsKeepsResults DEF ReaderInv, LatchInv, RequestInv, SizeInv
<1>4. LatchInv'
    BY <1>1, <1>3 DEF ReaderInv, LatchInv
<1>5. RequestInv' /\ SizeInv'
    BY <1>1, Bounds DEF ReaderInv, RequestInv, SizeInv, ArmNextRequest, LinePhases
<1>6. QED
    BY <1>1, <1>4, <1>5, Bounds DEF LineKept, ArmNextRequest

LEMMA RequestLineKeeps ==
    ASSUME ReaderInv, failure = "None", NextLine \in Texts, HandleRequestLine
    PROVE  LineKept
<1>1. UNCHANGED <<headers, body, body_bytes, chunk_bytes, field_count>>
    BY DEF HandleRequestLine
<1>2. field_count \in 0..(MaxFields + 1) /\ field_count <= MaxFields
    BY DEF ReaderInv, CountInv
<1>3. CASE ParseRequestLine(NextLine) # "None"
    <2>1. Fails(ParseRequestLine(NextLine)) /\ version' = version
        BY <1>3 DEF HandleRequestLine
    <2>2. ParseRequestLine(NextLine) \in Errors
        BY <1>3, RequestLineErrors DEF Errors
    <2>3. QED
        BY <1>1, <1>2, <2>1, <2>2, FailingKeepsTheLine DEF requestVars
<1>4. CASE ParseRequestLine(NextLine) = "None"
    <2>1. version' = VersionOf(NextLine) /\ phase' = "Headers" /\ GoesRound
        BY <1>4 DEF HandleRequestLine
    <2>2. version' \in {"Http10", "Http11"}
        BY <1>4, <2>1, SpokenVersionIsKnown
    <2>3. LatchInv'
        BY <2>1, GoingRoundKeepsTheLatch DEF ReaderInv
    <2>4. RequestInv' /\ SizeInv'
        BY <1>1, <2>1, <2>2 DEF ReaderInv, RequestInv, SizeInv, LinePhases
    <2>5. QED
        BY <1>1, <1>2, <2>3, <2>4 DEF LineKept
<1>5. QED
    BY <1>3, <1>4

LEMMA FieldKeeps ==
    ASSUME ReaderInv, failure = "None", NextLine \in Texts,
           phase \in {"Headers", "Trailers"}, NEW keep \in BOOLEAN, HandleField(keep)
    PROVE  LineKept
<1>1. /\ field_count' = field_count + 1
      /\ UNCHANGED <<version, body, body_bytes, chunk_bytes>>
    BY DEF HandleField
<1>2. field_count \in Nat /\ field_count <= MaxFields /\ field_count' \in 0..(MaxFields + 1)
    BY <1>1, Bounds DEF ReaderInv, CountInv
<1>3. CASE field_count + 1 > MaxFields
    <2>1. Fails("TooManyHeaders") /\ headers' = headers
        BY <1>3 DEF HandleField
    <2>2. "TooManyHeaders" \in Errors
        BY DEF Errors
    <2>3. QED
        BY <1>1, <1>2, <2>1, <2>2, FailingKeepsTheLine DEF requestVars
<1>4. CASE ~(field_count + 1 > MaxFields) /\ ~IsHeaderField(NextLine)
    <2>1. Fails("Malformed") /\ headers' = headers
        BY <1>4 DEF HandleField
    <2>2. "Malformed" \in Errors
        BY DEF Errors
    <2>3. QED
        BY <1>1, <1>2, <2>1, <2>2, FailingKeepsTheLine DEF requestVars
<1>5. CASE ~(field_count + 1 > MaxFields) /\ IsHeaderField(NextLine)
    <2>1. /\ headers' = IF keep THEN Append(headers, ParseHeaderField(NextLine)) ELSE headers
          /\ GoesRound /\ phase' = phase
        BY <1>5 DEF HandleField
    <2>2. ParseHeaderField(NextLine) \in HeaderFields
        BY <1>5, ParsedFieldIsAField
    <2>3. headers' \in Seq(HeaderFields)
        BY <2>1, <2>2 DEF ReaderInv, RequestInv
    <2>4. LatchInv'
        BY <2>1, GoingRoundKeepsTheLatch DEF ReaderInv
    <2>5. RequestInv' /\ SizeInv'
        BY <1>1, <2>1, <2>3 DEF ReaderInv, RequestInv, SizeInv
    <2>6. field_count' <= MaxFields
        BY <1>1, <1>2, <1>5, Bounds
    <2>7. QED
        BY <1>2, <2>4, <2>5, <2>6 DEF LineKept
<1>6. QED
    BY <1>3, <1>4, <1>5

LEMMA ChunkSizeKeeps ==
    ASSUME ReaderInv, failure = "None", NextLine \in Texts, HandleChunkSize
    PROVE  LineKept
<1> DEFINE size == ParseChunkSize(NextLine)
<1>1. size.error \in {"None", "Malformed", "BodyTooLarge"} /\ size.bytes \in 0..MaxBody
    BY ChunkSizeInBounds
<1>2. UNCHANGED <<requestVars, body_bytes, field_count>>
    BY DEF HandleChunkSize
<1>3. field_count \in 0..(MaxFields + 1) /\ field_count <= MaxFields
    BY DEF ReaderInv, CountInv
<1>4. \/ size.error # "None" /\ Fails(size.error) /\ chunk_bytes' = chunk_bytes
      \/ phase' = "Trailers" /\ GoesRound /\ chunk_bytes' = chunk_bytes
      \/ Fails("BodyTooLarge") /\ chunk_bytes' = chunk_bytes
      \/ ChunkFits(size.bytes) /\ chunk_bytes' = size.bytes /\ phase' = "ChunkData" /\ GoesRound
    BY DEF HandleChunkSize
<1> HIDE DEF size
<1>5. CASE size.error # "None" /\ Fails(size.error) /\ chunk_bytes' = chunk_bytes
    <2>1. size.error \in Errors
        BY <1>1, <1>5 DEF Errors
    <2>2. QED
        BY <1>2, <1>3, <1>5, <2>1, FailingKeepsTheLine
<1>6. CASE phase' = "Trailers" /\ GoesRound /\ chunk_bytes' = chunk_bytes
    <2>1. LatchInv'
        BY <1>6, GoingRoundKeepsTheLatch DEF ReaderInv
    <2>2. RequestInv' /\ SizeInv'
        BY <1>2, <1>6 DEF ReaderInv, RequestInv, SizeInv, requestVars, LinePhases
    <2>3. QED
        BY <1>2, <1>3, <2>1, <2>2 DEF LineKept
<1>7. CASE Fails("BodyTooLarge") /\ chunk_bytes' = chunk_bytes
    <2>1. "BodyTooLarge" \in Errors
        BY DEF Errors
    <2>2. QED
        BY <1>2, <1>3, <1>7, <2>1, FailingKeepsTheLine
<1>8. CASE ChunkFits(size.bytes) /\ chunk_bytes' = size.bytes /\ phase' = "ChunkData" /\ GoesRound
    <2>1. LatchInv'
        BY <1>8, GoingRoundKeepsTheLatch DEF ReaderInv
    <2>2. body + size.bytes <= MaxBody
        BY <1>8 DEF ChunkFits
    <2>3. RequestInv' /\ SizeInv'
        BY <1>1, <1>2, <1>8, <2>2 DEF ReaderInv, RequestInv, SizeInv, requestVars, BytePhases
    <2>4. QED
        BY <1>2, <1>3, <2>1, <2>3 DEF LineKept
<1>9. QED
    BY <1>4, <1>5, <1>6, <1>7, <1>8

LEMMA CompleteHeadKeeps ==
    ASSUME ReaderInv, failure = "None", CompleteHead
    PROVE  LineKept
<1>1. /\ MeasureBody.error \in Errors \cup {"None"}
      /\ MeasureBody.bytes \in 0..MaxDrain
    BY MeasuredInBounds DEF ReaderInv, RequestInv
<1>2. field_count \in 0..(MaxFields + 1) /\ field_count <= MaxFields
    BY DEF ReaderInv, CountInv
<1> DEFINE n == MeasureBody.bytes
           same == UNCHANGED <<requestVars, body_bytes, chunk_bytes, field_count>>
<1>3. \/ \E error \in Errors : Fails(error) /\ same
      \/ phase' = "ChunkSize" /\ GoesRound /\ same
      \/ /\ body_bytes' = n /\ phase' = "Discard" /\ Returns("BodyTooLarge", TRUE)
         /\ UNCHANGED <<requestVars, failure, chunk_bytes, field_count>>
      \/ Finishes
      \/ /\ n \in 1..MaxBody /\ body_bytes' = n /\ phase' = "Body" /\ GoesRound
         /\ UNCHANGED <<requestVars, chunk_bytes, field_count>>
    <2>1. "Malformed" \in Errors
        BY DEF Errors
    <2>2. MeasureBody.error # "None" => MeasureBody.error \in Errors
        BY <1>1
    <2>3. QED
        BY <2>1, <2>2 DEF CompleteHead
<1> HIDE DEF n
<1>4. CASE \E error \in Errors : Fails(error) /\ same
    <2>1. PICK error \in Errors : Fails(error) /\ same
        BY <1>4
    <2>2. QED
        BY <1>2, <2>1, FailingKeepsTheLine
<1>5. CASE phase' = "ChunkSize" /\ GoesRound /\ same
    <2>1. LatchInv'
        BY <1>5, GoingRoundKeepsTheLatch DEF ReaderInv
    <2>2. RequestInv' /\ SizeInv'
        BY <1>5 DEF ReaderInv, RequestInv, SizeInv, requestVars, LinePhases
    <2>3. QED
        BY <1>2, <1>5, <2>1, <2>2 DEF LineKept
<1>6. CASE /\ body_bytes' = n /\ phase' = "Discard" /\ Returns("BodyTooLarge", TRUE)
           /\ UNCHANGED <<requestVars, failure, chunk_bytes, field_count>>
    <2>1. "BodyTooLarge" \in Errors \cup {"None"} /\ TRUE \in BOOLEAN
        BY DEF Errors
    <2>2. busy' = FALSE /\ results' \in Seq(Results)
        BY <1>6, <2>1, ReturnsKeepsResults DEF ReaderInv, LatchInv, RequestInv, SizeInv
    <2>3. LatchInv'
        BY <1>6, <2>2 DEF ReaderInv, LatchInv
    <2>4. RequestInv' /\ SizeInv'
        BY <1>1, <1>6 DEF n, ReaderInv, RequestInv, SizeInv, requestVars, BytePhases
    <2>5. QED
        BY <1>2, <1>6, <2>3, <2>4 DEF LineKept
<1>7. CASE Finishes
    BY <1>7, FinishingKeepsTheLine
<1>8. CASE /\ n \in 1..MaxBody /\ body_bytes' = n /\ phase' = "Body" /\ GoesRound
           /\ UNCHANGED <<requestVars, chunk_bytes, field_count>>
    <2>1. LatchInv'
        BY <1>8, GoingRoundKeepsTheLatch DEF ReaderInv
    <2>2. n \in 0..MaxDrain /\ n <= MaxBody
        BY <1>1, <1>8, Bounds DEF n
    <2>3. RequestInv' /\ SizeInv'
        BY <1>8, <2>2 DEF ReaderInv, RequestInv, SizeInv, requestVars, BytePhases
    <2>4. QED
        BY <1>2, <1>8, <2>1, <2>3 DEF LineKept
<1>9. QED
    BY <1>3, <1>4, <1>5, <1>6, <1>7, <1>8

LEMMA HandleLineKeeps ==
    ASSUME ReaderInv, failure = "None", NextLine \in Texts, HandleLine
    PROVE  LineKept
<1>1. CASE HandleRequestLine
    BY <1>1, RequestLineKeeps
<1>2. CASE phase = "Headers" /\ HandleField(TRUE)
    <2>1. TRUE \in BOOLEAN
        OBVIOUS
    <2>2. QED
        BY <1>2, <2>1, FieldKeeps
<1>3. CASE CompleteHead
    BY <1>3, CompleteHeadKeeps
<1>4. CASE HandleChunkSize
    BY <1>4, ChunkSizeKeeps
<1>5. CASE phase = "Trailers" /\ HandleField(FALSE)
    <2>1. FALSE \in BOOLEAN
        OBVIOUS
    <2>2. QED
        BY <1>5, <2>1, FieldKeeps
<1>6. CASE phase = "Trailers" /\ NextLine = <<>> /\ Finishes
    BY <1>6, FinishingKeepsTheLine
<1>7. QED
    BY <1>1, <1>2, <1>3, <1>4, <1>5, <1>6 DEF HandleLine

LEMMA ReadNextLineKeeps ==
    ASSUME ReaderInv, ReadNextLine
    PROVE  ReaderInv'
<1>1. /\ failure = "None" /\ phase \in LinePhases
      /\ head_bytes \in Nat /\ head_bytes <= MaxHead
      /\ head_bytes \in 0..(MaxHead + 1)
      /\ field_count \in 0..(MaxFields + 1) /\ field_count <= MaxFields
    BY Bounds DEF ReadNextLine, ReaderInv, LatchInv, CountInv
<1>2. incoming' = incoming /\ unread # <<>>
    BY DEF ReadNextLine, streamVars
<1>3. Tail(unread) \in Seq(Items) /\ Head(unread) \in Items
    BY <1>2 DEF ReaderInv, StreamInv
<1>4. NextLine \in Texts
    BY <1>3 DEF NextLine, Items
<1>5. CASE LineTooLong
    <2>1. UNCHANGED <<unread, requestVars, countVars>>
        BY <1>5 DEF LineTooLong
    <2>2. PICK error \in Errors : Fails(error)
        <3>1. "RequestLineTooLong" \in Errors /\ "HeaderTooLong" \in Errors /\ "Malformed" \in Errors
            BY DEF Errors
        <3>2. (CASE phase = "RequestLine"               -> "RequestLineTooLong"
                 [] phase \in {"Headers", "Trailers"}   -> "HeaderTooLong"
                 [] phase = "ChunkSize"                 -> "Malformed") \in Errors
            <4>1. CASE phase = "RequestLine"
                BY <3>1, <4>1
            <4>2. CASE phase \in {"Headers", "Trailers"}
                BY <3>1, <4>2
            <4>3. CASE phase = "ChunkSize"
                BY <3>1, <4>3
            <4>4. QED
                BY <1>1, <4>1, <4>2, <4>3 DEF LinePhases
        <3>3. QED
            BY <1>5, <3>2 DEF LineTooLong
    <2>3. LineKept
        BY <1>1, <2>1, <2>2, FailingKeepsTheLine DEF countVars
    <2>4. StreamInv'
        BY <1>2, <2>1 DEF ReaderInv, StreamInv
    <2>5. failure' # "None" /\ head_bytes' = head_bytes
        BY <2>1, <2>2 DEF countVars, Fails, Errors
    <2>6. CountInv'
        BY <1>1, <2>3, <2>5 DEF LineKept, CountInv
    <2>7. QED
        BY <2>3, <2>4, <2>6 DEF LineKept, ReaderInv
<1>6. CASE unread' = Tail(unread) /\ HeadTooLarge
    <2>1. /\ head_bytes' = head_bytes + 1 /\ Fails("HeadTooLarge")
          /\ UNCHANGED <<requestVars, body_bytes, chunk_bytes, field_count>>
        BY <1>6 DEF HeadTooLarge
    <2>2. "HeadTooLarge" \in Errors
        BY DEF Errors
    <2>3. LineKept
        BY <1>1, <2>1, <2>2, FailingKeepsTheLine
    <2>4. failure' # "None" /\ head_bytes' \in 0..(MaxHead + 1)
        BY <1>1, <2>1, Bounds DEF Fails
    <2>5. CountInv' /\ StreamInv'
        BY <1>2, <1>3, <1>6, <2>3, <2>4 DEF LineKept, CountInv, ReaderInv, StreamInv
    <2>6. QED
        BY <2>3, <2>5 DEF LineKept, ReaderInv
<1>7. CASE /\ unread' = Tail(unread)
           /\ phase = "ChunkSize" \/ head_bytes + 1 <= MaxHead
           /\ HandleLine
           /\ head_bytes' = IF phase = "ChunkSize" THEN head_bytes
                            ELSE IF phase' = "RequestLine" /\ failure' = "None" THEN 0
                            ELSE head_bytes + 1
    <2>1. LineKept
        BY <1>1, <1>4, <1>7, HandleLineKeeps
    <2>2. head_bytes' \in 0..(MaxHead + 1) /\ head_bytes' <= MaxHead
        <3>1. CASE phase = "ChunkSize"
            BY <1>1, <1>7, <3>1
        <3>2. CASE phase # "ChunkSize"
            BY <1>1, <1>7, <3>2, Bounds
        <3>3. QED
            BY <3>1, <3>2
    <2>3. CountInv' /\ StreamInv'
        BY <1>2, <1>3, <1>7, <2>1, <2>2 DEF LineKept, CountInv, ReaderInv, StreamInv
    <2>4. QED
        BY <2>1, <2>3 DEF LineKept, ReaderInv
<1>8. QED
    BY <1>5, <1>6, <1>7 DEF ReadNextLine

-----------------------------------------------------------------------------
(* The counted reads.                                                      *)

LEMMA DroppingKeepsItems ==
    ASSUME unread \in Seq(Items), NEW n \in Nat, n <= Len(unread)
    PROVE  DropItems(n) \in Seq(Items)
<1>1. n + 1 \in Nat /\ \A i \in (n + 1)..Len(unread) : unread[i] \in Items
    OBVIOUS
<1>2. QED
    BY <1>1 DEF DropItems

LEMMA ArmingKeepsTheRequest ==
    ASSUME ReaderInv, ArmNextRequest, chunk_bytes' = chunk_bytes
    PROVE  RequestInv' /\ CountInv' /\ SizeInv'
BY Bounds DEF ReaderInv, RequestInv, CountInv, SizeInv, ArmNextRequest, LinePhases

LEMMA DiscardKeeps ==
    ASSUME ReaderInv, DiscardBody
    PROVE  ReaderInv'
<1> DEFINE dropped == IF body_bytes <= Len(unread) THEN body_bytes ELSE Len(unread)
<1>1. /\ unread \in Seq(Items) /\ Len(unread) \in Nat
      /\ body_bytes \in Nat /\ body_bytes <= MaxDrain
    BY Bounds DEF ReaderInv, StreamInv, SizeInv
<1>2. dropped \in Nat /\ dropped <= Len(unread) /\ dropped <= body_bytes
    BY <1>1
<1>3. /\ unread' = DropItems(dropped)
      /\ UNCHANGED <<streamVars, failure, chunk_bytes, results>>
      /\ \/ /\ body_bytes' = LeftToDrop(dropped) /\ busy' = FALSE
            /\ UNCHANGED <<phase, requestVars, head_bytes, field_count>>
         \/ ArmNextRequest /\ busy' = busy
    BY DEF DiscardBody
<1> HIDE DEF dropped
<1>4. failure = "None" /\ phase = "Discard"
    BY DEF DiscardBody, ReaderInv, LatchInv
<1>5. StreamInv'
    BY <1>1, <1>2, <1>3, DroppingKeepsItems DEF ReaderInv, StreamInv, streamVars
<1>6. LatchInv'
    BY <1>3, <1>4 DEF ReaderInv, LatchInv
<1>7. CASE /\ body_bytes' = LeftToDrop(dropped)
           /\ UNCHANGED <<phase, requestVars, head_bytes, field_count>>
    <2>1. body_bytes' \in 0..MaxDrain
        BY <1>1, <1>2, <1>7, Bounds DEF LeftToDrop
    <2>2. RequestInv' /\ CountInv' /\ SizeInv'
        BY <1>3, <1>4, <1>7, <2>1 DEF ReaderInv, RequestInv, CountInv, SizeInv, requestVars
    <2>3. QED
        BY <1>5, <1>6, <2>2 DEF ReaderInv
<1>8. CASE ArmNextRequest
    BY <1>3, <1>5, <1>6, <1>8, ArmingKeepsTheRequest DEF ReaderInv
<1>9. QED
    BY <1>3, <1>7, <1>8

LEMMA TakeBodyKeeps ==
    ASSUME ReaderInv, TakeBody
    PROVE  ReaderInv'
<1> DEFINE r == [error |-> "None", continues |-> TRUE, version |-> version, body |-> body_bytes]
<1>1. /\ failure = "None" /\ phase = "Body"
      /\ body_bytes \in Nat /\ body_bytes <= MaxBody /\ body_bytes <= Len(unread)
    BY Bounds DEF TakeBody, HaveArrived, ReaderInv, LatchInv, SizeInv, StreamInv
<1>2. /\ unread' = DropItems(body_bytes) /\ results' = Append(results, r) /\ busy' = FALSE
      /\ ArmNextRequest /\ UNCHANGED <<streamVars, failure, chunk_bytes>>
    BY DEF TakeBody
<1>3. r \in Results
    BY <1>1, Bounds DEF Results, ReaderInv, RequestInv
<1> HIDE DEF r
<1>4. results' \in Seq(Results)
    BY <1>2, <1>3, AppendedIsLast DEF ReaderInv, LatchInv
<1>5. LatchInv'
    BY <1>1, <1>2, <1>4 DEF ReaderInv, LatchInv
<1>6. StreamInv'
    BY <1>1, <1>2, DroppingKeepsItems DEF ReaderInv, StreamInv, streamVars
<1>7. QED
    BY <1>2, <1>5, <1>6, ArmingKeepsTheRequest DEF ReaderInv

LEMMA TakeChunkKeeps ==
    ASSUME ReaderInv, TakeChunk
    PROVE  ReaderInv'
<1>1. /\ failure = "None" /\ phase = "ChunkData"
      /\ chunk_bytes \in Nat /\ chunk_bytes + 1 <= Len(unread)
      /\ body \in Nat /\ body + chunk_bytes <= MaxBody
    BY Bounds DEF TakeChunk, HaveArrived, CrlfSize, ReaderInv, LatchInv, SizeInv, StreamInv
<1>2. /\ unread' = DropItems(chunk_bytes + 1)
      /\ UNCHANGED <<streamVars, version, headers, countVars>>
      /\ \/ Fails("Malformed") /\ body' = body
         \/ body' = body + chunk_bytes /\ phase' = "ChunkSize" /\ GoesRound
    BY DEF TakeChunk, CrlfSize
<1>3. StreamInv'
    BY <1>1, <1>2, DroppingKeepsItems DEF ReaderInv, StreamInv, streamVars
<1>4. CASE Fails("Malformed") /\ body' = body
    <2>1. "Malformed" \in Errors
        BY DEF Errors
    <2>2. LatchInv' /\ phase' = phase /\ failure' # "None"
        BY <1>2, <1>4, <2>1, FailsKeepsTheLatch DEF ReaderInv, LatchInv, RequestInv, SizeInv
    <2>3. RequestInv' /\ CountInv' /\ SizeInv'
        BY <1>2, <1>4, <2>2 DEF ReaderInv, RequestInv, CountInv, SizeInv, countVars
    <2>4. QED
        BY <1>3, <2>2, <2>3 DEF ReaderInv
<1>5. CASE body' = body + chunk_bytes /\ phase' = "ChunkSize" /\ GoesRound
    <2>1. LatchInv'
        BY <1>1, <1>5, GoingRoundKeepsTheLatch DEF ReaderInv
    <2>2. body' \in 0..MaxBody
        BY <1>1, <1>5, Bounds
    <2>3. RequestInv' /\ CountInv' /\ SizeInv'
        BY <1>2, <1>5, <2>2 DEF ReaderInv, RequestInv, CountInv, SizeInv, countVars,
                                GoesRound, LinePhases
    <2>4. QED
        BY <1>3, <2>1, <2>3 DEF ReaderInv
<1>6. QED
    BY <1>2, <1>4, <1>5

LEMMA WaitingKeeps ==
    ASSUME ReaderInv, AwaitLine \/ AwaitBytes
    PROVE  ReaderInv'
<1>1. /\ busy' = FALSE
      /\ UNCHANGED <<streamVars, unread, phase, requestVars, failure, countVars, results>>
    BY DEF AwaitLine, AwaitBytes, NothingYet
<1>2. QED
    BY <1>1 DEF ReaderInv, StreamInv, RequestInv, CountInv, SizeInv, LatchInv,
                streamVars, requestVars, countVars

-----------------------------------------------------------------------------
LEMMA NextReaderInv == ReaderInv /\ [Next]_vars => ReaderInv'
BY CallerKeeps, ReadNextLineKeeps, DiscardKeeps, TakeBodyKeeps, TakeChunkKeeps, WaitingKeeps
   DEF Next, Iteration

LEMMA AlwaysReaderInv == Spec => []ReaderInv
BY InitReaderInv, NextReaderInv, PTL DEF Spec

\* Type correctness: every budget stays within the limit it is held to, but for
\* the one step over a head or field limit that fails the call, and a body, in
\* one piece or in chunks, never grows past max_body_bytes
\* (request_reader.cpp:205-240, 286-353).
THEOREM MessagesStayInBounds == Spec => []TypeOK
<1>1. ReaderInv => TypeOK
    <2> SUFFICES ASSUME ReaderInv PROVE TypeOK
        OBVIOUS
    <2>1. \A i \in DOMAIN results : results[i].error \in Errors \cup {"None"}
        <3>1. \A i \in DOMAIN results : results[i] \in Results
            BY DEF ReaderInv, LatchInv
        <3>2. QED
            BY <3>1 DEF Results
    <2>2. QED
        BY <2>1 DEF TypeOK, ReaderInv, RequestInv, CountInv, SizeInv, LatchInv
<1>2. QED
    BY <1>1, AlwaysReaderInv, PTL

LEMMA LatchedStep ==
    ASSUME ReaderInv, [Next]_vars, failure # "None"
    PROVE  /\ failure' = failure
           /\ Len(unread') >= Len(unread)
           /\ results' \in {results, Append(results, Last(results))}
<1>1. ~busy
    BY DEF ReaderInv, LatchInv
<1>2. Len(unread) \in Nat
    BY DEF ReaderInv, StreamInv
<1>3. CASE AppendItems
    <2>1. PICK n \in 1..Len(incoming) : unread' = unread \o SubSeq(incoming, 1, n)
        BY <1>3 DEF AppendItems
    <2>2. SubSeq(incoming, 1, n) \in Seq(Items)
        BY DEF ReaderInv, StreamInv
    <2>3. Len(unread') >= Len(unread)
        BY <2>1, <2>2 DEF ReaderInv, StreamInv
    <2>4. QED
        BY <1>3, <2>3 DEF AppendItems
<1>4. CASE CallAfterFailure
    <2>1. /\ UNCHANGED <<unread, failure>>
          /\ results' = Append(results, [error |-> failure, continues |-> FALSE,
                                         version |-> version, body |-> body])
        BY <1>4 DEF CallAfterFailure, Returns
    <2>2. Last(results) = [error |-> failure, continues |-> FALSE,
                           version |-> version, body |-> body]
        BY DEF ReaderInv, LatchInv
    <2>3. QED
        BY <1>2, <2>1, <2>2
<1>5. CASE UNCHANGED vars
    BY <1>2, <1>5 DEF vars
<1>6. ~Call /\ ~Iteration
    BY <1>1 DEF Call, Iteration, ReadNextLine, AwaitLine, DiscardBody, TakeBody, TakeChunk,
                AwaitBytes
<1>7. QED
    BY <1>3, <1>4, <1>5, <1>6 DEF Next

\* A failure latches: whatever arrives later, every call repeats the one result
\* and none of them consumes a byte (next_request, request_reader.cpp).
THEOREM FailuresLatch == Spec => FailureLatches
<1>1. ReaderInv /\ [Next]_vars => [failure # "None" =>
          /\ failure' = failure
          /\ Len(unread') >= Len(unread)
          /\ results' \in {results, Append(results, Last(results))}]_vars
    BY LatchedStep
<1>2. QED
    BY <1>1, AlwaysReaderInv, PTL DEF Spec, FailureLatches

\* The two numbers of a message are read exactly or refused: a Content-Length
\* within max_drain_bytes and a chunk's size within max_body_bytes are the
\* digits' value in their base, and no text of digits, however long, wraps at
\* the width the loops carry it in (parse_content_length and parse_chunk_size,
\* request_reader.cpp:87-131, whose static_asserts at 39-45 claim it).
ExactlyRead(parsed, text, base, cap) ==
    LET number == Written(text, base)[Len(text)]
    IN /\ parsed.error = "None" <=>
              text # <<>> /\ Legal(text, base, Len(text)) /\ number <= cap
       /\ parsed.error = "None" => parsed.bytes = number
       /\ parsed.error = "BodyTooLarge" <=>
              \E k \in 1..Len(text) : Legal(text, base, k) /\ Written(text, base)[k] > cap

THEOREM LengthsNeverWrap ==
    \A text \in Texts :
        /\ ExactlyRead(ParseContentLength(text), text, 10, MaxDrain)
        /\ ExactlyRead(ParseChunkSize(text), Between(text, 0, Find(text, Semi)), 16, MaxBody)
<1> TAKE text \in Texts
<1>1. /\ MaxDrain \in Nat /\ MaxDrain * 10 + (10 - 1) < SizeMax
      /\ MaxBody \in Nat /\ MaxBody * 16 + (16 - 1) < SizeMax
    BY ParsingAssumption DEF ParsingAssumption
<1>2. 10 \in {10, 16} /\ 16 \in {10, 16}
    OBVIOUS
<1>3. ExactlyRead(ParseContentLength(text), text, 10, MaxDrain)
    BY <1>1, <1>2, NumbersAreExact DEF ParseContentLength, ExactlyRead, Texts
<1> DEFINE size == Between(text, 0, Find(text, Semi))
<1>4. size \in Seq(Tokens)
    <2>1. Find(text, Semi) \in Nat /\ Find(text, Semi) <= Len(text) + 1
        BY FindIsAPosition
    <2>2. QED
        BY <2>1, PartsAreTexts DEF Texts
<1>5. ParseChunkSize(text) = ParseNumber(size, 16, MaxBody)
    BY DEF ParseChunkSize
<1> HIDE DEF size
<1>6. ExactlyRead(ParseNumber(size, 16, MaxBody), size, 16, MaxBody)
    BY <1>1, <1>2, <1>4, NumbersAreExact DEF ExactlyRead
<1>7. QED
    BY <1>3, <1>5, <1>6 DEF size

-----------------------------------------------------------------------------
(* What is left of a sequence behind its first n elements.                 *)

From(s, n) == SubSeq(s, n + 1, Len(s))

LEMMA FromIsASeq ==
    ASSUME NEW S, NEW s \in Seq(S), NEW n \in Nat, n <= Len(s)
    PROVE  /\ From(s, n) \in Seq(S)
           /\ Len(From(s, n)) = Len(s) - n
           /\ \A i \in 1..(Len(s) - n) : From(s, n)[i] = s[n + i]
<1>1. Len(s) \in Nat /\ \A i \in (n + 1)..Len(s) : s[i] \in S
    OBVIOUS
<1>2. /\ SubSeq(s, n + 1, Len(s)) \in Seq(S)
      /\ Len(SubSeq(s, n + 1, Len(s))) = IF n + 1 <= Len(s) THEN Len(s) - (n + 1) + 1 ELSE 0
      /\ \A i \in 1..(Len(s) - (n + 1) + 1) : SubSeq(s, n + 1, Len(s))[i] = s[(n + 1) + i - 1]
    BY <1>1, SubSeqProperties
<1>3. QED
    BY <1>1, <1>2 DEF From

LEMMA FromTheStart ==
    ASSUME NEW S, NEW s \in Seq(S)
    PROVE  From(s, 0) = s
BY SubSeqFull DEF From

LEMMA FromTheEnd ==
    ASSUME NEW S, NEW s \in Seq(S), NEW n, n = Len(s)
    PROVE  From(s, n) = <<>>
BY SubSeqEmpty DEF From

LEMMA FromTheNext ==
    ASSUME NEW S, NEW s \in Seq(S), NEW n \in Nat, n < Len(s)
    PROVE  From(s, n) = <<s[n + 1]>> \o From(s, n + 1)
<1>1. n + 1 \in 1..Len(s) /\ Len(s) \in (n + 1)..Len(s)
    OBVIOUS
<1>2. QED
    BY <1>1, SubSeqRecursiveFirst DEF From

LEMMA FromOfConcat ==
    ASSUME NEW S, NEW s \in Seq(S), NEW t \in Seq(S), NEW n \in Nat, n <= Len(s)
    PROVE  From(s \o t, n) = From(s, n) \o t
<1>1. /\ s \o t \in Seq(S) /\ Len(s \o t) = Len(s) + Len(t)
      /\ \A i \in 1..(Len(s) + Len(t)) : (s \o t)[i] = IF i <= Len(s) THEN s[i] ELSE t[i - Len(s)]
    BY ConcatProperties
<1>2. Len(s) \in Nat /\ Len(t) \in Nat
    OBVIOUS
<1>3. /\ From(s, n) \in Seq(S) /\ Len(From(s, n)) = Len(s) - n
      /\ \A i \in 1..(Len(s) - n) : From(s, n)[i] = s[n + i]
    BY FromIsASeq
<1> DEFINE st == s \o t
           a == From(s, n)
           b == From(st, n)
<1>4. /\ b \in Seq(S) /\ Len(b) = Len(st) - n
      /\ \A i \in 1..(Len(st) - n) : b[i] = st[n + i]
    <2>1. st \in Seq(S) /\ n <= Len(st)
        BY <1>1, <1>2
    <2> HIDE DEF st
    <2>2. QED
        BY <2>1, FromIsASeq
<1> HIDE DEF a, b, st
<1>5. /\ a \o t \in Seq(S) /\ Len(a \o t) = Len(a) + Len(t)
      /\ \A i \in 1..(Len(a) + Len(t)) : (a \o t)[i] = IF i <= Len(a) THEN a[i] ELSE t[i - Len(a)]
    BY <1>3, ConcatProperties DEF a
<1>6. Len(a) = Len(s) - n /\ \A i \in 1..(Len(s) - n) : a[i] = s[n + i]
    BY <1>3 DEF a
<1>7. Len(st) = Len(s) + Len(t)
    BY <1>1 DEF st
<1>8. Len(a \o t) = Len(b)
    BY <1>2, <1>4, <1>5, <1>6, <1>7
<1>9. ASSUME NEW i \in 1..Len(b) PROVE b[i] = (a \o t)[i]
    <2>1. i \in 1..(Len(s) + Len(t) - n) /\ n + i \in 1..(Len(s) + Len(t))
        BY <1>2, <1>4, <1>7
    <2>2. b[i] = IF n + i <= Len(s) THEN s[n + i] ELSE t[n + i - Len(s)]
        BY <1>1, <1>2, <1>4, <1>7, <2>1 DEF st
    <2>3. (a \o t)[i] = IF i <= Len(s) - n THEN a[i] ELSE t[i - (Len(s) - n)]
        <3>1. PICK k : k = Len(s) - n
            OBVIOUS
        <3>2. k \in Nat /\ Len(a) = k /\ i \in 1..(k + Len(t))
            BY <1>2, <1>6, <2>1, <3>1
        <3>3. (a \o t)[i] = IF i <= k THEN a[i] ELSE t[i - k]
            BY <1>5, <3>2, Zenon
        <3>4. QED
            BY <3>1, <3>3
    <2>4. CASE n + i <= Len(s)
        <3>1. i <= Len(s) - n /\ i \in 1..(Len(s) - n)
            BY <1>2, <2>1, <2>4
        <3>2. QED
            BY <1>6, <2>2, <2>3, <2>4, <3>1
    <2>5. CASE ~(n + i <= Len(s))
        <3>1. ~(i <= Len(s) - n) /\ n + i - Len(s) = i - (Len(s) - n)
            BY <1>2, <2>1, <2>5
        <3>2. QED
            BY <2>2, <2>3, <2>5, <3>1
    <2>6. QED
        BY <2>4, <2>5
<1>10. QED
    BY <1>4, <1>5, <1>8, <1>9, SeqEqual DEF a, b, st

(* A flattening is the first sequence and the flattening of the others.    *)
LEMMA FlattenFirst ==
    ASSUME NEW S, NEW seqs \in Seq(Seq(S)), seqs # <<>>
    PROVE  FlattenSeq(seqs) = seqs[1] \o FlattenSeq(From(seqs, 1))
<1> DEFINE n == Len(seqs)
           rest == From(seqs, 1)
<1>1. n \in Nat /\ n >= 1 /\ \A i \in 1..n : seqs[i] \in Seq(S)
    OBVIOUS
<1>2. PICK f : FlattenOf(f, seqs, n) /\ FlattenSeq(seqs) = f[n]
    BY FlattenSeqUnfolds
<1>3. rest \in Seq(Seq(S)) /\ Len(rest) = n - 1 /\ \A i \in 1..(n - 1) : rest[i] = seqs[1 + i]
    BY <1>1, FromIsASeq
<1> HIDE DEF n, rest
<1>4. PICK g : FlattenOf(g, rest, n - 1) /\ FlattenSeq(rest) = IF rest = <<>> THEN <<>> ELSE g[n - 1]
    BY <1>3, FlattenSeqUnfolds
<1> DEFINE T == {k \in Nat : k + 1 \in 2..n => g[k] \in Seq(S) /\ f[k + 1] = seqs[1] \o g[k]}
<1>5. f[1] = seqs[1]
    BY <1>1, <1>2 DEF FlattenOf
<1>6. \A k \in Nat : k + 1 \in 2..n =>
          /\ f[k + 1] = f[k] \o seqs[k + 1]
          /\ g[k] = IF k = 1 THEN seqs[k + 1] ELSE g[k - 1] \o seqs[k + 1]
    <2> SUFFICES ASSUME NEW k \in Nat, k + 1 \in 2..n
                 PROVE  /\ f[k + 1] = f[k] \o seqs[k + 1]
                        /\ g[k] = IF k = 1 THEN seqs[k + 1] ELSE g[k - 1] \o seqs[k + 1]
        OBVIOUS
    <2>1. k + 1 \in 1..n /\ k + 1 # 1 /\ (k + 1) - 1 = k /\ k \in 1..(n - 1) /\ 1 + k = k + 1
        BY <1>1
    <2>2. f[k + 1] = f[(k + 1) - 1] \o seqs[k + 1]
        BY <1>2, <2>1 DEF FlattenOf
    <2>3. g[k] = IF k = 1 THEN rest[k] ELSE g[k - 1] \o rest[k]
        BY <1>4, <2>1 DEF FlattenOf
    <2>4. rest[k] = seqs[k + 1]
        BY <1>3, <2>1
    <2>5. QED
        BY <2>1, <2>2, <2>3, <2>4
<1>7. 0 \in T
    BY <1>1
<1>8. ASSUME NEW k \in Nat, k \in T PROVE k + 1 \in T
    <2> DEFINE j == k + 1
    <2>0. j \in Nat /\ j = k + 1 /\ j - 1 = k /\ j # 0
        OBVIOUS
    <2> HIDE DEF j
    <2>1. SUFFICES ASSUME j + 1 \in 2..n
                   PROVE  g[j] \in Seq(S) /\ f[j + 1] = seqs[1] \o g[j]
        BY <2>0
    <2>2. /\ f[j + 1] = f[j] \o seqs[j + 1]
          /\ g[j] = IF j = 1 THEN seqs[j + 1] ELSE g[j - 1] \o seqs[j + 1]
        BY <1>6, <2>0, <2>1
    <2>3. seqs[j + 1] \in Seq(S) /\ seqs[1] \in Seq(S)
        BY <1>1, <2>0, <2>1
    <2>4. CASE j = 1
        BY <1>5, <2>2, <2>3, <2>4
    <2>5. CASE j # 1
        <3>1. k + 1 \in 2..n
            BY <1>1, <2>0, <2>1, <2>5
        <3>2. g[k] \in Seq(S) /\ f[j] = seqs[1] \o g[k]
            BY <1>8, <2>0, <3>1
        <3>3. g[j] = g[k] \o seqs[j + 1]
            BY <2>0, <2>2, <2>5
        <3> DEFINE e == seqs[j + 1]
                   d == seqs[1]
                   h == g[k]
        <3>4. (d \o h) \o e = d \o (h \o e)
            <4>1. d \in Seq(S) /\ h \in Seq(S) /\ e \in Seq(S)
                BY <2>3, <3>2
            <4> HIDE DEF d, h, e
            <4>2. \A x, y, z \in Seq(S) : (x \o y) \o z = x \o (y \o z)
                BY ConcatAssociative
            <4>3. QED
                BY <4>1, <4>2, Zenon
        <3>5. h \o e \in Seq(S)
            BY <2>3, <3>2
        <3>6. QED
            BY <2>2, <3>2, <3>3, <3>4, <3>5
    <2>6. QED
        BY <2>4, <2>5
<1>9. Nat \subseteq T
    <2> HIDE DEF T
    <2> QED BY <1>7, <1>8, NatInductive
<1>10. CASE n = 1
    <2>1. rest = <<>>
        BY <1>3, <1>10
    <2>2. FlattenSeq(rest) = <<>>
        BY <1>4, <2>1
    <2>3. f[n] = seqs[1] /\ seqs[1] \in Seq(S)
        BY <1>1, <1>5, <1>10
    <2>4. seqs[1] \o <<>> = seqs[1]
        BY <2>3, ConcatEmptySeq
    <2>5. QED
        BY <1>2, <2>2, <2>3, <2>4 DEF rest
<1>11. CASE n # 1
    <2>1. n - 1 \in Nat /\ (n - 1) + 1 = n /\ n \in 2..n
        BY <1>1, <1>11
    <2>2. f[(n - 1) + 1] = seqs[1] \o g[n - 1]
        BY <1>9, <2>1
    <2>3. rest # <<>>
        BY <1>1, <1>3, <1>11
    <2>4. QED
        BY <1>2, <1>4, <2>1, <2>2, <2>3 DEF rest
<1>12. QED
    BY <1>10, <1>11

LEMMA FlattenNone == FlattenSeq(<<>>) = <<>>
BY DEF FlattenSeq

(* The same, further on: behind n sequences come the next and the others.  *)
LEMMA FlattenNext ==
    ASSUME NEW S, NEW seqs \in Seq(Seq(S)), NEW n \in Nat, n < Len(seqs)
    PROVE  FlattenSeq(From(seqs, n)) = seqs[n + 1] \o FlattenSeq(From(seqs, n + 1))
<1> DEFINE rest == From(seqs, n)
           SS   == Seq(S)
           a    == From(rest, 1)
           b    == From(seqs, n + 1)
<1>1. Len(seqs) \in Nat /\ seqs \in Seq(SS) /\ n <= Len(seqs)
      /\ n + 1 \in Nat /\ n + 1 <= Len(seqs)
    OBVIOUS
<1> HIDE DEF SS
<1>2. /\ rest \in Seq(SS) /\ Len(rest) = Len(seqs) - n
      /\ \A i \in 1..(Len(seqs) - n) : rest[i] = seqs[n + i]
    BY <1>1, FromIsASeq
<1>3. /\ b \in Seq(SS) /\ Len(b) = Len(seqs) - (n + 1)
      /\ \A i \in 1..(Len(seqs) - (n + 1)) : b[i] = seqs[(n + 1) + i]
    BY <1>1, FromIsASeq
<1> HIDE DEF rest, b
<1>4. Len(rest) \in Nat /\ 1 <= Len(rest) /\ rest # <<>> /\ rest[1] = seqs[n + 1]
    BY <1>1, <1>2
<1>5. /\ a \in Seq(SS) /\ Len(a) = Len(rest) - 1
      /\ \A i \in 1..(Len(rest) - 1) : a[i] = rest[1 + i]
    <2>1. rest \in Seq(SS) /\ 1 \in Nat /\ 1 <= Len(rest)
        BY <1>2, <1>4
    <2>2. QED
        BY <2>1, FromIsASeq
<1> HIDE DEF a
<1>6. Len(a) = Len(b)
    BY <1>1, <1>2, <1>3, <1>5
<1>7. ASSUME NEW i \in 1..Len(a) PROVE a[i] = b[i]
    <2>1. i \in 1..(Len(seqs) - (n + 1)) /\ 1 + i \in 1..(Len(seqs) - n) /\ n + (1 + i) = (n + 1) + i
        BY <1>1, <1>2, <1>5
    <2>2. a[i] = rest[1 + i] /\ b[i] = seqs[(n + 1) + i]
        BY <1>2, <1>3, <1>5, <2>1
    <2>3. rest[1 + i] = seqs[n + (1 + i)]
        BY <1>2, <2>1
    <2>4. QED
        BY <2>1, <2>2, <2>3
<1>8. a = b
    BY <1>3, <1>5, <1>6, <1>7, SeqEqual
<1>9. FlattenSeq(rest) = rest[1] \o FlattenSeq(a)
    BY <1>2, <1>4, FlattenFirst DEF a, SS
<1>10. QED
    BY <1>4, <1>8, <1>9 DEF rest, b

-----------------------------------------------------------------------------
(* How what is sent is laid out, and what is left of it.                   *)

Sent(c)     == [i \in 1..Len(c) |-> MessageItems(c[i])]
Behind(n)   == FlattenSeq(From(Sent(conversation), n))
Bytes(n)    == [i \in 1..n |-> Byte]
ChunksOf(m) == [i \in 1..Len(m.chunks) |-> ChunkItems(m.chunks[i])]

TrailersLeft(m, n) == From(FieldItems(m.trailers), n) \o <<Blank>>
ChunksLeft(m, n)   == FlattenSeq(From(ChunksOf(m), n)) \o TrailersLeft(m, 0)
BodyLeft(m)        == IF m.chunks = <<>> THEN Bytes(m.bytes) ELSE Bytes(m.bytes) \o ChunksLeft(m, 0)
HeadLeft(m, n)     == From(FieldItems(m.fields), n) \o (<<Blank>> \o BodyLeft(m))

LEMMA PartsOfAMessage ==
    ASSUME NEW m, IsMessage(m)
    PROVE  /\ m.line \in Seq(STRING) /\ m.bytes \in Nat
           /\ Len(m.fields) \in Nat /\ Len(m.chunks) \in Nat /\ Len(m.trailers) \in Nat
           /\ (m.chunks = <<>>) <=> (Len(m.chunks) = 0)
           /\ \A i \in 1..Len(m.fields) : m.fields[i].text \in Seq(STRING) /\ m.fields[i] \in Range(m.fields)
           /\ \A i \in 1..Len(m.trailers) : m.trailers[i].text \in Seq(STRING) /\ m.trailers[i] \in Range(m.trailers)
           /\ \A i \in 1..Len(m.chunks) :
                 m.chunks[i].text \in Seq(STRING) /\ m.chunks[i].n \in Nat /\ m.chunks[i] \in Range(m.chunks)
           /\ DOMAIN m.fields = 1..Len(m.fields)
           /\ DOMAIN m.trailers = 1..Len(m.trailers)
           /\ DOMAIN m.chunks = 1..Len(m.chunks)
<1>1. /\ m.line \in Seq(STRING) /\ m.bytes \in Nat
      /\ IsList(m.fields) /\ IsList(m.chunks) /\ IsList(m.trailers)
      /\ \A part \in Range(m.fields) : part.text \in Seq(STRING)
      /\ \A part \in Range(m.trailers) : part.text \in Seq(STRING)
      /\ \A part \in Range(m.chunks) : part.text \in Seq(STRING) /\ part.n \in Nat
    BY DEF IsMessage
<1>2. (m.chunks = <<>>) <=> (Len(m.chunks) = 0)
    <2>1. m.chunks \in Seq(Range(m.chunks))
        BY <1>1 DEF IsList
    <2> HIDE DEF Range
    <2>2. QED
        BY <2>1
<1>3. QED
    BY <1>1, <1>2, ListsAreIndexed

LEMMA Regroup ==
    \A s, t, u \in Seq(Items) : (s \o t) \o u = s \o (t \o u)
BY ConcatAssociative

LEMMA Joined ==
    \A s, t \in Seq(Items) : s \o t \in Seq(Items)
OBVIOUS

LEMMA RegroupFour ==
    \A s, t, u, v \in Seq(Items) : (s \o (t \o u)) \o v = s \o (t \o (u \o v))
<1> SUFFICES ASSUME NEW s \in Seq(Items), NEW t \in Seq(Items),
                    NEW u \in Seq(Items), NEW v \in Seq(Items)
             PROVE  (s \o (t \o u)) \o v = s \o (t \o (u \o v))
    OBVIOUS
<1>1. t \o u \in Seq(Items)
    BY Joined, Zenon
<1>2. (s \o (t \o u)) \o v = s \o ((t \o u) \o v)
    BY <1>1, Regroup, SMTT(60)
<1>3. (t \o u) \o v = t \o (u \o v)
    BY Regroup, SMTT(60)
<1>4. QED
    BY <1>2, <1>3, Zenon

LEMMA BlankIsAnItem == Blank \in Items /\ <<Blank>> \in Seq(Items)
BY DEF Blank, Item, Items, Kinds, Texts

LEMMA ChunkEndIsAnItem == ChunkEnd \in Items /\ <<ChunkEnd>> \in Seq(Items)
BY DEF ChunkEnd, Item, Items, Kinds, Texts

LEMMA LineIsAnItem ==
    ASSUME NEW text \in Seq(STRING), NEW kind \in Kinds
    PROVE  Item(kind, text) \in Items /\ <<Item(kind, text)>> \in Seq(Items)
<1>1. text \in Texts
    BY SentTextsAreTexts
<1>2. Item(kind, text) \in Items
    BY <1>1 DEF Item, Items
<1>3. QED
    BY <1>2

LEMMA FieldItemsAre ==
    ASSUME NEW fields, IsList(fields), \A f \in Range(fields) : f.text \in Seq(STRING)
    PROVE  /\ FieldItems(fields) \in Seq(Items)
           /\ Len(FieldItems(fields)) = Len(fields)
           /\ \A i \in 1..Len(fields) : FieldItems(fields)[i] = Item("field", fields[i].text)
<1>1. Len(fields) \in Nat
    BY ListsAreIndexed
<1>2. QED
    BY <1>1, FieldItemsAreItems DEF FieldItems

LEMMA ChunksOfAre ==
    ASSUME NEW m, IsMessage(m)
    PROVE  /\ ChunksOf(m) \in Seq(Seq(Items))
           /\ Len(ChunksOf(m)) = Len(m.chunks)
           /\ \A i \in 1..Len(m.chunks) : ChunksOf(m)[i] = ChunkItems(m.chunks[i])
<1>1. Len(m.chunks) \in Nat /\ \A i \in 1..Len(m.chunks) : ChunkItems(m.chunks[i]) \in Seq(Items)
    BY PartsOfAMessage, ChunkItemsAreItems
<1>2. QED
    BY <1>1 DEF ChunksOf

LEMMA FlattenedFrom ==
    ASSUME NEW S, NEW seqs \in Seq(Seq(S)), NEW n \in Nat, n <= Len(seqs)
    PROVE  FlattenSeq(From(seqs, n)) \in Seq(S)
<1> DEFINE SS == Seq(S)
           rest == From(seqs, n)
<1>1. seqs \in Seq(SS)
    OBVIOUS
<1>2. rest \in Seq(SS)
    <2> HIDE DEF SS
    <2> QED BY <1>1, FromIsASeq
<1> HIDE DEF rest
<1>3. QED
    BY <1>2, FlattenSeqType DEF rest

LEMMA TrailersLeftAre ==
    ASSUME NEW m, IsMessage(m), NEW n \in Nat, n <= Len(m.trailers)
    PROVE  /\ TrailersLeft(m, n) \in Seq(Items)
           /\ TrailersLeft(m, n) =
                 IF n = Len(m.trailers) THEN <<Blank>>
                 ELSE <<Item("field", m.trailers[n + 1].text)>> \o TrailersLeft(m, n + 1)
<1> DEFINE list == FieldItems(m.trailers)
<1>1. /\ list \in Seq(Items) /\ Len(list) = Len(m.trailers)
      /\ \A i \in 1..Len(m.trailers) : list[i] = Item("field", m.trailers[i].text)
    BY FieldItemsAre DEF IsMessage
<1> HIDE DEF list
<1>2. From(list, n) \in Seq(Items) /\ <<Blank>> \in Seq(Items) /\ Len(list) \in Nat
    BY <1>1, FromIsASeq, BlankIsAnItem
<1>3. TrailersLeft(m, n) = From(list, n) \o <<Blank>>
    BY DEF TrailersLeft, list
<1>4. CASE n = Len(m.trailers)
    <2>1. From(list, n) = <<>>
        BY <1>1, <1>4, FromTheEnd
    <2>2. <<>> \o <<Blank>> = <<Blank>>
        BY <1>2, ConcatEmptySeq
    <2>3. QED
        BY <1>2, <1>3, <1>4, <2>1, <2>2
<1>5. CASE n # Len(m.trailers)
    <2>1. n < Len(list) /\ n + 1 \in Nat /\ n + 1 <= Len(list) /\ n + 1 \in 1..Len(m.trailers)
        BY <1>1, <1>2, <1>5
    <2> DEFINE a == <<list[n + 1]>>
               b == From(list, n + 1)
    <2>2. From(list, n) = a \o b
        BY <1>1, <2>1, FromTheNext
    <2>3. a \in Seq(Items) /\ b \in Seq(Items)
        <3>1. list[n + 1] \in Items
            BY <1>1, <2>1
        <3>2. QED
            BY <1>1, <2>1, <3>1, FromIsASeq
    <2>4. a = <<Item("field", m.trailers[n + 1].text)>>
        BY <1>1, <2>1
    <2>5. TrailersLeft(m, n + 1) = b \o <<Blank>>
        BY DEF TrailersLeft, list
    <2> HIDE DEF a, b
    <2>6. (a \o b) \o <<Blank>> = a \o (b \o <<Blank>>)
        BY <1>2, <2>3, Regroup, Zenon
    <2>7. TrailersLeft(m, n) = a \o TrailersLeft(m, n + 1)
        BY <1>3, <2>2, <2>5, <2>6
    <2>8. TrailersLeft(m, n) \in Seq(Items)
        BY <1>2, <1>3
    <2>9. QED
        BY <1>5, <2>4, <2>7, <2>8
<1>6. QED
    BY <1>4, <1>5

LEMMA ChunksLeftType ==
    ASSUME NEW m, IsMessage(m), NEW n \in Nat, n <= Len(m.chunks)
    PROVE  ChunksLeft(m, n) \in Seq(Items)
<1>1. FlattenSeq(From(ChunksOf(m), n)) \in Seq(Items)
    BY ChunksOfAre, FlattenedFrom
<1>2. TrailersLeft(m, 0) \in Seq(Items)
    <2>1. 0 \in Nat /\ 0 <= Len(m.trailers)
        BY PartsOfAMessage
    <2>2. QED
        BY <2>1, TrailersLeftAre
<1>3. QED
    BY <1>1, <1>2 DEF ChunksLeft

LEMMA ChunksLeftAtTheEnd ==
    ASSUME NEW m, IsMessage(m)
    PROVE  ChunksLeft(m, Len(m.chunks)) = TrailersLeft(m, 0)
<1> DEFINE list == ChunksOf(m)
           SS   == Seq(Items)
<1>1. list \in Seq(SS) /\ Len(m.chunks) = Len(list)
    BY ChunksOfAre
<1>2. From(list, Len(m.chunks)) = <<>>
    <2> HIDE DEF list, SS
    <2> QED BY <1>1, FromTheEnd
<1>3. TrailersLeft(m, 0) \in Seq(Items)
    <2>1. 0 \in Nat /\ 0 <= Len(m.trailers)
        BY PartsOfAMessage
    <2>2. QED
        BY <2>1, TrailersLeftAre
<1>4. ChunksLeft(m, Len(m.chunks)) = <<>> \o TrailersLeft(m, 0)
    BY <1>2, FlattenNone DEF ChunksLeft
<1>5. QED
    BY <1>3, <1>4, ConcatEmptySeq

LEMMA ChunkItemsAre ==
    ASSUME NEW chunk, chunk.text \in Seq(STRING), chunk.n \in Nat
    PROVE  LET size == <<Item("size", chunk.text)>>
           IN /\ size \in Seq(Items) /\ Bytes(chunk.n) \in Seq(Items)
              /\ ChunkItems(chunk) = IF chunk.n = 0 THEN size ELSE size \o (Bytes(chunk.n) \o <<ChunkEnd>>)
<1> DEFINE size == <<Item("size", chunk.text)>>
           data == Bytes(chunk.n)
           end  == <<ChunkEnd>>
<1>1. size \in Seq(Items)
    <2>1. "size" \in Kinds
        BY DEF Kinds
    <2>2. QED
        BY <2>1, LineIsAnItem
<1>2. data \in Seq(Items) /\ end \in Seq(Items)
    BY BytesAreItems, ChunkEndIsAnItem DEF Bytes
<1>3. ChunkItems(chunk) = (size \o data) \o (IF chunk.n = 0 THEN <<>> ELSE end)
    BY DEF ChunkItems, Bytes
<1>4. chunk.n = 0 => data = <<>>
    BY DEF Bytes
<1> HIDE DEF size, data, end
<1>5. CASE chunk.n = 0
    BY <1>1, <1>2, <1>3, <1>4, <1>5, ConcatEmptySeq DEF size, data, end
<1>6. CASE chunk.n # 0
    <2>1. (size \o data) \o end = size \o (data \o end)
        BY <1>1, <1>2, Regroup
    <2>2. QED
        BY <1>1, <1>2, <1>3, <1>6, <2>1 DEF size, data, end
<1>7. QED
    BY <1>5, <1>6

LEMMA ChunksLeftAre ==
    ASSUME NEW m, IsMessage(m), NEW n \in Nat, n < Len(m.chunks)
    PROVE  LET chunk == m.chunks[n + 1]
               size  == <<Item("size", chunk.text)>>
           IN ChunksLeft(m, n) =
                 IF chunk.n = 0 THEN size \o ChunksLeft(m, n + 1)
                 ELSE size \o (Bytes(chunk.n) \o (<<ChunkEnd>> \o ChunksLeft(m, n + 1)))
<1> DEFINE chunk == m.chunks[n + 1]
           size  == <<Item("size", chunk.text)>>
           list  == ChunksOf(m)
           rest  == FlattenSeq(From(list, n + 1))
           last  == TrailersLeft(m, 0)
           left  == ChunksLeft(m, n + 1)
<1>1. /\ n + 1 \in Nat /\ n + 1 <= Len(m.chunks) /\ n + 1 \in 1..Len(m.chunks)
      /\ chunk.text \in Seq(STRING) /\ chunk.n \in Nat
    BY PartsOfAMessage
<1>2. rest \in Seq(Items) /\ last \in Seq(Items)
    <2>1. rest \in Seq(Items)
        BY <1>1, ChunksOfAre, FlattenedFrom
    <2>2. last \in Seq(Items)
        <3>1. 0 \in Nat /\ 0 <= Len(m.trailers)
            BY PartsOfAMessage
        <3>2. QED
            BY <3>1, TrailersLeftAre
    <2>3. QED
        BY <2>1, <2>2
<1>3. FlattenSeq(From(list, n)) = ChunkItems(chunk) \o rest
    <2>1. list \in Seq(Seq(Items)) /\ n < Len(list) /\ list[n + 1] = ChunkItems(chunk)
        BY <1>1, ChunksOfAre
    <2> HIDE DEF list, chunk
    <2>2. FlattenSeq(From(list, n)) = list[n + 1] \o FlattenSeq(From(list, n + 1))
        BY <2>1, FlattenNext
    <2>3. QED
        BY <2>1, <2>2
<1>4. ChunksLeft(m, n) = (ChunkItems(chunk) \o rest) \o last /\ left = rest \o last
    BY <1>3 DEF ChunksLeft
<1>5. ChunkItems(chunk) \in Seq(Items) /\ left \in Seq(Items)
    BY <1>1, ChunkItemsAreItems, ChunksLeftType
<1> HIDE DEF chunk, list, rest, last, left
<1>6. ChunksLeft(m, n) = ChunkItems(chunk) \o left
    BY <1>2, <1>4, <1>5, Regroup
<1>7. /\ size \in Seq(Items) /\ Bytes(chunk.n) \in Seq(Items)
      /\ ChunkItems(chunk) = IF chunk.n = 0 THEN size ELSE size \o (Bytes(chunk.n) \o <<ChunkEnd>>)
    BY <1>1, ChunkItemsAre
<1> HIDE DEF size
<1>8. (size \o (Bytes(chunk.n) \o <<ChunkEnd>>)) \o left
          = size \o (Bytes(chunk.n) \o (<<ChunkEnd>> \o left))
    BY <1>5, <1>7, ChunkEndIsAnItem, RegroupFour, SMTT(60)
<1>9. ChunksLeft(m, n) =
          IF chunk.n = 0 THEN size \o left
          ELSE size \o (Bytes(chunk.n) \o (<<ChunkEnd>> \o left))
    BY <1>6, <1>7, <1>8, Zenon
<1>10. QED
    BY <1>9 DEF chunk, size, left

LEMMA BodyLeftIs ==
    ASSUME NEW m, IsMessage(m)
    PROVE  /\ BodyLeft(m) \in Seq(Items)
           /\ m.chunks # <<>> /\ m.bytes = 0 => BodyLeft(m) = ChunksLeft(m, 0)
<1>1. Bytes(m.bytes) \in Seq(Items)
    BY PartsOfAMessage, BytesAreItems DEF Bytes
<1>2. ChunksLeft(m, 0) \in Seq(Items)
    <2>1. 0 \in Nat /\ 0 <= Len(m.chunks)
        BY PartsOfAMessage
    <2>2. QED
        BY <2>1, ChunksLeftType
<1>3. m.bytes = 0 => Bytes(m.bytes) = <<>>
    BY DEF Bytes
<1>4. <<>> \o ChunksLeft(m, 0) = ChunksLeft(m, 0)
    BY <1>2, ConcatEmptySeq
<1>5. Bytes(m.bytes) \o ChunksLeft(m, 0) \in Seq(Items)
    BY <1>1, <1>2, Joined, Zenon
<1>6. QED
    BY <1>1, <1>3, <1>4, <1>5, Zenon DEF BodyLeft

LEMMA HeadLeftIs ==
    ASSUME NEW m, IsMessage(m), NEW n \in Nat, n <= Len(m.fields)
    PROVE  /\ HeadLeft(m, n) \in Seq(Items)
           /\ HeadLeft(m, n) =
                 IF n = Len(m.fields) THEN <<Blank>> \o BodyLeft(m)
                 ELSE <<Item("field", m.fields[n + 1].text)>> \o HeadLeft(m, n + 1)
<1> DEFINE list == FieldItems(m.fields)
           tail == <<Blank>> \o BodyLeft(m)
<1>1. /\ list \in Seq(Items) /\ Len(list) = Len(m.fields) /\ Len(list) \in Nat
      /\ \A i \in 1..Len(m.fields) : list[i] = Item("field", m.fields[i].text)
    BY FieldItemsAre, PartsOfAMessage DEF IsMessage
<1>2. tail \in Seq(Items)
    BY BodyLeftIs, BlankIsAnItem, Joined, Zenon
<1>3. HeadLeft(m, n) = From(list, n) \o tail /\ HeadLeft(m, n + 1) = From(list, n + 1) \o tail
    BY DEF HeadLeft
<1> HIDE DEF list, tail
<1>4. From(list, n) \in Seq(Items)
    BY <1>1, FromIsASeq
<1>5. HeadLeft(m, n) \in Seq(Items)
    BY <1>2, <1>3, <1>4, Joined, Zenon
<1>6. CASE n = Len(m.fields)
    <2>1. From(list, n) = <<>>
        BY <1>1, <1>6, FromTheEnd
    <2>2. <<>> \o tail = tail
        BY <1>2, ConcatEmptySeq
    <2>3. QED
        BY <1>3, <1>5, <1>6, <2>1, <2>2 DEF tail
<1>7. CASE n # Len(m.fields)
    <2>1. n < Len(list) /\ n + 1 \in Nat /\ n + 1 <= Len(list) /\ n + 1 \in 1..Len(m.fields)
        BY <1>1, <1>7
    <2> DEFINE a == <<list[n + 1]>>
               b == From(list, n + 1)
    <2>2. From(list, n) = a \o b
        BY <1>1, <2>1, FromTheNext
    <2>3. a \in Seq(Items) /\ b \in Seq(Items)
        <3>1. list[n + 1] \in Items
            BY <1>1, <2>1
        <3>2. QED
            BY <1>1, <2>1, <3>1, FromIsASeq
    <2>4. a = <<Item("field", m.fields[n + 1].text)>>
        BY <1>1, <2>1
    <2>5. HeadLeft(m, n + 1) = b \o tail
        BY <1>3
    <2> HIDE DEF a, b
    <2>6. (a \o b) \o tail = a \o (b \o tail)
        BY <1>2, <2>3, Regroup
    <2>7. HeadLeft(m, n) = a \o HeadLeft(m, n + 1)
        BY <1>3, <2>2, <2>5, <2>6
    <2>8. QED
        BY <1>5, <1>7, <2>4, <2>7
<1>8. QED
    BY <1>6, <1>7

LEMMA MessageItemsAre ==
    ASSUME NEW m, IsMessage(m)
    PROVE  /\ <<Item("request", m.line)>> \in Seq(Items)
           /\ MessageItems(m) = <<Item("request", m.line)>> \o HeadLeft(m, 0)
<1> DEFINE first  == <<Item("request", m.line)>>
           fields == FieldItems(m.fields)
           data   == [i \in 1..m.bytes |-> Byte]
           chunks == [i \in 1..Len(m.chunks) |-> ChunkItems(m.chunks[i])]
           blank  == <<Blank>>
           flat   == FlattenSeq(chunks)
           tail   == IF m.chunks = <<>> THEN <<>> ELSE FieldItems(m.trailers) \o <<Blank>>
           trailers == FieldItems(m.trailers)
<1>1. first \in Seq(Items)
    <2>1. "request" \in Kinds
        BY DEF Kinds
    <2>2. QED
        BY <2>1, PartsOfAMessage, LineIsAnItem
<1>2. fields \in Seq(Items) /\ trailers \in Seq(Items)
    BY FieldItemsAre DEF IsMessage
<1>3. data \in Seq(Items)
    BY PartsOfAMessage, BytesAreItems
<1>4. chunks \in Seq(Seq(Items)) /\ chunks = ChunksOf(m)
    BY ChunksOfAre DEF ChunksOf
<1>5. flat \in Seq(Items)
    <2> HIDE DEF chunks
    <2> QED BY <1>4, FlattenSeqType
<1>6. MessageItems(m) = ((((first \o fields) \o blank) \o data) \o flat) \o tail
    BY DEF MessageItems
<1>7. blank \in Seq(Items)
    BY BlankIsAnItem
<1>8. tail \in Seq(Items)
    <2>1. trailers \o <<Blank>> \in Seq(Items)
        BY <1>2, <1>7, Joined, Zenon
    <2>2. QED
        BY <2>1
<1>9. data = Bytes(m.bytes)
    BY DEF Bytes
<1>10. BodyLeft(m) = data \o (flat \o tail)
    <2>1. CASE m.chunks = <<>>
        <3>1. chunks = <<>>
            BY <2>1, PartsOfAMessage
        <3>2. flat = <<>> /\ tail = <<>>
            BY <2>1, <3>1, FlattenNone
        <3>3. <<>> \o <<>> = <<>>
            OBVIOUS
        <3> HIDE DEF data, flat, tail
        <3>4. data \o <<>> = data
            BY <1>3, ConcatEmptySeq
        <3>5. QED
            BY <1>9, <2>1, <3>2, <3>3, <3>4 DEF BodyLeft
    <2>2. CASE m.chunks # <<>>
        <3>1. tail = trailers \o <<Blank>>
            BY <2>2
        <3>2. From(trailers, 0) = trailers
            BY <1>2, FromTheStart
        <3>3. TrailersLeft(m, 0) = tail
            BY <3>1, <3>2 DEF TrailersLeft
        <3>4. From(ChunksOf(m), 0) = chunks
            <4> DEFINE SS == Seq(Items)
            <4>1. chunks \in Seq(SS)
                BY <1>4
            <4> HIDE DEF chunks, SS
            <4>2. QED
                BY <1>4, <4>1, FromTheStart
        <3>5. ChunksLeft(m, 0) = flat \o tail
            BY <3>3, <3>4 DEF ChunksLeft
        <3> HIDE DEF data, flat, tail
        <3>6. QED
            BY <1>9, <2>2, <3>5 DEF BodyLeft
    <2>3. QED
        BY <2>1, <2>2
<1> HIDE DEF first, fields, data, chunks, blank, flat, tail, trailers
<1> DEFINE front == (first \o fields) \o blank
<1>11. front \in Seq(Items)
    BY <1>1, <1>2, <1>7, Joined, Zenon
<1>12. ((front \o data) \o flat) \o tail = front \o BodyLeft(m)
    <2> HIDE DEF front
    <2>1. front \o data \in Seq(Items) /\ flat \o tail \in Seq(Items)
        BY <1>3, <1>5, <1>8, <1>11, Joined, Zenon
    <2>2. ((front \o data) \o flat) \o tail = (front \o data) \o (flat \o tail)
        BY <1>5, <1>8, <2>1, Regroup, Zenon
    <2>3. (front \o data) \o (flat \o tail) = front \o (data \o (flat \o tail))
        BY <1>3, <1>11, <2>1, Regroup, Zenon
    <2>4. QED
        BY <1>10, <2>2, <2>3, Zenon
<1>13. ((first \o fields) \o blank) \o BodyLeft(m) = first \o (fields \o (blank \o BodyLeft(m)))
    <2>1. BodyLeft(m) \in Seq(Items)
        BY BodyLeftIs
    <2>2. first \o fields \in Seq(Items) /\ blank \o BodyLeft(m) \in Seq(Items)
        BY <1>1, <1>2, <1>7, <2>1, Joined, Zenon
    <2>3. ((first \o fields) \o blank) \o BodyLeft(m) = (first \o fields) \o (blank \o BodyLeft(m))
        BY <1>7, <2>1, <2>2, Regroup, Zenon
    <2>4. (first \o fields) \o (blank \o BodyLeft(m)) = first \o (fields \o (blank \o BodyLeft(m)))
        BY <1>1, <1>2, <2>2, Regroup, Zenon
    <2>5. QED
        BY <2>3, <2>4, Zenon
<1>14. HeadLeft(m, 0) = fields \o (blank \o BodyLeft(m))
    <2>1. From(fields, 0) = fields
        BY <1>2, FromTheStart
    <2>2. QED
        BY <2>1 DEF HeadLeft, fields, blank
<1>15. MessageItems(m) = first \o HeadLeft(m, 0)
    BY <1>6, <1>12, <1>13, <1>14, Zenon
<1>16. QED
    BY <1>1, <1>15 DEF first

LEMMA BehindIs ==
    ASSUME conversation \in Conversations
    PROVE  /\ Len(conversation) \in Nat
           /\ \A i \in 1..Len(conversation) :
                 /\ IsMessage(conversation[i])
                 /\ Means(conversation[i]) /\ IsFramed(conversation[i])
           /\ \A n \in 0..Len(conversation) : Behind(n) \in Seq(Items)
           /\ \A n \in 0..(Len(conversation) - 1) :
                 Behind(n) = MessageItems(conversation[n + 1]) \o Behind(n + 1)
           /\ Behind(Len(conversation)) = <<>>
           /\ Behind(0) = FlattenSeq(Sent(conversation))
<1> DEFINE c == conversation
           list == Sent(conversation)
           SS == Seq(Items)
<1>1. IsList(c) /\ \A m \in Range(c) : IsMessage(m) /\ Means(m) /\ IsFramed(m)
    BY ReaderAssumption, ClientAssumption DEF ReaderAssumption, ClientAssumption
<1>2. /\ Len(c) \in Nat
      /\ \A i \in 1..Len(c) : IsMessage(c[i]) /\ Means(c[i]) /\ IsFramed(c[i])
    BY <1>1, ListsAreIndexed
<1>3. /\ list \in Seq(Seq(Items)) /\ Len(list) = Len(c)
      /\ \A i \in 1..Len(c) : list[i] = MessageItems(c[i])
    <2>1. \A i \in 1..Len(c) : MessageItems(c[i]) \in Seq(Items)
        BY <1>2, MessageItemsAreItems
    <2>2. QED
        BY <1>2, <2>1 DEF Sent
<1>4. list \in Seq(SS)
    BY <1>3
<1> HIDE DEF list, SS
<1>5. \A n \in 0..Len(c) : Behind(n) \in Seq(Items)
    BY <1>2, <1>3, FlattenedFrom DEF Behind, list
<1>6. ASSUME NEW n \in 0..(Len(c) - 1)
      PROVE  Behind(n) = MessageItems(c[n + 1]) \o Behind(n + 1)
    <2>1. n \in Nat /\ n < Len(list) /\ n + 1 \in 1..Len(c)
        BY <1>2, <1>3
    <2>2. FlattenSeq(From(list, n)) = list[n + 1] \o FlattenSeq(From(list, n + 1))
        BY <1>3, <2>1, FlattenNext
    <2>3. QED
        BY <1>3, <2>1, <2>2 DEF Behind, list
<1>7. Behind(Len(c)) = <<>>
    <2>1. From(list, Len(c)) = <<>>
        BY <1>3, <1>4, FromTheEnd
    <2>2. QED
        BY <2>1, FlattenNone DEF Behind, list
<1>8. Behind(0) = FlattenSeq(list)
    <2>1. From(list, 0) = list
        BY <1>4, FromTheStart
    <2>2. QED
        BY <2>1 DEF Behind, list
<1>9. QED
    BY <1>2, <1>5, <1>6, <1>7, <1>8 DEF list

-----------------------------------------------------------------------------
(* Counting the requests that are still to be read.                        *)

RequestsAt(s) == {i \in DOMAIN s : s[i].kind = "request"}

LEMMA RequestsAreFinite ==
    ASSUME NEW s \in Seq(Items)
    PROVE  /\ RequestsAt(s) \subseteq 1..Len(s) /\ Len(s) \in Nat
           /\ IsFiniteSet(RequestsAt(s))
           /\ RequestsIn(s) = Cardinality(RequestsAt(s)) /\ RequestsIn(s) \in Nat
<1>1. RequestsAt(s) \in SUBSET (1..Len(s)) /\ Len(s) \in Nat
    BY DEF RequestsAt
<1>2. IsFiniteSet(1..Len(s))
    BY <1>1, FS_Interval
<1>3. IsFiniteSet(RequestsAt(s))
    BY <1>1, <1>2, FS_Subset
<1>4. RequestsIn(s) = Cardinality(RequestsAt(s))
    BY DEF RequestsIn, RequestsAt
<1>5. QED
    BY <1>1, <1>3, <1>4, FS_CardinalityType

LEMMA RequestsAddUp ==
    ASSUME NEW s \in Seq(Items), NEW t \in Seq(Items)
    PROVE  RequestsIn(s \o t) = RequestsIn(s) + RequestsIn(t)
<1> DEFINE n == Len(s)
           a == RequestsAt(s)
           b == RequestsAt(t)
           c == RequestsAt(s \o t)
           d == {i + n : i \in b}
<1>1. /\ a \subseteq 1..n /\ IsFiniteSet(a) /\ RequestsIn(s) = Cardinality(a) /\ n \in Nat
      /\ b \subseteq 1..Len(t) /\ IsFiniteSet(b) /\ RequestsIn(t) = Cardinality(b) /\ Len(t) \in Nat
      /\ RequestsIn(s \o t) = Cardinality(c)
      /\ Cardinality(a) \in Nat /\ Cardinality(b) \in Nat
    BY RequestsAreFinite, Joined
<1>2. IsFiniteSet(d) /\ Cardinality(d) = Cardinality(b)
    <2> DEFINE f == [i \in b |-> i + n]
    <2>1. f \in [b -> d] /\ \A j \in d : \E i \in b : f[i] = j
        OBVIOUS
    <2>2. \A i, j \in b : f[i] = f[j] => i = j
        BY <1>1
    <2> HIDE DEF f, b, d
    <2>3. f \in Bijection(b, d)
        BY <2>1, <2>2 DEF Bijection, Injection, Surjection, IsInjective
    <2>4. ExistsBijection(b, d)
        BY <2>3 DEF ExistsBijection
    <2>5. QED
        BY <1>1, <2>4, FS_Bijection
<1>3. a \cap d = {}
    BY <1>1
<1>4. c = a \cup d
    <2>1. /\ s \o t \in Seq(Items) /\ Len(s \o t) = n + Len(t)
          /\ \A i \in 1..(n + Len(t)) : (s \o t)[i] = IF i <= n THEN s[i] ELSE t[i - n]
        BY ConcatProperties
    <2>2. DOMAIN (s \o t) = 1..(n + Len(t)) /\ DOMAIN s = 1..n /\ DOMAIN t = 1..Len(t)
        BY <2>1
    <2>3. c = {i \in 1..(n + Len(t)) : (IF i <= n THEN s[i] ELSE t[i - n]).kind = "request"}
        <3> DEFINE st == s \o t
        <3>1. c = {i \in 1..(n + Len(t)) : st[i].kind = "request"}
            BY <2>2 DEF RequestsAt
        <3> HIDE DEF st, c, n
        <3>2. QED
            BY <2>1, <3>1 DEF st
    <2>4. a = {i \in 1..n : s[i].kind = "request"} /\ b = {i \in 1..Len(t) : t[i].kind = "request"}
        BY <2>2 DEF RequestsAt
    <2> HIDE DEF a, b, c, n
    <2>5. ASSUME NEW i PROVE i \in c <=> i \in a \cup d
        <3>1. CASE i \in 1..n
            <4>1. i <= n /\ i \in 1..(n + Len(t)) /\ i \notin d
                BY <1>1, <3>1
            <4>2. QED
                BY <2>3, <2>4, <3>1, <4>1
        <3>2. CASE i \in (n + 1)..(n + Len(t))
            <4>1. ~(i <= n) /\ i \in 1..(n + Len(t)) /\ i - n \in 1..Len(t) /\ (i - n) + n = i
                BY <1>1, <3>2
            <4>2. i \in c <=> i - n \in b
                BY <2>3, <2>4, <4>1
            <4>3. i \in d <=> i - n \in b
                <5>1. i \in d => i - n \in b
                    BY <1>1
                <5>2. i - n \in b => i \in d
                    BY <4>1
                <5>3. QED
                    BY <5>1, <5>2
            <4>4. i \notin a
                BY <1>1, <4>1
            <4>5. QED
                BY <4>2, <4>3, <4>4
        <3>3. CASE i \notin 1..(n + Len(t))
            <4>1. i \notin c /\ i \notin a
                BY <1>1, <2>3, <2>4, <3>3
            <4>2. i \notin d
                BY <1>1, <3>3
            <4>3. QED
                BY <4>1, <4>2
        <3>4. QED
            BY <1>1, <3>1, <3>2, <3>3
    <2> HIDE DEF d
    <2>6. QED
        BY <2>5
<1> HIDE DEF a, b, c, d
<1>5. Cardinality(a \cup d) = Cardinality(a) + Cardinality(d) - Cardinality(a \cap d)
    BY <1>1, <1>2, FS_Union
<1>6. Cardinality(a \cap d) = 0
    BY <1>3, FS_EmptySet
<1>7. QED
    BY <1>1, <1>2, <1>4, <1>5, <1>6

\* Everything a message sends behind its request line.
Contents == {e \in Items : e.kind # "request"}

LEMMA NoRequestsInContents ==
    ASSUME NEW s \in Seq(Contents)
    PROVE  s \in Seq(Items) /\ RequestsIn(s) = 0
<1>1. \A i \in DOMAIN s : s[i] \in Contents
    OBVIOUS
<1>2. RequestsAt(s) = {}
    BY <1>1 DEF RequestsAt, Contents
<1>3. Contents \subseteq Items
    BY DEF Contents
<1>4. s \in Seq(Items)
    BY <1>3, SeqMonotonic
<1>5. QED
    BY <1>2, <1>4, FS_EmptySet DEF RequestsIn, RequestsAt

LEMMA ContentsJoined ==
    \A s, t \in Seq(Contents) : s \o t \in Seq(Contents)
OBVIOUS

LEMMA LinesAreContents ==
    /\ \A text \in Seq(STRING) : Item("field", text) \in Contents /\ Item("size", text) \in Contents
    /\ Byte \in Contents /\ Blank \in Contents /\ ChunkEnd \in Contents
<1>1. ASSUME NEW text \in Seq(STRING) PROVE Item("field", text) \in Contents /\ Item("size", text) \in Contents
    <2>1. text \in Texts
        BY SentTextsAreTexts
    <2>2. QED
        BY <2>1 DEF Contents, Item, Items, Kinds
<1>2. Blank \in Contents /\ ChunkEnd \in Contents
    BY BlankIsAnItem, ChunkEndIsAnItem DEF Contents, Blank, ChunkEnd, Item
<1>3. Byte \in Contents
    <2>1. <<"a">> \in Texts
        BY DEF Texts, Tokens
    <2>2. QED
        BY <2>1 DEF Contents, Byte, Item, Items, Kinds
<1>4. QED
    BY <1>1, <1>2, <1>3

LEMMA PartsAreContents ==
    ASSUME NEW m, IsMessage(m)
    PROVE  HeadLeft(m, 0) \in Seq(Contents)
<1>1. FieldItems(m.fields) \in Seq(Contents) /\ FieldItems(m.trailers) \in Seq(Contents)
    <2>1. \A i \in 1..Len(m.fields) : Item("field", m.fields[i].text) \in Contents
        BY PartsOfAMessage, LinesAreContents
    <2>2. \A i \in 1..Len(m.trailers) : Item("field", m.trailers[i].text) \in Contents
        BY PartsOfAMessage, LinesAreContents
    <2>3. Len(m.fields) \in Nat /\ Len(m.trailers) \in Nat
        BY PartsOfAMessage
    <2>4. QED
        BY <2>1, <2>2, <2>3 DEF FieldItems
<1>2. \A n \in Nat : Bytes(n) \in Seq(Contents)
    BY LinesAreContents DEF Bytes
<1>3. \A i \in 1..Len(m.chunks) : ChunkItems(m.chunks[i]) \in Seq(Contents)
    <2> SUFFICES ASSUME NEW i \in 1..Len(m.chunks) PROVE ChunkItems(m.chunks[i]) \in Seq(Contents)
        OBVIOUS
    <2> DEFINE chunk == m.chunks[i]
               size  == <<Item("size", chunk.text)>>
               data  == Bytes(chunk.n)
               end   == <<ChunkEnd>>
    <2>1. chunk.text \in Seq(STRING) /\ chunk.n \in Nat
        BY PartsOfAMessage
    <2> HIDE DEF chunk
    <2>2. ChunkItems(chunk) = IF chunk.n = 0 THEN size ELSE size \o (data \o end)
        BY <2>1, ChunkItemsAre
    <2>3. size \in Seq(Contents) /\ data \in Seq(Contents) /\ end \in Seq(Contents)
        BY <1>2, <2>1, LinesAreContents
    <2> HIDE DEF size, data, end
    <2>4. size \o (data \o end) \in Seq(Contents)
        BY <2>3, ContentsJoined, Zenon
    <2>5. QED
        BY <2>2, <2>3, <2>4 DEF chunk
<1>4. FlattenSeq(From(ChunksOf(m), 0)) \in Seq(Contents)
    <2> DEFINE SS == Seq(Contents)
               list == ChunksOf(m)
    <2>1. list \in Seq(SS) /\ list \in Seq(Seq(Contents))
        BY <1>3, PartsOfAMessage DEF ChunksOf
    <2>2. From(list, 0) = list
        <3> HIDE DEF SS, list
        <3> QED BY <2>1, FromTheStart
    <2>3. QED
        BY <2>1, <2>2, FlattenSeqType
<1>5. From(FieldItems(m.fields), 0) = FieldItems(m.fields)
      /\ From(FieldItems(m.trailers), 0) = FieldItems(m.trailers)
    BY <1>1, FromTheStart
<1>6. <<Blank>> \in Seq(Contents)
    BY LinesAreContents
<1>7. ChunksLeft(m, 0) \in Seq(Contents)
    BY <1>1, <1>4, <1>5, <1>6, ContentsJoined, Zenon DEF ChunksLeft, TrailersLeft
<1>8. BodyLeft(m) \in Seq(Contents)
    <2>1. Bytes(m.bytes) \in Seq(Contents)
        BY <1>2, PartsOfAMessage
    <2>2. Bytes(m.bytes) \o ChunksLeft(m, 0) \in Seq(Contents)
        BY <1>7, <2>1, ContentsJoined, Zenon
    <2>3. QED
        BY <2>1, <2>2 DEF BodyLeft
<1>9. QED
    BY <1>1, <1>5, <1>6, <1>8, ContentsJoined, Zenon DEF HeadLeft

LEMMA RequestsBehind ==
    ASSUME conversation \in Conversations
    PROVE  \A n \in 0..Len(conversation) : RequestsIn(Behind(n)) = Len(conversation) - n
<1> DEFINE N == Len(conversation)
           T == {k \in Nat : k <= N => RequestsIn(Behind(N - k)) = k}
<1>1. N \in Nat
    BY BehindIs
<1>2. 0 \in T
    <2>1. Behind(N) = <<>> /\ N - 0 = N
        BY <1>1, BehindIs
    <2>2. RequestsIn(<<>>) = 0
        BY FS_EmptySet DEF RequestsIn
    <2>3. QED
        BY <2>1, <2>2
<1>3. ASSUME NEW k \in Nat, k \in T PROVE k + 1 \in T
    <2>1. SUFFICES ASSUME k + 1 <= N PROVE RequestsIn(Behind(N - (k + 1))) = k + 1
        OBVIOUS
    <2> DEFINE n == N - (k + 1)
               m == conversation[n + 1]
               first == <<Item("request", m.line)>>
    <2>2. n \in 0..(N - 1) /\ n + 1 \in 1..N /\ n + 1 \in 0..N /\ n + 1 = N - k /\ k <= N
        BY <1>1, <2>1
    <2> HIDE DEF n
    <2>3. IsMessage(m) /\ Behind(n) = MessageItems(m) \o Behind(n + 1) /\ Behind(n + 1) \in Seq(Items)
        BY <2>2, BehindIs
    <2>4. RequestsIn(Behind(n + 1)) = k
        BY <1>3, <2>2
    <2> HIDE DEF m
    <2>5. /\ first \in Seq(Items) /\ MessageItems(m) = first \o HeadLeft(m, 0)
          /\ HeadLeft(m, 0) \in Seq(Items) /\ RequestsIn(HeadLeft(m, 0)) = 0
          /\ MessageItems(m) \in Seq(Items)
        <3>1. HeadLeft(m, 0) \in Seq(Contents)
            BY <2>3, PartsAreContents
        <3>2. QED
            BY <2>3, <3>1, MessageItemsAre, NoRequestsInContents, MessageItemsAreItems
    <2>6. RequestsIn(first) = 1
        <3>1. RequestsAt(first) = {1}
            BY DEF RequestsAt, Item
        <3>2. QED
            BY <3>1, FS_Singleton DEF RequestsIn, RequestsAt
    <2>7. RequestsIn(MessageItems(m)) = 1
        <3> HIDE DEF first
        <3>1. RequestsIn(first \o HeadLeft(m, 0)) = 1 + 0
            BY <2>5, <2>6, RequestsAddUp
        <3>2. QED
            BY <2>5, <3>1
    <2>8. RequestsIn(Behind(n)) = 1 + k
        BY <2>3, <2>4, <2>5, <2>7, RequestsAddUp
    <2>9. QED
        BY <2>8 DEF n
<1>4. Nat \subseteq T
    <2> HIDE DEF T
    <2> QED BY <1>2, <1>3, NatInductive
<1>5. ASSUME NEW n \in 0..N PROVE RequestsIn(Behind(n)) = N - n
    <2>1. N - n \in Nat /\ N - n <= N /\ N - (N - n) = n
        BY <1>1
    <2>2. N - n \in T
        BY <1>4, <2>1
    <2>3. QED
        BY <2>1, <2>2
<1>6. QED
    BY <1>5

LEMMA BehindStarts ==
    ASSUME conversation \in Conversations, NEW n \in 0..Len(conversation), Behind(n) # <<>>
    PROVE  Head(Behind(n)).kind = "request"
<1> DEFINE m == conversation[n + 1]
           first == <<Item("request", m.line)>>
           rest == HeadLeft(m, 0)
           later == Behind(n + 1)
<1>1. n # Len(conversation) /\ Len(conversation) \in Nat
    BY BehindIs
<1>2. n \in 0..(Len(conversation) - 1) /\ n + 1 \in 1..Len(conversation) /\ n + 1 \in 0..Len(conversation)
    BY <1>1
<1>3. IsMessage(m) /\ Behind(n) = MessageItems(m) \o later /\ later \in Seq(Items)
    BY <1>2, BehindIs
<1> HIDE DEF m, later
<1>4. /\ first \in Seq(Items) /\ MessageItems(m) = first \o rest
    BY <1>3, MessageItemsAre
<1>5. rest \in Seq(Items)
    BY <1>3, PartsAreContents, NoRequestsInContents
<1>6. first[1].kind = "request" /\ Len(first) = 1
    BY DEF Item
<1> HIDE DEF first, rest
<1>7. (first \o rest) \o later = first \o (rest \o later)
    BY <1>3, <1>4, <1>5, Regroup
<1>8. rest \o later \in Seq(Items)
    BY <1>3, <1>5, Joined, Zenon
<1>9. (first \o (rest \o later))[1] = first[1] /\ first \o (rest \o later) # <<>>
    <2> DEFINE x == rest \o later
    <2>1. x \in Seq(Items)
        BY <1>8
    <2> HIDE DEF x
    <2>2. /\ first \o x \in Seq(Items) /\ Len(first \o x) = Len(first) + Len(x)
          /\ \A i \in 1..(Len(first) + Len(x)) : (first \o x)[i] = IF i <= Len(first) THEN first[i] ELSE x[i - Len(first)]
        BY <1>4, <2>1, ConcatProperties
    <2>3. Len(x) \in Nat /\ 1 \in 1..(Len(first) + Len(x)) /\ 1 <= Len(first)
        BY <1>6, <2>1
    <2>4. (first \o x)[1] = first[1] /\ Len(first \o x) # 0
        BY <1>6, <2>2, <2>3
    <2>5. QED
        BY <2>4 DEF x
<1>10. QED
    BY <1>3, <1>4, <1>6, <1>7, <1>9

-----------------------------------------------------------------------------
(* What a step takes off the stream.                                       *)

LEMMA RemainingFrom ==
    ASSUME StreamInv, NEW n \in Nat, n <= Len(unread)
    PROVE  /\ Remaining \in Seq(Items) /\ Len(Remaining) = Len(unread) + Len(incoming)
           /\ DropItems(n) \o incoming = From(Remaining, n)
           /\ \A i \in 1..Len(unread) : Remaining[i] = unread[i]
<1>1. unread \in Seq(Items) /\ incoming \in Seq(Items)
    BY DEF StreamInv
<1>2. From(unread \o incoming, n) = From(unread, n) \o incoming
    BY <1>1, FromOfConcat
<1>3. /\ unread \o incoming \in Seq(Items)
      /\ Len(unread \o incoming) = Len(unread) + Len(incoming)
      /\ \A i \in 1..(Len(unread) + Len(incoming)) :
            (unread \o incoming)[i] = IF i <= Len(unread) THEN unread[i] ELSE incoming[i - Len(unread)]
    BY <1>1, ConcatProperties
<1>4. \A i \in 1..Len(unread) : i <= Len(unread) /\ i \in 1..(Len(unread) + Len(incoming))
    BY <1>1
<1>5. QED
    BY <1>2, <1>3, <1>4 DEF Remaining, DropItems, From

LEMMA LineTaken ==
    ASSUME StreamInv, unread # <<>>, NEW e \in Items, NEW rest \in Seq(Items),
           Remaining = <<e>> \o rest
    PROVE  Head(unread) = e /\ Tail(unread) \o incoming = rest
<1>1. unread \in Seq(Items) /\ Len(unread) \in Nat /\ 1 <= Len(unread) /\ 1 \in Nat
    BY DEF StreamInv
<1>2. Tail(unread) = DropItems(1) /\ Head(unread) = unread[1]
    BY <1>1, TailIsSubSeq DEF DropItems
<1>3. DropItems(1) \o incoming = From(Remaining, 1) /\ Remaining[1] = unread[1]
    <2>1. 1 \in Nat /\ 1 <= Len(unread) /\ 1 \in 1..Len(unread)
        BY <1>1
    <2>2. DropItems(1) \o incoming = From(Remaining, 1)
        BY <2>1, RemainingFrom
    <2>3. Remaining[1] = unread[1]
        BY <2>1, RemainingFrom
    <2>4. QED
        BY <2>2, <2>3
<1> DEFINE s == <<e>>
<1>4. s \in Seq(Items) /\ Len(s) = 1 /\ s[1] = e /\ 1 \in Nat /\ 1 <= Len(s)
    OBVIOUS
<1> HIDE DEF s
<1>5. From(s \o rest, 1) = From(s, 1) \o rest
    BY <1>4, FromOfConcat
<1>6. From(s, 1) = <<>>
    BY <1>4, FromTheEnd
<1>7. <<>> \o rest = rest
    BY ConcatEmptySeq
<1>8. (s \o rest)[1] = e
    <2>1. 1 \in 1..(Len(s) + Len(rest)) /\ 1 <= Len(s)
        BY <1>4
    <2>2. (s \o rest)[1] = IF 1 <= Len(s) THEN s[1] ELSE rest[1 - Len(s)]
        BY <1>4, <2>1, ConcatProperties
    <2>3. QED
        BY <1>4, <2>1, <2>2
<1>9. Remaining = s \o rest
    BY DEF s
<1>10. QED
    BY <1>2, <1>3, <1>5, <1>6, <1>7, <1>8, <1>9

LEMMA BytesFrom ==
    ASSUME NEW n \in Nat, NEW k \in Nat, k <= n
    PROVE  Bytes(n) \in Seq(Items) /\ Len(Bytes(n)) = n /\ From(Bytes(n), k) = Bytes(n - k)
<1> DEFINE a == Bytes(n)
           b == Bytes(n - k)
           c == From(a, k)
<1>1. n - k \in Nat
    OBVIOUS
<1>2. /\ a \in Seq(Items) /\ Len(a) = n /\ \A i \in 1..n : a[i] = Byte
      /\ b \in Seq(Items) /\ Len(b) = n - k /\ \A i \in 1..(n - k) : b[i] = Byte
    BY <1>1, BytesAreItems DEF Bytes
<1> HIDE DEF a, b
<1>3. c \in Seq(Items) /\ Len(c) = n - k /\ \A i \in 1..(n - k) : c[i] = a[k + i]
    BY <1>2, FromIsASeq
<1> HIDE DEF c
<1>4. \A i \in 1..Len(c) : c[i] = b[i]
    <2> SUFFICES ASSUME NEW i \in 1..Len(c) PROVE c[i] = b[i]
        OBVIOUS
    <2>1. i \in 1..(n - k) /\ k + i \in 1..n
        BY <1>3
    <2>2. QED
        BY <1>2, <1>3, <2>1
<1>5. c = b
    BY <1>2, <1>3, <1>4, SeqEqual
<1>6. QED
    BY <1>2, <1>5 DEF a, b, c

LEMMA BytesDropped ==
    ASSUME StreamInv, NEW n \in Nat, NEW k \in Nat, k <= n, k <= Len(unread),
           NEW rest \in Seq(Items), Remaining = Bytes(n) \o rest
    PROVE  DropItems(k) \o incoming = Bytes(n - k) \o rest
<1> DEFINE s == Bytes(n)
<1>1. s \in Seq(Items) /\ Len(s) = n /\ From(s, k) = Bytes(n - k)
    BY BytesFrom
<1>2. DropItems(k) \o incoming = From(Remaining, k)
    BY RemainingFrom
<1>3. Remaining = s \o rest
    OBVIOUS
<1> HIDE DEF s
<1>4. From(s \o rest, k) = From(s, k) \o rest
    BY <1>1, FromOfConcat
<1>5. QED
    BY <1>1, <1>2, <1>3, <1>4

LEMMA NoBytes ==
    ASSUME NEW rest \in Seq(Items)
    PROVE  Bytes(0) \o rest = rest
<1>1. Bytes(0) = <<>>
    BY DEF Bytes
<1>2. QED
    BY <1>1, ConcatEmptySeq

LEMMA ChunkDropped ==
    ASSUME StreamInv, NEW n \in Nat, n + 1 <= Len(unread),
           NEW rest \in Seq(Items), Remaining = Bytes(n) \o (<<ChunkEnd>> \o rest)
    PROVE  unread[n + 1] = ChunkEnd /\ DropItems(n + 1) \o incoming = rest
<1> DEFINE data == Bytes(n)
           end  == <<ChunkEnd>>
           both == data \o end
<1>1. data \in Seq(Items) /\ Len(data) = n /\ end \in Seq(Items) /\ Len(end) = 1 /\ end[1] = ChunkEnd
    BY BytesFrom, ChunkEndIsAnItem
<1>2. Remaining = data \o (end \o rest)
    OBVIOUS
<1> HIDE DEF data, end
<1>3. (data \o end) \o rest = data \o (end \o rest)
    BY <1>1, Regroup
<1>4. /\ both \in Seq(Items) /\ Len(both) = n + 1
      /\ \A i \in 1..(n + 1) : both[i] = IF i <= n THEN data[i] ELSE end[i - n]
    <2>1. /\ both \in Seq(Items) /\ Len(both) = Len(data) + Len(end)
          /\ \A i \in 1..(Len(data) + Len(end)) :
                both[i] = IF i <= Len(data) THEN data[i] ELSE end[i - Len(data)]
        <3>1. data \in Seq(Items) /\ end \in Seq(Items)
            BY <1>1
        <3>2. QED
            BY <3>1, ConcatProperties
    <2> HIDE DEF both
    <2>2. QED
        BY <1>1, <2>1
<1>5. Remaining = both \o rest
    BY <1>2, <1>3
<1> HIDE DEF both
<1>6. both[n + 1] = ChunkEnd
    <2>1. n + 1 \in 1..(n + 1) /\ ~(n + 1 <= n) /\ (n + 1) - n = 1
        OBVIOUS
    <2>2. QED
        BY <1>1, <1>4, <2>1
<1>7. From(both \o rest, n + 1) = From(both, n + 1) \o rest /\ From(both, n + 1) = <<>>
    <2>1. n + 1 \in Nat /\ n + 1 <= Len(both) /\ n + 1 = Len(both)
        BY <1>4
    <2>2. QED
        BY <1>4, <2>1, FromOfConcat, FromTheEnd
<1>8. (both \o rest)[n + 1] = both[n + 1]
    <2>1. n + 1 \in 1..(Len(both) + Len(rest)) /\ n + 1 <= Len(both)
        BY <1>4
    <2>2. (both \o rest)[n + 1] = IF n + 1 <= Len(both) THEN both[n + 1] ELSE rest[n + 1 - Len(both)]
        BY <1>4, <2>1, ConcatProperties
    <2>3. QED
        BY <2>1, <2>2
<1>9. DropItems(n + 1) \o incoming = From(Remaining, n + 1) /\ Remaining[n + 1] = unread[n + 1]
    <2>1. n + 1 \in Nat /\ n + 1 \in 1..Len(unread)
        BY DEF StreamInv
    <2>2. QED
        BY <2>1, RemainingFrom
<1>10. <<>> \o rest = rest
    BY ConcatEmptySeq
<1>11. QED
    BY <1>5, <1>6, <1>7, <1>8, <1>9, <1>10

-----------------------------------------------------------------------------
(* What the digit loops make of the numbers a client writes.               *)

LEMMA FindFinds ==
    ASSUME NEW text \in Texts, NEW token
    PROVE  /\ Len(text) \in Nat
           /\ Find(text, token) \in 1..(Len(text) + 1)
           /\ \A i \in 1..(Find(text, token) - 1) : text[i] # token
           /\ Find(text, token) <= Len(text) => text[Find(text, token)] = token
<1> DEFINE at == Positions(text, token)
<1>1. Len(text) \in Nat
    BY DEF Texts
<1>2. at \subseteq 1..Len(text) /\ \A i \in 1..Len(text) : i \in at <=> text[i] = token
    BY DEF Positions
<1> HIDE DEF at
<1>3. CASE at = {}
    <2>1. Find(text, token) = Len(text) + 1
        BY <1>3 DEF Find, at
    <2>2. QED
        BY <1>1, <1>2, <1>3, <2>1
<1>4. CASE at # {}
    <2>1. Find(text, token) = Min(at)
        BY <1>4 DEF Find, at
    <2>2. Min(at) \in at /\ \A y \in at : Min(at) <= y
        <3>1. at \subseteq Nat
            BY <1>1, <1>2
        <3>2. QED
            BY <1>4, <3>1, MinIsLeast
    <2>3. ASSUME NEW i \in 1..(Min(at) - 1) PROVE text[i] # token
        <3>1. PICK a \in 1..Len(text) : a = Min(at)
            BY <1>2, <2>2
        <3>2. i \in 1..Len(text) /\ ~(a <= i)
            BY <1>1, <3>1
        <3>3. i \notin at
            BY <2>2, <3>1, <3>2
        <3>4. QED
            BY <1>2, <3>2, <3>3
    <2>4. Min(at) \in 1..Len(text) /\ text[Min(at)] = token
        BY <1>2, <2>2
    <2>5. Min(at) \in 1..(Len(text) + 1)
        BY <1>1, <2>4
    <2>6. QED
        BY <1>1, <2>1, <2>3, <2>4, <2>5
<1>5. QED
    BY <1>3, <1>4

\* The first position of a token is where it stands and nothing like it before.
LEMMA FindIs ==
    ASSUME NEW text \in Texts, NEW token, NEW c \in 1..(Len(text) + 1),
           \A i \in 1..(c - 1) : text[i] # token,
           c <= Len(text) => text[c] = token
    PROVE  Find(text, token) = c
<1> DEFINE f == Find(text, token)
<1>1. /\ Len(text) \in Nat /\ f \in 1..(Len(text) + 1)
      /\ \A i \in 1..(f - 1) : text[i] # token
      /\ f <= Len(text) => text[f] = token
    BY FindFinds
<1> HIDE DEF f
<1>2. ~(f < c)
    <2>1. f < c => f \in 1..(c - 1) /\ f <= Len(text)
        BY <1>1
    <2>2. QED
        BY <1>1, <2>1
<1>3. ~(c < f)
    <2>1. c < f => c \in 1..(f - 1) /\ c <= Len(text)
        BY <1>1
    <2>2. QED
        BY <1>1, <2>1
<1>4. f = c
    BY <1>1, <1>2, <1>3
<1>5. QED
    BY <1>4 DEF f

LEMMA NoneOfTheseIsADigit ==
    \A base : \A token \in {Semi, Space, Tab, Comma} : ~IsDigit(token, base)
<1>1. DOMAIN DigitValue = Range(Digits)
    BY DEF DigitValue
<1>2. DOMAIN Digits = 1..12
    BY DEF Digits
<1>3. \A i \in 1..12 : Digits[i] \in {"0", "1", "2", "3", "4", "5", "6", "7", "8", "9", "a", "B"}
    BY DEF Digits
<1>4. DOMAIN DigitValue \subseteq {"0", "1", "2", "3", "4", "5", "6", "7", "8", "9", "a", "B"}
    BY <1>1, <1>2, <1>3 DEF Range
<1>5. \A token \in {Semi, Space, Tab, Comma} :
          token \notin {"0", "1", "2", "3", "4", "5", "6", "7", "8", "9", "a", "B"}
    BY Zenon DEF Semi, Space, Tab, Comma
<1>6. \A token \in {Semi, Space, Tab, Comma} : token \notin DOMAIN DigitValue
    BY <1>4, <1>5
<1>7. QED
    BY <1>6 DEF IsDigit

LEMMA DigitsAreLegal ==
    ASSUME NEW text \in Texts, NEW base \in {10, 16}
    PROVE  /\ AreDigits(text, base) <=> text # <<>> /\ Legal(text, base, Len(text))
           /\ Meant(text, base) = Written(text, base)[Len(text)]
           /\ AreDigits(text, base) => Meant(text, base) \in Nat
<1>1. Len(text) \in Nat /\ DOMAIN text = 1..Len(text)
    BY DEF Texts
<1>2. AreDigits(text, base) <=> text # <<>> /\ Legal(text, base, Len(text))
    BY <1>1 DEF AreDigits, Legal
<1>3. Meant(text, base) = Written(text, base)[Len(text)]
    BY DEF Meant, Written, NumberOf, OneMore
<1>4. Legal(text, base, Len(text)) => Written(text, base)[Len(text)] \in Nat
    <2>1. MaxBody \in Nat /\ MaxBody * 16 + 15 < SizeMax /\ MaxDrain \in Nat /\ MaxDrain * 10 + 9 < SizeMax
        BY ParsingAssumption DEF ParsingAssumption
    <2>2. PICK cap \in Nat : cap * base + (base - 1) < SizeMax
        <3>1. CASE base = 10
            BY <2>1, <3>1
        <3>2. CASE base = 16
            BY <2>1, <3>2
        <3>3. QED
            BY <3>1, <3>2
    <2>3. Len(text) \in 0..Len(text)
        BY <1>1
    <2>4. Legal(text, base, Len(text)) => InStep(text, base, cap, Len(text))
        BY <1>1, <2>2, <2>3, LoopStaysInStep
    <2>5. QED
        BY <2>4 DEF InStep
<1>5. QED
    BY <1>2, <1>3, <1>4

LEMMA NumberReads ==
    ASSUME NEW text \in Texts, NEW base \in {10, 16}, NEW cap \in Nat, cap * base + (base - 1) < SizeMax
    PROVE  /\ ParseNumber(text, base, cap).error = "None" <=> AreDigits(text, base) /\ Meant(text, base) <= cap
           /\ ParseNumber(text, base, cap).error = "None" => ParseNumber(text, base, cap).bytes = Meant(text, base)
           /\ ParseNumber(text, base, cap).error \in {"None", "Malformed", "BodyTooLarge"}
           /\ ParseNumber(text, base, cap).bytes \in 0..cap
<1>1. text \in Seq(Tokens)
    BY DEF Texts
<1>2. /\ ParseNumber(text, base, cap).error = "None" <=>
            text # <<>> /\ Legal(text, base, Len(text)) /\ Written(text, base)[Len(text)] <= cap
      /\ ParseNumber(text, base, cap).error = "None" =>
            ParseNumber(text, base, cap).bytes = Written(text, base)[Len(text)]
      /\ ParseNumber(text, base, cap).error \in {"None", "Malformed", "BodyTooLarge"}
      /\ ParseNumber(text, base, cap).bytes \in 0..cap
    BY <1>1, NumbersAreExact, ZenonT(60)
<1>3. /\ AreDigits(text, base) <=> text # <<>> /\ Legal(text, base, Len(text))
      /\ Meant(text, base) = Written(text, base)[Len(text)]
    BY DigitsAreLegal
<1>4. QED
    BY <1>2, <1>3, Zenon

\* What lies before a position, and what behind it.
LEMMA PartBefore ==
    ASSUME NEW text \in Texts, NEW c \in 1..(Len(text) + 1)
    PROVE  /\ Between(text, 0, c) = SubSeq(text, 1, c - 1)
           /\ SubSeq(text, 1, c - 1) \in Texts /\ Len(SubSeq(text, 1, c - 1)) = c - 1
           /\ \A i \in 1..(c - 1) : SubSeq(text, 1, c - 1)[i] = text[i]
<1>1. Len(text) \in Nat /\ \A i \in 1..(c - 1) : text[i] \in Tokens
    BY DEF Texts
<1>2. /\ SubSeq(text, 1, c - 1) \in Seq(Tokens)
      /\ Len(SubSeq(text, 1, c - 1)) = IF 1 <= c - 1 THEN (c - 1) - 1 + 1 ELSE 0
      /\ \A i \in 1..((c - 1) - 1 + 1) : SubSeq(text, 1, c - 1)[i] = text[1 + i - 1]
    <2>1. 1 \in Int /\ c - 1 \in Int
        BY <1>1
    <2>2. QED
        BY <1>1, <2>1, SubSeqProperties
<1>3. Between(text, 0, c) = SubSeq(text, 1, c - 1)
    BY DEF Between
<1>4. QED
    BY <1>1, <1>2, <1>3 DEF Texts

LEMMA ChunkReads ==
    ASSUME NEW chunk, chunk.text \in Seq(STRING), chunk.n \in Nat, ChunkMeans(chunk)
    PROVE  LET parsed == ParseChunkSize(chunk.text)
           IN /\ chunk.verdict = "None" <=> Len(chunk.text) <= MaxLine /\ parsed.error = "None"
              /\ chunk.verdict = "None" => parsed.bytes = chunk.n /\ chunk.n <= MaxBody
              /\ parsed.error \in {"None", "Malformed", "BodyTooLarge"}
<1> DEFINE text == chunk.text
           c    == Find(text, Semi)
           size == Between(text, 0, c)
           parsed == ParseChunkSize(text)
           ends == {d \in 1..(Len(text) + 1) : SizeEndsAt(text, d)}
           sizes == {Meant(SubSeq(text, 1, d - 1), 16) : d \in ends}
<1>1. text \in Texts /\ MaxLine \in Nat /\ Len(text) \in Nat
    BY SentTextsAreTexts, ReaderAssumption DEF ReaderAssumption
<1>2. MaxBody \in Nat /\ MaxBody * 16 + (16 - 1) < SizeMax
    BY ParsingAssumption DEF ParsingAssumption
<1>3. IF chunk.verdict = "None"
      THEN Len(text) <= MaxLine /\ sizes = {chunk.n} /\ chunk.n <= MaxBody
      ELSE Len(text) > MaxLine \/ \A n \in sizes : n > MaxBody
    BY DEF ChunkMeans
<1> HIDE DEF text
<1>4. /\ c \in 1..(Len(text) + 1) /\ \A i \in 1..(c - 1) : text[i] # Semi
      /\ c <= Len(text) => text[c] = Semi
    BY <1>1, FindFinds
<1> HIDE DEF c
<1>5. size \in Texts /\ size = SubSeq(text, 1, c - 1)
    BY <1>1, <1>4, PartBefore
<1>6. c \in ends <=> AreDigits(size, 16)
    <2>1. c = Len(text) + 1 \/ text[c] = Semi
        BY <1>1, <1>4
    <2>2. QED
        BY <1>4, <1>5, <2>1 DEF SizeEndsAt
<1>7. ASSUME NEW d \in ends PROVE d = c
    <2>1. d \in 1..(Len(text) + 1) /\ (d = Len(text) + 1 \/ text[d] = Semi) /\ AreDigits(SubSeq(text, 1, d - 1), 16)
        BY DEF SizeEndsAt
    <2>2. /\ Len(SubSeq(text, 1, d - 1)) = d - 1
          /\ \A i \in 1..(d - 1) : SubSeq(text, 1, d - 1)[i] = text[i]
        BY <1>1, <2>1, PartBefore
    <2>3. \A i \in 1..(d - 1) : IsDigit(text[i], 16)
        <3> DEFINE part == SubSeq(text, 1, d - 1)
        <3>1. DOMAIN part = 1..(d - 1)
            BY <1>1, <2>1, <2>2, PartBefore DEF Texts
        <3>2. \A i \in 1..(d - 1) : part[i] = text[i]
            BY <2>2
        <3>3. AreDigits(part, 16)
            BY <2>1
        <3> HIDE DEF part
        <3>4. \A i \in DOMAIN part : IsDigit(part[i], 16)
            BY <3>3 DEF AreDigits
        <3>5. QED
            BY <3>1, <3>2, <3>4
    <2>4. ~(c < d)
        <3>1. c < d => c \in 1..(d - 1) /\ c <= Len(text)
            BY <1>1, <1>4, <2>1
        <3>2. QED
            BY <1>4, <2>3, <3>1, NoneOfTheseIsADigit
    <2>5. ~(d < c)
        <3>1. d < c => d \in 1..(c - 1) /\ d # Len(text) + 1
            BY <1>1, <1>4, <2>1
        <3>2. QED
            BY <1>4, <2>1, <3>1
    <2>6. QED
        BY <1>1, <1>4, <2>1, <2>4, <2>5
<1>8. sizes = IF AreDigits(size, 16) THEN {Meant(size, 16)} ELSE {}
    <2> HIDE DEF ends, size
    <2>1. CASE AreDigits(size, 16)
        <3>1. ends = {c}
            BY <1>6, <1>7, <2>1
        <3>2. QED
            BY <1>5, <2>1, <3>1
    <2>2. CASE ~AreDigits(size, 16)
        <3>1. ends = {}
            BY <1>6, <1>7, <2>2
        <3>2. QED
            BY <2>2, <3>1
    <2>3. QED
        BY <2>1, <2>2
<1>9. parsed = ParseNumber(size, 16, MaxBody)
    BY DEF ParseChunkSize, c
<1> HIDE DEF size, sizes, parsed
<1>10. /\ parsed.error = "None" <=> AreDigits(size, 16) /\ Meant(size, 16) <= MaxBody
       /\ parsed.error = "None" => parsed.bytes = Meant(size, 16)
       /\ AreDigits(size, 16) => Meant(size, 16) \in Nat
       /\ parsed.error \in {"None", "Malformed", "BodyTooLarge"}
    <2>1. 16 \in {10, 16}
        OBVIOUS
    <2>2. QED
        BY <1>2, <1>5, <1>9, <2>1, NumberReads, DigitsAreLegal
<1>11. CASE chunk.verdict = "None"
    <2>1. Len(text) <= MaxLine /\ sizes = {chunk.n} /\ chunk.n <= MaxBody
        BY <1>3, <1>11
    <2>2. AreDigits(size, 16) /\ Meant(size, 16) = chunk.n
        BY <1>8, <2>1
    <2>3. QED
        BY <1>10, <1>11, <2>1, <2>2 DEF text, parsed
<1>12. CASE chunk.verdict # "None"
    <2>1. Len(text) > MaxLine \/ ~(AreDigits(size, 16) /\ Meant(size, 16) <= MaxBody)
        <3>1. CASE Len(text) > MaxLine
            BY <3>1
        <3>2. CASE \A n \in sizes : n > MaxBody
            <4>1. AreDigits(size, 16) => Meant(size, 16) > MaxBody
                BY <1>8, <3>2
            <4>2. QED
                BY <1>2, <1>10, <4>1
        <3>3. QED
            BY <1>3, <1>12, <3>1, <3>2
    <2>2. ~(Len(text) <= MaxLine /\ parsed.error = "None")
        BY <1>1, <1>10, <2>1
    <2>3. QED
        BY <1>10, <1>12, <2>2 DEF text, parsed
<1>13. QED
    BY <1>11, <1>12

-----------------------------------------------------------------------------
(* The request line.                                                       *)

LEMMA PairOf ==
    ASSUME NEW n \in Nat, NEW S \in SUBSET (1..n)
    PROVE  Cardinality(S) = 2 <=> \E i, j \in S : i < j /\ S = {i, j}
<1>1. IsFiniteSet(S) /\ Cardinality(S) \in Nat
    BY FS_Interval, FS_Subset, FS_CardinalityType, 1 \in Int, n \in Int
<1>2. ASSUME Cardinality(S) = 2 PROVE \E i, j \in S : i < j /\ S = {i, j}
    <2>0. S # {}
        BY <1>1, <1>2, FS_EmptySet
    <2>1. PICK a \in S : TRUE
        BY <2>0
    <2>2. IsFiniteSet(S \ {a}) /\ Cardinality(S \ {a}) = 1
        BY <1>1, <1>2, <2>1, FS_RemoveElement
    <2>3. PICK b : S \ {a} = {b}
        BY <2>2, FS_Singleton
    <2>4. S = {a, b} /\ a # b /\ a \in 1..n /\ b \in 1..n
        BY <2>1, <2>3
    <2>5. a < b \/ b < a
        BY <2>4
    <2>6. QED
        BY <2>4, <2>5
<1>3. ASSUME NEW i \in S, NEW j \in S, i < j, S = {i, j} PROVE Cardinality(S) = 2
    <2>1. i # j
        BY <1>3
    <2>2. IsFiniteSet({i}) /\ Cardinality({i}) = 1
        BY FS_Singleton
    <2>3. j \notin {i} /\ {i} \cup {j} = S
        BY <1>3, <2>1
    <2>4. Cardinality({i} \cup {j}) = Cardinality({i}) + 1
        BY <2>2, <2>3, FS_AddElement
    <2>5. QED
        BY <2>2, <2>3, <2>4
<1>4. QED
    BY <1>2, <1>3

Sp2(line) == Find(line, Space) + Find(SubSeq(line, Find(line, Space) + 1, Len(line)), Space)

LEMMA PartBehind ==
    ASSUME NEW text \in Texts, NEW c \in 1..Len(text)
    PROVE  /\ Between(text, c, Len(text) + 1) = SubSeq(text, c + 1, Len(text))
           /\ SubSeq(text, c + 1, Len(text)) \in Texts
           /\ Len(SubSeq(text, c + 1, Len(text))) = Len(text) - c
           /\ \A i \in 1..(Len(text) - c) : SubSeq(text, c + 1, Len(text))[i] = text[c + i]
<1>1. Len(text) \in Nat /\ \A i \in 1..Len(text) : text[i] \in Tokens
    BY DEF Texts
<1>2. \A i \in (c + 1)..Len(text) : text[i] \in Tokens
    BY <1>1
<1>3. /\ SubSeq(text, c + 1, Len(text)) \in Seq(Tokens)
      /\ Len(SubSeq(text, c + 1, Len(text))) = IF c + 1 <= Len(text) THEN Len(text) - (c + 1) + 1 ELSE 0
      /\ \A i \in 1..(Len(text) - (c + 1) + 1) : SubSeq(text, c + 1, Len(text))[i] = text[c + 1 + i - 1]
    <2>1. c + 1 \in Int /\ Len(text) \in Int
        BY <1>1
    <2>2. QED
        BY <1>2, <2>1, SubSeqProperties
<1>4. Between(text, c, Len(text) + 1) = SubSeq(text, c + 1, Len(text))
    <2>1. (Len(text) + 1) - 1 = Len(text)
        BY <1>1
    <2>2. QED
        BY <2>1 DEF Between
<1>5. QED
    BY <1>1, <1>3, <1>4 DEF Texts

\* Where the only two spaces are, the loop finds them.
LEMMA SpacesFound ==
    ASSUME NEW line \in Texts, NEW i \in 1..Len(line), NEW j \in 1..Len(line), i < j,
           Positions(line, Space) = {i, j}
    PROVE  Find(line, Space) = i /\ Sp2(line) = j
<1>1. /\ Len(line) \in Nat
      /\ \A k \in 1..Len(line) : line[k] = Space <=> k \in {i, j}
    BY DEF Texts, Positions
<1>2. i \in 1..(Len(line) + 1) /\ (\A k \in 1..(i - 1) : line[k] # Space) /\ line[i] = Space
    BY <1>1
<1>3. Find(line, Space) = i
    BY <1>2, FindIs
<1> DEFINE rest == SubSeq(line, i + 1, Len(line))
<1>4. /\ rest \in Texts /\ Len(rest) = Len(line) - i
      /\ \A k \in 1..(Len(line) - i) : rest[k] = line[i + k]
    BY PartBehind
<1> HIDE DEF rest
<1>5. /\ j - i \in 1..(Len(rest) + 1)
      /\ \A k \in 1..((j - i) - 1) : rest[k] # Space
      /\ rest[j - i] = Space
    <2>1. j - i \in 1..(Len(line) - i) /\ i + (j - i) = j
        BY <1>1
    <2>2. ASSUME NEW k \in 1..((j - i) - 1) PROVE rest[k] # Space
        <3>1. k \in 1..(Len(line) - i) /\ i + k \in 1..Len(line) /\ i + k \notin {i, j}
            BY <1>1
        <3>2. QED
            BY <1>1, <1>4, <3>1
    <2>3. QED
        BY <1>1, <1>4, <2>1, <2>2
<1>6. Find(rest, Space) = j - i
    BY <1>4, <1>5, FindIs
<1>7. Sp2(line) = i + (j - i)
    BY <1>3, <1>6 DEF Sp2, rest
<1>8. QED
    BY <1>1, <1>3, <1>7

\* What the code asks of the shape of the line.
IsShaped(line) ==
    LET sp1 == Find(line, Space)
        sp2 == Sp2(line)
    IN /\ Cardinality(Positions(line, Space)) = 2
       /\ ~ContainsCtl(line)
       /\ <<>> \notin {Between(line, 0, sp1), Between(line, sp1, sp2), Between(line, sp2, Len(line) + 1)}

LEMMA ThreeParts ==
    ASSUME NEW line \in Texts, NEW i \in 1..Len(line), NEW j \in 1..Len(line), i < j
    PROVE  /\ Between(line, 0, i) = SubSeq(line, 1, i - 1)
           /\ Between(line, i, j) = SubSeq(line, i + 1, j - 1)
           /\ Between(line, j, Len(line) + 1) = SubSeq(line, j + 1, Len(line))
           /\ SubSeq(line, 1, i - 1) = <<>> <=> i = 1
           /\ SubSeq(line, i + 1, j - 1) = <<>> <=> j = i + 1
           /\ SubSeq(line, j + 1, Len(line)) = <<>> <=> j = Len(line)
<1>1. Len(line) \in Nat /\ \A k \in 1..Len(line) : line[k] \in Tokens
    BY DEF Texts
<1>2. /\ Between(line, 0, i) = SubSeq(line, 1, i - 1)
      /\ SubSeq(line, 1, i - 1) \in Texts /\ Len(SubSeq(line, 1, i - 1)) = i - 1
    <2>1. i \in 1..(Len(line) + 1)
        BY <1>1
    <2>2. QED
        BY <2>1, PartBefore
<1>3. /\ Between(line, j, Len(line) + 1) = SubSeq(line, j + 1, Len(line))
      /\ SubSeq(line, j + 1, Len(line)) \in Texts
      /\ Len(SubSeq(line, j + 1, Len(line))) = Len(line) - j
    BY PartBehind
<1>4. Between(line, i, j) = SubSeq(line, i + 1, j - 1)
    BY DEF Between
<1>5. SubSeq(line, i + 1, j - 1) = <<>> <=> j = i + 1
    <2>1. \A k \in (i + 1)..(j - 1) : line[k] \in Tokens
        BY <1>1
    <2>2. /\ SubSeq(line, i + 1, j - 1) \in Seq(Tokens)
          /\ Len(SubSeq(line, i + 1, j - 1)) = IF i + 1 <= j - 1 THEN (j - 1) - (i + 1) + 1 ELSE 0
        <3>1. i + 1 \in Int /\ j - 1 \in Int
            BY <1>1
        <3>2. QED
            BY <2>1, <3>1, SubSeqProperties
    <2>3. SubSeq(line, i + 1, j - 1) = <<>> <=> Len(SubSeq(line, i + 1, j - 1)) = 0
        BY <2>2, EmptySeq
    <2>4. QED
        BY <1>1, <2>2, <2>3
<1>6. SubSeq(line, 1, i - 1) = <<>> <=> i = 1
    <2>1. SubSeq(line, 1, i - 1) = <<>> <=> Len(SubSeq(line, 1, i - 1)) = 0
        BY <1>2, EmptySeq DEF Texts
    <2>2. QED
        BY <1>1, <1>2, <2>1
<1>7. SubSeq(line, j + 1, Len(line)) = <<>> <=> j = Len(line)
    <2>1. SubSeq(line, j + 1, Len(line)) = <<>> <=> Len(SubSeq(line, j + 1, Len(line))) = 0
        BY <1>3, EmptySeq DEF Texts
    <2>2. QED
        BY <1>1, <1>3, <2>1
<1>8. QED
    BY <1>2, <1>3, <1>4, <1>5, <1>6, <1>7

LEMMA CutWhereShaped ==
    ASSUME NEW line \in Texts
    PROVE  /\ \A i, j \in DOMAIN line : CutAt(line, i, j) =>
                 IsShaped(line) /\ i = Find(line, Space) /\ j = Sp2(line)
           /\ IsShaped(line) =>
                 /\ Find(line, Space) \in DOMAIN line /\ Sp2(line) \in DOMAIN line
                 /\ CutAt(line, Find(line, Space), Sp2(line))
<1>1. /\ Len(line) \in Nat /\ DOMAIN line = 1..Len(line)
      /\ Positions(line, Space) \in SUBSET (1..Len(line))
      /\ \A k \in 1..Len(line) : k \in Positions(line, Space) <=> line[k] = Space
    BY DEF Texts, Positions
<1>2. Cardinality(Positions(line, Space)) = 2 <=>
          \E i, j \in Positions(line, Space) : i < j /\ Positions(line, Space) = {i, j}
    BY <1>1, PairOf
<1>3. ASSUME NEW i \in DOMAIN line, NEW j \in DOMAIN line, CutAt(line, i, j)
      PROVE  IsShaped(line) /\ i = Find(line, Space) /\ j = Sp2(line)
    <2>1. /\ 1 < i /\ i + 1 < j /\ j < Len(line)
          /\ \A k \in DOMAIN line : line[k] \notin {Tab, Ctl} /\ (line[k] = Space <=> k \in {i, j})
        BY <1>3 DEF CutAt
    <2>2. i < j /\ i \in 1..Len(line) /\ j \in 1..Len(line)
        BY <1>1, <2>1
    <2>3. Positions(line, Space) = {i, j}
        BY <1>1, <2>1, <2>2
    <2>4. i = Find(line, Space) /\ j = Sp2(line)
        BY <2>2, <2>3, SpacesFound
    <2>5. ~ContainsCtl(line)
        BY <2>1 DEF ContainsCtl
    <2>6. /\ Between(line, 0, i) # <<>> /\ Between(line, i, j) # <<>>
          /\ Between(line, j, Len(line) + 1) # <<>>
        BY <1>1, <2>1, <2>2, ThreeParts
    <2>7. Cardinality(Positions(line, Space)) = 2
        BY <1>2, <2>2, <2>3
    <2>8. QED
        BY <2>4, <2>5, <2>6, <2>7 DEF IsShaped
<1>4. ASSUME IsShaped(line)
      PROVE  /\ Find(line, Space) \in DOMAIN line /\ Sp2(line) \in DOMAIN line
             /\ CutAt(line, Find(line, Space), Sp2(line))
    <2>1. PICK i, j \in Positions(line, Space) : i < j /\ Positions(line, Space) = {i, j}
        BY <1>2, <1>4 DEF IsShaped
    <2>2. i \in 1..Len(line) /\ j \in 1..Len(line)
        BY <1>1
    <2>3. Find(line, Space) = i /\ Sp2(line) = j
        BY <2>1, <2>2, SpacesFound
    <2>4. i # 1 /\ j # i + 1 /\ j # Len(line)
        <3>1. /\ Between(line, 0, i) # <<>> /\ Between(line, i, j) # <<>>
              /\ Between(line, j, Len(line) + 1) # <<>>
            BY <1>4, <2>3 DEF IsShaped
        <3>2. QED
            BY <2>1, <2>2, <3>1, ThreeParts
    <2>5. \A k \in DOMAIN line : line[k] \notin {Tab, Ctl}
        BY <1>4 DEF IsShaped, ContainsCtl
    <2>6. CutAt(line, i, j)
        <3>1. 1 < i /\ i + 1 < j /\ j < Len(line)
            <4>1. Len(line) \in Nat /\ i \in 1..Len(line) /\ j \in 1..Len(line) /\ i < j
                BY <1>1, <2>1, <2>2
            <4>2. QED
                BY <4>1, <2>4
        <3>2. \A k \in DOMAIN line : line[k] = Space <=> k \in {i, j}
            BY <1>1, <2>1
        <3>3. QED
            BY <2>5, <3>1, <3>2 DEF CutAt
    <2>7. QED
        BY <1>1, <2>2, <2>3, <2>6
<1>5. QED
    BY <1>3, <1>4

LEMMA VersionSays ==
    ASSUME NEW spoken
    PROVE  ParseVersion(spoken) =
               IF spoken = <<"HTTP/2.0">> THEN "UnsupportedVersion"
               ELSE IF spoken \notin {<<"HTTP/1.0">>, <<"HTTP/1.1">>} THEN "Malformed"
               ELSE "None"
<1>1. DOMAIN SpokenVersions = {"HTTP/1.0", "HTTP/1.1"}
    BY DEF SpokenVersions
<1>2. ShapedVersions = {"HTTP/1.0", "HTTP/1.1", "HTTP/2.0"}
    BY <1>1 DEF ShapedVersions
<1>3. {<<v>> : v \in ShapedVersions} = {<<"HTTP/1.0">>, <<"HTTP/1.1">>, <<"HTTP/2.0">>}
    BY <1>2
<1>4. CASE spoken = <<"HTTP/2.0">>
    BY <1>1, <1>3, <1>4 DEF ParseVersion
<1>5. CASE spoken \in {<<"HTTP/1.0">>, <<"HTTP/1.1">>}
    <2>1. spoken[1] \in {"HTTP/1.0", "HTTP/1.1"} /\ spoken # <<"HTTP/2.0">>
        BY <1>5
    <2>2. QED
        BY <1>1, <1>3, <1>5, <2>1 DEF ParseVersion
<1>6. CASE spoken \notin {<<"HTTP/1.0">>, <<"HTTP/1.1">>, <<"HTTP/2.0">>}
    BY <1>3, <1>6 DEF ParseVersion
<1>7. QED
    BY <1>4, <1>5, <1>6

LEMMA LineIsRead ==
    ASSUME NEW line \in Texts
    PROVE  ParseRequestLine(line) =
               IF ~IsShaped(line) THEN "Malformed"
               ELSE LineSays(Between(line, 0, Find(line, Space)),
                             Between(line, Find(line, Space), Sp2(line)),
                             Between(line, Sp2(line), Len(line) + 1))
<1> DEFINE sp1     == Find(line, Space)
           method  == Between(line, 0, sp1)
           target  == Between(line, sp1, Sp2(line))
           spoken  == Between(line, Sp2(line), Len(line) + 1)
           wrong   == \/ Cardinality(Positions(line, Space)) # 2
                      \/ ContainsCtl(line)
                      \/ <<>> \in {method, target, spoken}
<1>1. ParseRequestLine(line) =
          IF wrong THEN "Malformed"
          ELSE IF ParseVersion(spoken) # "None" THEN ParseVersion(spoken)
          ELSE IF ~HasValidEscapes(target) THEN "Malformed"
          ELSE IF method \notin {<<m>> : m \in Methods} THEN "UnknownMethod"
          ELSE "None"
    BY Zenon DEF ParseRequestLine, Sp2
<1>2. wrong <=> ~IsShaped(line)
    BY Zenon DEF IsShaped
<1> HIDE DEF wrong, method, target, spoken
<1>3. LineSays(method, target, spoken) =
          IF ParseVersion(spoken) # "None" THEN ParseVersion(spoken)
          ELSE IF ~HasValidEscapes(target) THEN "Malformed"
          ELSE IF method \notin {<<m>> : m \in Methods} THEN "UnknownMethod"
          ELSE "None"
    BY VersionSays DEF LineSays
<1>4. ParseRequestLine(line) = IF ~IsShaped(line) THEN "Malformed" ELSE LineSays(method, target, spoken)
    BY <1>1, <1>2, <1>3
<1>5. QED
    BY <1>4 DEF method, target, spoken

\* The reader makes of a request line what it means.
LEMMA LineReads ==
    ASSUME NEW m, m.line \in Seq(STRING), LineMeans(m)
    PROVE  /\ Len(m.line) > MaxLine => m.verdict = "LineTooLong"
           /\ Len(m.line) <= MaxLine => m.verdict = ParseRequestLine(m.line)
           /\ Len(m.line) <= MaxLine /\ m.verdict = "None" => m.version = VersionOf(m.line)
<1>1. m.line \in Texts /\ MaxLine \in Nat /\ Len(m.line) \in Nat
    BY SentTextsAreTexts, ReaderAssumption DEF ReaderAssumption
<1>2. CASE Len(m.line) > MaxLine
    BY <1>1, <1>2 DEF LineMeans
<1> DEFINE line == m.line
<1>3. CASE Len(m.line) <= MaxLine /\ \A i, j \in DOMAIN m.line : ~CutAt(m.line, i, j)
    <2>1. ~IsShaped(line)
        BY <1>1, <1>3, CutWhereShaped
    <2>2. ParseRequestLine(line) = "Malformed"
        BY <1>1, <2>1, LineIsRead
    <2>3. m.verdict = "Malformed"
        BY <1>1, <1>3 DEF LineMeans
    <2>4. QED
        BY <1>1, <1>3, <2>2, <2>3
<1>4. CASE Len(m.line) <= MaxLine /\ \E i, j \in DOMAIN m.line : CutAt(m.line, i, j)
    <2>1. PICK i, j \in DOMAIN line :
              /\ CutAt(line, i, j)
              /\ m.verdict = LineSays(SubSeq(line, 1, i - 1), SubSeq(line, i + 1, j - 1),
                                      SubSeq(line, j + 1, Len(line)))
              /\ m.verdict = "None" =>
                    m.version = IF line[j + 1] = "HTTP/1.0" THEN "Http10" ELSE "Http11"
        <3>1. ~(Len(m.line) > MaxLine)
            BY <1>1, <1>4
        <3>2. QED
            BY <1>4, <3>1, Zenon DEF LineMeans
    <2> HIDE DEF line
    <2>2. line \in Texts /\ DOMAIN line = 1..Len(line) /\ Len(line) \in Nat
        BY <1>1 DEF line, Texts
    <2>3. IsShaped(line) /\ i = Find(line, Space) /\ j = Sp2(line)
        BY <2>1, <2>2, CutWhereShaped
    <2>4. i < j /\ j < Len(line) /\ i \in 1..Len(line) /\ j \in 1..Len(line)
        BY <2>1, <2>2 DEF CutAt
    <2>5. /\ Between(line, 0, i) = SubSeq(line, 1, i - 1)
          /\ Between(line, i, j) = SubSeq(line, i + 1, j - 1)
          /\ Between(line, j, Len(line) + 1) = SubSeq(line, j + 1, Len(line))
        BY <2>2, <2>4, ThreeParts
    <2>6. m.verdict = ParseRequestLine(line)
        BY <2>1, <2>2, <2>3, <2>5, LineIsRead
    <2>7. ASSUME m.verdict = "None" PROVE m.version = VersionOf(line)
        <3> DEFINE spoken == SubSeq(line, j + 1, Len(line))
        <3>1. spoken \in {<<"HTTP/1.0">>, <<"HTTP/1.1">>}
            BY <2>1, <2>7 DEF LineSays
        <3>2. /\ Len(spoken) = Len(line) - j
              /\ \A k \in 1..(Len(line) - j) : spoken[k] = line[j + k]
            BY <2>2, <2>4, PartBehind
        <3> HIDE DEF spoken
        <3>3. Len(spoken) = 1 /\ spoken[1] \in {"HTTP/1.0", "HTTP/1.1"}
            BY <3>1
        <3>4. j + 1 = Len(line) /\ line[j + 1] = spoken[1]
            <4>1. Len(line) - j = 1
                BY <3>2, <3>3
            <4>2. 1 \in 1..(Len(line) - j) /\ j + 1 = Len(line)
                BY <2>2, <2>4, <4>1
            <4>3. QED
                BY <3>2, <4>2
        <3>5. Last(line) = line[Len(line)]
            BY DEF Last
        <3>6. SpokenVersions[line[j + 1]] = IF line[j + 1] = "HTTP/1.0" THEN "Http10" ELSE "Http11"
            BY <3>3, <3>4 DEF SpokenVersions
        <3>7. QED
            BY <2>1, <2>7, <3>4, <3>5, <3>6 DEF VersionOf
    <2>8. QED
        BY <1>1, <1>4, <2>6, <2>7 DEF line
<1>5. QED
    BY <1>1, <1>2, <1>3, <1>4

-----------------------------------------------------------------------------
(* Fields: what is trimmed, and what a list comes to.                      *)

\* What is trimmed from lo..hi: nothing but white space, or what runs from the
\* first to the last of the rest.
TrimsTo(text, lo, hi, trimmed) ==
    \/ (\A i \in lo..hi : IsOws(text[i])) /\ trimmed = <<>>
    \/ \E a, b \in lo..hi :
          /\ a <= b /\ ~IsOws(text[a]) /\ ~IsOws(text[b])
          /\ \A i \in (lo..hi) \ (a..b) : IsOws(text[i])
          /\ trimmed = SubSeq(text, a, b)

LEMMA TrimmedBetween ==
    ASSUME NEW text \in Texts, NEW first \in Nat, NEW last \in Nat,
           first < last, last <= Len(text) + 1
    PROVE  TrimsTo(text, first + 1, last - 1, Trimmed(Between(text, first, last)))
<1> DEFINE part  == Between(text, first, last)
           n     == last - first - 1
           solid == {i \in DOMAIN part : ~IsOws(part[i])}
<1>1. Len(text) \in Nat /\ n \in Nat /\ \A i \in 1..Len(text) : text[i] \in Tokens
    BY DEF Texts
<1>2. part \in Texts /\ Len(part) = n /\ \A i \in 1..n : part[i] = text[first + i]
    <2>1. (IF first + 1 <= last - 1 THEN last - first - 1 ELSE 0) = n
        OBVIOUS
    <2>2. QED
        BY <2>1, PartsAreTexts
<1>3. Trimmed(part) = IF solid = {} THEN <<>> ELSE SubSeq(part, Min(solid), Max(solid))
    BY DEF Trimmed
<1> HIDE DEF part
<1>4. DOMAIN part = 1..n
    BY <1>2 DEF Texts
<1>5. \A i \in (first + 1)..(last - 1) : i - first \in 1..n /\ first + (i - first) = i
    BY <1>1
<1>6. CASE solid = {}
    <2>1. ASSUME NEW i \in (first + 1)..(last - 1) PROVE IsOws(text[i])
        <3>1. i - first \in 1..n /\ text[i] = part[i - first]
            BY <1>2, <1>5
        <3>2. QED
            BY <1>4, <1>6, <3>1
    <2>2. QED
        BY <1>3, <1>6, <2>1 DEF part, TrimsTo
<1>7. CASE solid # {}
    <2>1. solid \subseteq 1..n /\ solid \subseteq 0..n /\ solid \subseteq Nat
        BY <1>1, <1>4
    <2>2. PICK lo \in solid : lo = Min(solid) /\ \A y \in solid : lo <= y
        BY <1>7, <2>1, MinIsLeast
    <2>3. PICK hi \in solid : hi = Max(solid) /\ \A y \in solid : hi >= y
        BY <1>1, <1>7, <2>1, MaxIsGreatest
    <2>4. lo \in 1..n /\ hi \in 1..n /\ lo <= hi
        BY <2>1, <2>2
    <2>5. /\ first + lo \in (first + 1)..(last - 1) /\ first + hi \in (first + 1)..(last - 1)
          /\ first + lo <= first + hi
        BY <1>1, <2>4
    <2>6. ~IsOws(text[first + lo]) /\ ~IsOws(text[first + hi])
        <3>1. ~IsOws(part[lo]) /\ ~IsOws(part[hi])
            BY <2>2, <2>3
        <3>2. QED
            BY <1>2, <2>4, <3>1
    <2>7. ASSUME NEW i \in ((first + 1)..(last - 1)) \ ((first + lo)..(first + hi)) PROVE IsOws(text[i])
        <3>1. i - first \in 1..n /\ text[i] = part[i - first]
            BY <1>2, <1>5
        <3>2. ~(lo <= i - first /\ i - first <= hi)
            BY <1>1, <2>4
        <3>3. i - first \notin solid
            BY <2>2, <2>3, <3>2
        <3>4. QED
            BY <1>4, <3>1, <3>3
    <2>8. SubSeq(part, lo, hi) = SubSeq(text, first + lo, first + hi)
        <3> DEFINE x == SubSeq(part, lo, hi)
                   y == SubSeq(text, first + lo, first + hi)
        <3>1. /\ x \in Seq(Tokens) /\ Len(x) = hi - lo + 1
              /\ \A i \in 1..(hi - lo + 1) : x[i] = part[lo + i - 1]
            <4>1. \A i \in lo..hi : part[i] \in Tokens
                BY <1>2, <2>4 DEF Texts
            <4>2. lo \in Int /\ hi \in Int /\ lo <= hi
                BY <2>4
            <4> HIDE DEF part
            <4>3. QED
                BY <4>1, <4>2, SubSeqProperties
        <3>2. /\ y \in Seq(Tokens) /\ Len(y) = (first + hi) - (first + lo) + 1
              /\ \A i \in 1..((first + hi) - (first + lo) + 1) : y[i] = text[(first + lo) + i - 1]
            <4>1. \A i \in (first + lo)..(first + hi) : text[i] \in Tokens
                BY <1>1, <2>5
            <4>2. first + lo \in Int /\ first + hi \in Int /\ first + lo <= first + hi
                BY <2>4, <2>5
            <4>3. QED
                BY <4>1, <4>2, SubSeqProperties
        <3> HIDE DEF x, y
        <3>3. (first + hi) - (first + lo) + 1 = hi - lo + 1
            BY <2>4
        <3>4. ASSUME NEW i \in 1..(hi - lo + 1) PROVE x[i] = y[i]
            <4>1. lo + i - 1 \in 1..n /\ first + (lo + i - 1) = (first + lo) + i - 1
                BY <2>4
            <4>2. part[lo + i - 1] = text[(first + lo) + i - 1]
                BY <1>2, <4>1
            <4>3. QED
                BY <3>1, <3>2, <3>3, <4>2
        <3>5. x = y
            <4>1. Len(x) = Len(y) /\ \A i \in 1..Len(x) : x[i] = y[i]
                BY <3>1, <3>2, <3>3, <3>4
            <4>2. QED
                BY <3>1, <3>2, <4>1, SeqEqual
        <3>6. QED
            BY <3>5 DEF x, y
    <2>9. Trimmed(part) = SubSeq(text, first + lo, first + hi)
        BY <1>3, <1>7, <2>2, <2>3, <2>8
    <2>10. QED
        BY <2>5, <2>6, <2>7, <2>9 DEF part, TrimsTo
<1>8. QED
    BY <1>6, <1>7

\* A piece of a text is a text, of as many tokens.
LEMMA PieceIsText ==
    ASSUME NEW text \in Texts, NEW a \in 1..Len(text), NEW b \in 1..Len(text), a <= b
    PROVE  /\ SubSeq(text, a, b) \in Texts /\ SubSeq(text, a, b) # <<>>
           /\ Len(SubSeq(text, a, b)) = b - a + 1 /\ DOMAIN SubSeq(text, a, b) = 1..(b - a + 1)
           /\ \A i \in 1..(b - a + 1) : SubSeq(text, a, b)[i] = text[a + i - 1]
<1>1. Len(text) \in Nat /\ \A i \in a..b : text[i] \in Tokens
    BY DEF Texts
<1>2. /\ SubSeq(text, a, b) \in Seq(Tokens)
      /\ Len(SubSeq(text, a, b)) = b - a + 1
      /\ \A i \in 1..(b - a + 1) : SubSeq(text, a, b)[i] = text[a + i - 1]
    <2>1. a \in Int /\ b \in Int
        BY <1>1
    <2>2. QED
        BY <1>1, <2>1, SubSeqProperties
<1>3. b - a + 1 # 0
    BY <1>1
<1>4. QED
    BY <1>2, <1>3 DEF Texts

\* What is chunked and nothing else, in either case.
LEMMA LoweredIsChunked ==
    ASSUME NEW text \in Texts
    PROVE  Lowered(text) = <<"chunked">> <=> Len(text) = 1 /\ text[1] \in {"chunked", "Chunked"}
<1>1. Len(text) \in Nat /\ DOMAIN text = 1..Len(text)
    BY DEF Texts
<1>2. /\ Lowered(text) \in Texts /\ Len(Lowered(text)) = Len(text)
      /\ \A i \in 1..Len(text) : Lowered(text)[i] = IF text[i] \in DOMAIN Folded THEN Folded[text[i]] ELSE text[i]
    BY <1>1, LoweredIsText DEF Lowered, Texts
<1>3. /\ DOMAIN Folded = {"Host", "Content-Length", "Chunked"}
      /\ Folded["Host"] = "host" /\ Folded["Content-Length"] = "content-length"
      /\ Folded["Chunked"] = "chunked"
    BY DEF Folded
<1> DEFINE lowered == Lowered(text)
<1> HIDE DEF lowered
<1>4. Len(text) = 1 => (lowered[1] = "chunked" <=> text[1] \in {"chunked", "Chunked"})
    <2>1. Len(text) = 1 => lowered[1] = IF text[1] \in DOMAIN Folded THEN Folded[text[1]] ELSE text[1]
        BY <1>2 DEF lowered
    <2>2. QED
        BY <1>3, <2>1
<1>5. lowered = <<"chunked">> <=> Len(lowered) = 1 /\ lowered[1] = "chunked"
    <2>1. lowered \in Seq(Tokens)
        BY <1>2 DEF lowered, Texts
    <2>2. QED
        BY <2>1
<1>6. QED
    BY <1>2, <1>4, <1>5 DEF lowered

-----------------------------------------------------------------------------
(* Lists.                                                                  *)

Ends(value, i)    == i > Len(value) \/ value[i] = Comma
LastEnd(value, i) == Max({0} \cup {j \in 1..i : Ends(value, j)})
Piece(value, i)   == Trimmed(Between(value, Max({0} \cup {j \in 1..(i - 1) : Ends(value, j)}), i))

\* One position more.
Further(list, value, i) ==
    IF Ends(value, i) /\ Piece(value, i) # <<>> THEN Append(list, Piece(value, i)) ELSE list

ElementsOf(f, value, n) == f = [i \in 0..n |-> IF i = 0 THEN <<>> ELSE Further(f[i - 1], value, i)]

LEMMA AListExists ==
    ASSUME NEW value, NEW n \in Nat
    PROVE  \E f : ElementsOf(f, value, n)
<1> DEFINE T == {k \in Nat : \E f : ElementsOf(f, value, k)}
<1>1. 0 \in T
    <2> DEFINE f == [i \in 0..0 |-> <<>>]
    <2>1. f = [i \in 0..0 |-> IF i = 0 THEN <<>> ELSE Further(f[i - 1], value, i)]
        OBVIOUS
    <2>2. QED
        BY <2>1 DEF ElementsOf
<1>2. ASSUME NEW k \in Nat, k \in T
      PROVE  k + 1 \in T
    <2>1. PICK f : ElementsOf(f, value, k)
        BY <1>2
    <2> DEFINE g == [i \in 0..(k + 1) |-> IF i = k + 1 THEN Further(f[k], value, k + 1) ELSE f[i]]
    <2>2. \A i \in 0..k : g[i] = f[i]
        OBVIOUS
    <2>3. ASSUME NEW i \in 0..(k + 1)
          PROVE  g[i] = IF i = 0 THEN <<>> ELSE Further(g[i - 1], value, i)
        <3>1. CASE i = k + 1
            <4>1. g[i] = Further(f[k], value, i) /\ g[i - 1] = f[k]
                BY <3>1
            <4>2. QED
                BY <3>1, <4>1
        <3>2. CASE i = 0
            BY <2>1, <3>2 DEF ElementsOf
        <3>3. CASE i \in 1..k
            <4>1. i - 1 \in 0..k /\ i \in 0..k
                BY <3>3
            <4>2. f[i] = Further(f[i - 1], value, i)
                BY <2>1, <3>3, <4>1 DEF ElementsOf
            <4>3. QED
                BY <2>2, <3>3, <4>1, <4>2
        <3>4. QED
            BY <3>1, <3>2, <3>3
    <2>4. ElementsOf(g, value, k + 1)
        <3>1. g = [i \in 0..(k + 1) |-> g[i]]
            OBVIOUS
        <3> HIDE DEF g
        <3>2. QED
            BY <2>3, <3>1 DEF ElementsOf
    <2>5. QED
        BY <2>4
<1>3. QED
    BY <1>1, <1>2, NatInductive

LEMMA ListUnfolds ==
    ASSUME NEW value, Len(value) \in Nat
    PROVE  \E f : ElementsOf(f, value, Len(value) + 1) /\ ListElements(value) = f[Len(value) + 1]
<1> DEFINE f == CHOOSE f : ElementsOf(f, value, Len(value) + 1)
<1>1. ListElements(value) = f[Len(value) + 1]
    BY DEF ListElements, ElementsOf, Further, Ends, Piece
<1>2. ElementsOf(f, value, Len(value) + 1)
    BY AListExists
<1>3. QED
    BY <1>1, <1>2

LEMMA LastEndIs ==
    ASSUME NEW value, NEW i \in Nat
    PROVE  /\ LastEnd(value, i) \in 0..i
           /\ LastEnd(value, 0) = 0
           /\ LastEnd(value, i + 1) = IF Ends(value, i + 1) THEN i + 1 ELSE LastEnd(value, i)
           /\ \A j \in (LastEnd(value, i) + 1)..i : ~Ends(value, j)
<1> DEFINE U(k) == {0} \cup {j \in 1..k : Ends(value, j)}
<1>1. \A k \in Nat : U(k) \subseteq 0..k /\ U(k) # {}
    OBVIOUS
<1>2. \A k \in Nat : LastEnd(value, k) \in U(k) /\ \A y \in U(k) : LastEnd(value, k) >= y
    <2>1. \A k : LastEnd(value, k) = Max(U(k))
        BY DEF LastEnd
    <2> HIDE DEF U
    <2>2. QED
        BY <1>1, <2>1, MaxIsGreatest
<1>3. LastEnd(value, i) \in 0..i /\ LastEnd(value, 0) = 0
    BY <1>1, <1>2
<1>4. Ends(value, i + 1) => LastEnd(value, i + 1) = i + 1
    <2> HAVE Ends(value, i + 1)
    <2>1. i + 1 \in U(i + 1) /\ i + 1 \in Nat
        OBVIOUS
    <2>2. LastEnd(value, i + 1) \in 0..(i + 1) /\ LastEnd(value, i + 1) >= i + 1
        BY <1>1, <1>2, <2>1
    <2>3. QED
        BY <2>2
<1>5. ~Ends(value, i + 1) => LastEnd(value, i + 1) = LastEnd(value, i)
    <2> HAVE ~Ends(value, i + 1)
    <2>1. U(i + 1) = U(i)
        OBVIOUS
    <2>2. LastEnd(value, i + 1) = Max(U(i + 1)) /\ LastEnd(value, i) = Max(U(i))
        BY DEF LastEnd
    <2> HIDE DEF U
    <2>3. QED
        BY <2>1, <2>2
<1>6. ASSUME NEW j \in (LastEnd(value, i) + 1)..i PROVE ~Ends(value, j)
    <2>1. j \in 1..i /\ ~(LastEnd(value, i) >= j)
        BY <1>3
    <2>2. j \notin U(i)
        BY <1>2, <2>1
    <2>3. QED
        BY <2>1, <2>2
<1>7. QED
    BY <1>3, <1>4, <1>5, <1>6

IsChunkedToken(token) == token \in {"chunked", "Chunked"}

\* What a list comes to, over the tokens in `at`: nothing but gaps, or
\* chunked and else nothing but gaps.
OnlyGaps(value, at) == \A k \in at : IsGap(value[k])
ChunkedAmongGaps(value, at) ==
    \E k \in at : IsChunkedToken(value[k]) /\ \A j \in at \ {k} : IsGap(value[j])

IsChunkedList(list) == Len(list) = 1 /\ Lowered(list[1]) = <<"chunked">>

ListSays(list, value, at) ==
    /\ list \in Seq(Texts)
    /\ list = <<>> <=> OnlyGaps(value, at)
    /\ IsChunkedList(list) <=> ChunkedAmongGaps(value, at)

LEMMA ChunkedIsNoGap == \A token : IsChunkedToken(token) => ~IsGap(token)
<1>1. \A token : IsGap(token) => token \in {Space, Tab, Comma}
    BY DEF IsGap, IsOws
<1>2. "chunked" \notin {Space, Tab, Comma} /\ "Chunked" \notin {Space, Tab, Comma}
    BY Zenon DEF Space, Tab, Comma
<1>3. QED
    BY <1>1, <1>2 DEF IsChunkedToken

\* Gaps add nothing to a list.
LEMMA GapsAddNothing ==
    ASSUME NEW value, NEW list, NEW at, NEW more,
           ListSays(list, value, at), \A k \in more : IsGap(value[k])
    PROVE  ListSays(list, value, at \cup more)
<1>1. OnlyGaps(value, at \cup more) <=> OnlyGaps(value, at)
    BY DEF OnlyGaps
<1>2. ASSUME ChunkedAmongGaps(value, at \cup more) PROVE ChunkedAmongGaps(value, at)
    <2>1. PICK k \in at \cup more :
              IsChunkedToken(value[k]) /\ \A j \in (at \cup more) \ {k} : IsGap(value[j])
        BY <1>2 DEF ChunkedAmongGaps
    <2>2. k \in at
        BY <2>1, ChunkedIsNoGap
    <2>3. QED
        BY <2>1, <2>2 DEF ChunkedAmongGaps
<1>3. ASSUME ChunkedAmongGaps(value, at) PROVE ChunkedAmongGaps(value, at \cup more)
    BY <1>3 DEF ChunkedAmongGaps
<1>4. QED
    BY <1>1, <1>2, <1>3 DEF ListSays

\* A piece adds itself: no gap of a comma is in it, and none at either end.
LEMMA PieceAddsItself ==
    ASSUME NEW value \in Texts, NEW list, NEW at, NEW more \in SUBSET (1..Len(value)),
           NEW a \in more, NEW b \in more, a <= b, a..b \subseteq more,
           ListSays(list, value, at), at \cap more = {},
           \A k \in more : value[k] # Comma,
           ~IsOws(value[a]), ~IsOws(value[b]),
           \A k \in more \ (a..b) : IsOws(value[k])
    PROVE  ListSays(Append(list, SubSeq(value, a, b)), value, at \cup more)
<1> DEFINE piece  == SubSeq(value, a, b)
           longer == Append(list, piece)
<1>1. /\ Len(value) \in Nat /\ a \in 1..Len(value) /\ b \in 1..Len(value) /\ a \in Nat /\ b \in Nat
      /\ list \in Seq(Texts)
    BY DEF Texts, ListSays
<1>2. /\ piece \in Texts /\ Len(piece) = b - a + 1
      /\ \A i \in 1..(b - a + 1) : piece[i] = value[a + i - 1]
    BY <1>1, PieceIsText
<1> HIDE DEF piece
<1>3. /\ longer \in Seq(Texts) /\ Len(longer) = Len(list) + 1 /\ longer # <<>>
      /\ list = <<>> => longer[1] = piece
    <2>1. list \in Seq(Texts) /\ piece \in Texts
        BY <1>1, <1>2
    <2>2. /\ longer \in Seq(Texts) /\ Len(longer) = Len(list) + 1
          /\ longer[Len(list) + 1] = piece
        BY <2>1, AppendProperties
    <2>3. list = <<>> => Len(list) + 1 = 1
        OBVIOUS
    <2>4. Len(list) \in Nat
        BY <2>1
    <2> HIDE DEF longer
    <2>5. longer # <<>>
        BY <2>2, <2>4
    <2>6. QED
        BY <2>2, <2>3, <2>5
<1> HIDE DEF longer
<1>4. ~IsGap(value[a]) /\ ~IsGap(value[b])
    BY DEF IsGap
<1>5. ~OnlyGaps(value, at \cup more)
    BY <1>4 DEF OnlyGaps
<1>6. Len(longer) = 1 <=> OnlyGaps(value, at)
    <2>1. Len(longer) = 1 <=> list = <<>>
        BY <1>1, <1>3
    <2>2. QED
        BY <2>1 DEF ListSays
<1>7. Lowered(piece) = <<"chunked">> <=> a = b /\ IsChunkedToken(value[a])
    <2>1. Lowered(piece) = <<"chunked">> <=> Len(piece) = 1 /\ piece[1] \in {"chunked", "Chunked"}
        BY <1>2, LoweredIsChunked
    <2>2. Len(piece) = 1 <=> a = b
        BY <1>1, <1>2
    <2>3. a = b => piece[1] = value[a]
        <3>1. a = b => 1 \in 1..(b - a + 1) /\ a + 1 - 1 = a
            BY <1>1
        <3>2. QED
            BY <1>2, <3>1
    <2>4. QED
        BY <2>1, <2>2, <2>3 DEF IsChunkedToken
<1>8. ASSUME IsChunkedList(longer) PROVE ChunkedAmongGaps(value, at \cup more)
    <2>1. OnlyGaps(value, at) /\ list = <<>> /\ longer[1] = piece
        BY <1>3, <1>6, <1>8 DEF IsChunkedList, ListSays
    <2>2. a = b /\ IsChunkedToken(value[a])
        BY <1>7, <1>8, <2>1 DEF IsChunkedList
    <2>3. \A j \in (at \cup more) \ {a} : IsGap(value[j])
        <3>1. a..b = {a}
            BY <1>1, <2>2
        <3>2. QED
            BY <2>1, <3>1 DEF OnlyGaps, IsGap
    <2>4. QED
        BY <2>2, <2>3 DEF ChunkedAmongGaps
<1>9. ASSUME ChunkedAmongGaps(value, at \cup more) PROVE IsChunkedList(longer)
    <2>1. PICK k \in at \cup more :
              IsChunkedToken(value[k]) /\ \A j \in (at \cup more) \ {k} : IsGap(value[j])
        BY <1>9 DEF ChunkedAmongGaps
    <2>2. k = a /\ k = b
        BY <1>4, <2>1
    <2>3. OnlyGaps(value, at)
        <3>1. k \notin at
            BY <2>2
        <3>2. QED
            BY <2>1, <3>1 DEF OnlyGaps
    <2>4. list = <<>> /\ Len(longer) = 1 /\ longer[1] = piece
        BY <1>3, <1>6, <2>3 DEF ListSays
    <2>5. QED
        BY <1>7, <2>1, <2>2, <2>4 DEF IsChunkedList
<1>10. QED
    BY <1>3, <1>5, <1>8, <1>9 DEF ListSays, longer, piece

\* A list is empty where it has only gaps, and chunked where it has chunked alone.
LEMMA ListSaysWhatIsWritten ==
    ASSUME NEW value \in Texts
    PROVE  ListSays(ListElements(value), value, 1..Len(value))
<1> DEFINE n == Len(value)
<1>1. n \in Nat
    BY DEF Texts
<1>2. PICK f : ElementsOf(f, value, n + 1) /\ ListElements(value) = f[n + 1]
    BY <1>1, ListUnfolds
<1>3. /\ f[0] = <<>>
      /\ \A i \in 0..n : f[i + 1] = IF Ends(value, i + 1) /\ Piece(value, i + 1) # <<>>
                                    THEN Append(f[i], Piece(value, i + 1)) ELSE f[i]
    <2>1. 0 \in 0..(n + 1) /\ \A i \in 0..n : i + 1 \in 0..(n + 1) /\ i + 1 # 0 /\ (i + 1) - 1 = i
        BY <1>1
    <2>2. f = [i \in 0..(n + 1) |-> IF i = 0 THEN <<>> ELSE Further(f[i - 1], value, i)]
        BY <1>2 DEF ElementsOf
    <2> HIDE DEF n
    <2>3. QED
        BY <2>1, <2>2 DEF Further
<1> DEFINE settled(i) == {k \in 1..n : k <= LastEnd(value, i)}
           T == {i \in Nat : i <= n + 1 => ListSays(f[i], value, settled(i))}
<1>4. 0 \in T
    <2>1. settled(0) = {}
        BY LastEndIs, 0 \in Nat
    <2>2. <<>> \in Seq(Texts) /\ Len(<<>>) = 0
        OBVIOUS
    <2>3. ListSays(<<>>, value, {})
        BY <2>2 DEF ListSays, OnlyGaps, ChunkedAmongGaps, IsChunkedList
    <2>4. QED
        BY <1>3, <2>1, <2>3
<1>5. ASSUME NEW i \in Nat, i \in T PROVE i + 1 \in T
    <2>1. SUFFICES ASSUME i + 1 <= n + 1 PROVE ListSays(f[i + 1], value, settled(i + 1))
        OBVIOUS
    <2>2. i \in 0..n /\ i + 1 \in Nat /\ (i + 1) - 1 = i
        BY <1>1, <2>1
    <2>3. PICK p \in 0..i : /\ p = LastEnd(value, i)
                            /\ LastEnd(value, i + 1) = IF Ends(value, i + 1) THEN i + 1 ELSE p
                            /\ \A j \in (p + 1)..i : ~Ends(value, j)
        BY LastEndIs
    <2>4. ListSays(f[i], value, settled(i))
        BY <1>1, <1>5, <2>1
    <2>5. CASE ~Ends(value, i + 1)
        <3>1. settled(i + 1) = settled(i) /\ f[i + 1] = f[i]
            BY <1>3, <2>2, <2>3, <2>5
        <3>2. QED
            BY <2>4, <3>1
    <2>6. CASE Ends(value, i + 1)
        <3> DEFINE inside == (p + 1)..i
                   comma  == {k \in 1..n : k = i + 1}
        <3>1. settled(i + 1) = (settled(i) \cup inside) \cup comma
            BY <1>1, <2>2, <2>3, <2>6
        <3>2. inside \in SUBSET (1..n) /\ settled(i) \cap inside = {}
            BY <1>1, <2>2, <2>3
        <3>3. \A k \in inside : value[k] # Comma
            BY <2>3 DEF Ends
        <3>4. \A k \in comma : IsGap(value[k])
            BY <1>1, <2>6 DEF Ends, IsGap
        <3>5. Piece(value, i + 1) = Trimmed(Between(value, p, i + 1))
            BY <2>2, <2>3 DEF Piece, LastEnd
        <3>6. \/ (\A k \in inside : IsOws(value[k])) /\ Piece(value, i + 1) = <<>>
              \/ \E a, b \in inside :
                    /\ a <= b /\ ~IsOws(value[a]) /\ ~IsOws(value[b])
                    /\ \A k \in inside \ (a..b) : IsOws(value[k])
                    /\ Piece(value, i + 1) = SubSeq(value, a, b)
            <4>1. PICK e \in Nat : e = i + 1 /\ p \in Nat /\ p < e /\ e <= Len(value) + 1
                BY <2>1, <2>3
            <4>2. TrimsTo(value, p + 1, e - 1, Trimmed(Between(value, p, e)))
                BY <4>1, TrimmedBetween
            <4>3. (p + 1)..(e - 1) = inside
                BY <2>2, <4>1
            <4> HIDE DEF inside
            <4>4. QED
                BY <3>5, <4>1, <4>2, <4>3 DEF TrimsTo
        <3> DEFINE before == settled(i)
        <3> HIDE DEF inside, comma, settled, n
        <3>7. ListSays(f[i + 1], value, before \cup inside)
            <4>1. CASE (\A k \in inside : IsOws(value[k])) /\ Piece(value, i + 1) = <<>>
                <5>1. f[i + 1] = f[i]
                    BY <1>3, <2>2, <4>1
                <5>2. \A k \in inside : IsGap(value[k])
                    BY <4>1 DEF IsGap
                <5>3. QED
                    BY <2>4, <5>1, <5>2, GapsAddNothing
            <4>2. ASSUME NEW a \in inside, NEW b \in inside,
                         a <= b, ~IsOws(value[a]), ~IsOws(value[b]),
                         \A k \in inside \ (a..b) : IsOws(value[k]),
                         Piece(value, i + 1) = SubSeq(value, a, b)
                  PROVE  ListSays(f[i + 1], value, before \cup inside)
                <5>1. a \in 1..Len(value) /\ b \in 1..Len(value) /\ a..b \subseteq inside
                    BY <1>1, <2>3, <3>2 DEF inside, n
                <5>2. SubSeq(value, a, b) # <<>>
                    BY <4>2, <5>1, PieceIsText
                <5>3. f[i + 1] = Append(f[i], SubSeq(value, a, b))
                    BY <1>3, <2>2, <2>6, <4>2, <5>2
                <5>4. inside \in SUBSET (1..Len(value))
                    BY <3>2 DEF n
                <5>5. ListSays(Append(f[i], SubSeq(value, a, b)), value, before \cup inside)
                    BY <2>4, <3>2, <3>3, <4>2, <5>1, <5>4, PieceAddsItself
                <5>6. QED
                    BY <5>3, <5>5
            <4>3. QED
                BY <3>6, <4>1, <4>2
        <3>8. ListSays(f[i + 1], value, (before \cup inside) \cup comma)
            BY <3>4, <3>7, GapsAddNothing
        <3>9. QED
            BY <3>1, <3>8
    <2>7. QED
        BY <2>5, <2>6
<1>6. Nat \subseteq T
    <2> HIDE DEF T
    <2> QED BY <1>4, <1>5, NatInductive
<1>7. settled(n + 1) = 1..n
    <2>1. n + 1 > Len(value)
        BY <1>1
    <2>2. LastEnd(value, n + 1) = n + 1
        BY <1>1, <2>1, LastEndIs DEF Ends
    <2>3. QED
        BY <1>1, <2>2
<1>8. n + 1 \in T
    <2>1. n + 1 \in Nat
        BY <1>1
    <2> HIDE DEF T
    <2>2. QED
        BY <1>6, <2>1
<1>9. ListSays(f[n + 1], value, settled(n + 1))
    <2>1. n + 1 <= n + 1
        BY <1>1
    <2> HIDE DEF settled
    <2>2. QED
        BY <1>8, <2>1
<1>10. QED
    BY <1>2, <1>7, <1>9

-----------------------------------------------------------------------------
(* Fields.                                                                 *)

LEMMA ColonIsFound ==
    ASSUME NEW text \in Texts
    PROVE  /\ IsHeaderField(text) => Find(text, ":") \in DOMAIN text /\ ColonAt(text, Find(text, ":"))
           /\ \A c \in DOMAIN text : ColonAt(text, c) => IsHeaderField(text) /\ c = Find(text, ":")
<1>1. Len(text) \in Nat /\ DOMAIN text = 1..Len(text)
    BY DEF Texts
<1> DEFINE colon == Find(text, ":")
<1>2. /\ colon \in 1..(Len(text) + 1) /\ \A i \in 1..(colon - 1) : text[i] # ":"
      /\ colon <= Len(text) => text[colon] = ":"
    BY FindFinds
<1>3. IsHeaderField(text) <=> /\ colon \in 2..Len(text)
                              /\ \A i \in 1..(colon - 1) : text[i] \notin Separators
                              /\ \A i \in colon..Len(text) : text[i] # Ctl
    BY DEF IsHeaderField
<1> HIDE DEF colon
<1>4. IsHeaderField(text) => colon \in DOMAIN text /\ ColonAt(text, colon)
    <2>1. colon \in 2..Len(text) => 1 < colon /\ colon \in 1..Len(text) /\ colon <= Len(text)
        BY <1>1
    <2>2. QED
        BY <1>1, <1>2, <1>3, <2>1 DEF ColonAt
<1>5. ASSUME NEW c \in DOMAIN text, ColonAt(text, c)
      PROVE  IsHeaderField(text) /\ c = colon
    <2>1. 1 < c /\ c \in 1..Len(text) /\ c \in 1..(Len(text) + 1) /\ text[c] = ":"
        BY <1>1, <1>5 DEF ColonAt
    <2>2. \A i \in 1..(c - 1) : text[i] # ":"
        BY <1>5 DEF ColonAt, Separators
    <2>3. c = colon
        BY <2>1, <2>2, FindIs DEF colon
    <2>4. colon \in 2..Len(text)
        BY <1>1, <2>1, <2>3
    <2>5. QED
        BY <1>3, <1>5, <2>3, <2>4 DEF ColonAt
<1>6. QED
    BY <1>4, <1>5 DEF colon

LEMMA DigitsAreSolid == \A token : IsDigit(token, 10) => ~IsOws(token)
BY NoneOfTheseIsADigit DEF IsOws

\* What runs behind a colon and is trimmed, or is all white space.
LEMMA ValueBehind ==
    ASSUME NEW text \in Texts, NEW c \in 1..Len(text)
    PROVE  LET behind  == (c + 1)..Len(text)
               trimmed == Trimmed(Between(text, c, Len(text) + 1))
           IN \/ (\A i \in behind : IsOws(text[i])) /\ trimmed = <<>>
              \/ \E a, b \in behind :
                    /\ a <= b /\ ~IsOws(text[a]) /\ ~IsOws(text[b])
                    /\ \A i \in behind \ (a..b) : IsOws(text[i])
                    /\ trimmed = SubSeq(text, a, b)
<1>1. Len(text) \in Nat
    BY DEF Texts
<1> DEFINE n == Len(text) + 1
<1>2. c \in Nat /\ n \in Nat /\ c < n /\ n <= Len(text) + 1
    BY <1>1
<1>3. n - 1 = Len(text)
    BY <1>1
<1> HIDE DEF n
<1>4. TrimsTo(text, c + 1, n - 1, Trimmed(Between(text, c, n)))
    BY <1>2, TrimmedBetween
<1>5. QED
    BY <1>3, <1>4 DEF n, TrimsTo

LEMMA LengthReads ==
    ASSUME NEW text \in Texts, NEW c \in 1..Len(text)
    PROVE  LET value == Trimmed(Between(text, c, Len(text) + 1))
           IN LengthAfter(text, c) = IF AreDigits(value, 10) THEN {Meant(value, 10)} ELSE {}
<1> DEFINE value  == Trimmed(Between(text, c, Len(text) + 1))
           behind == (c + 1)..Len(text)
           spans  == {s \in behind \X behind :
                        /\ s[1] <= s[2]
                        /\ AreDigits(SubSeq(text, s[1], s[2]), 10)
                        /\ \A i \in behind \ (s[1]..s[2]) : IsOws(text[i])}
<1>1. Len(text) \in Nat
    BY DEF Texts
<1>2. LengthAfter(text, c) = {Meant(SubSeq(text, s[1], s[2]), 10) : s \in spans}
    BY DEF LengthAfter
<1>3. \/ (\A i \in behind : IsOws(text[i])) /\ value = <<>>
      \/ \E a, b \in behind :
            /\ a <= b /\ ~IsOws(text[a]) /\ ~IsOws(text[b])
            /\ \A i \in behind \ (a..b) : IsOws(text[i])
            /\ value = SubSeq(text, a, b)
    BY ValueBehind
<1> HIDE DEF value
<1>4. ASSUME NEW s \in spans PROVE ~IsOws(text[s[1]]) /\ ~IsOws(text[s[2]])
    <2>1. PICK a \in behind, b \in behind : a = s[1] /\ b = s[2]
        OBVIOUS
    <2>2. a \in 1..Len(text) /\ b \in 1..Len(text) /\ a <= b /\ AreDigits(SubSeq(text, a, b), 10)
        BY <1>1, <2>1
    <2> DEFINE part == SubSeq(text, a, b)
    <2>3. DOMAIN part = 1..(b - a + 1) /\ \A i \in 1..(b - a + 1) : part[i] = text[a + i - 1]
        BY <2>2, PieceIsText
    <2>4. \A i \in DOMAIN part : IsDigit(part[i], 10)
        BY <2>2 DEF AreDigits
    <2> HIDE DEF part
    <2>5. /\ 1 \in 1..(b - a + 1) /\ a + 1 - 1 = a
          /\ b - a + 1 \in 1..(b - a + 1) /\ a + (b - a + 1) - 1 = b
        BY <2>2
    <2>6. IsDigit(text[a], 10) /\ IsDigit(text[b], 10)
        BY <2>3, <2>4, <2>5
    <2>7. QED
        BY <2>1, <2>6, DigitsAreSolid
<1>5. CASE (\A i \in behind : IsOws(text[i])) /\ value = <<>>
    <2>1. spans = {}
        BY <1>4, <1>5
    <2>2. ~AreDigits(value, 10)
        BY <1>5 DEF AreDigits
    <2>3. QED
        BY <1>2, <2>1, <2>2 DEF value
<1>6. ASSUME NEW a \in behind, NEW b \in behind,
             a <= b, ~IsOws(text[a]), ~IsOws(text[b]),
             \A i \in behind \ (a..b) : IsOws(text[i]),
             value = SubSeq(text, a, b)
      PROVE  LengthAfter(text, c) = IF AreDigits(value, 10) THEN {Meant(value, 10)} ELSE {}
    <2>1. <<a, b>> \in spans <=> AreDigits(value, 10)
        BY <1>6
    <2>2. ASSUME NEW s \in spans PROVE s = <<a, b>>
        <3>1. PICK d \in behind, e \in behind : s = <<d, e>>
            OBVIOUS
        <3>2. d <= e /\ \A i \in behind \ (d..e) : IsOws(text[i])
            BY <3>1
        <3>3. ~IsOws(text[d]) /\ ~IsOws(text[e])
            BY <1>4, <3>1
        <3>4. a \in d..e /\ b \in d..e /\ d \in a..b /\ e \in a..b
            BY <1>6, <3>2, <3>3
        <3>5. a = d /\ b = e
            BY <1>1, <3>4
        <3>6. QED
            BY <3>1, <3>5
    <2> HIDE DEF spans
    <2>3. CASE AreDigits(value, 10)
        <3>1. spans = {<<a, b>>}
            BY <2>1, <2>2, <2>3
        <3>2. <<a, b>>[1] = a /\ <<a, b>>[2] = b
            OBVIOUS
        <3>3. LengthAfter(text, c) = {Meant(SubSeq(text, a, b), 10)}
            BY <1>2, <3>1, <3>2
        <3>4. QED
            BY <1>6, <2>3, <3>3
    <2>4. CASE ~AreDigits(value, 10)
        <3>1. spans = {}
            BY <2>1, <2>2, <2>4
        <3>2. QED
            BY <1>2, <2>4, <3>1
    <2>5. QED
        BY <2>3, <2>4
<1>7. QED
    BY <1>3, <1>5, <1>6 DEF value

LEMMA CodingsRead ==
    ASSUME NEW text \in Texts, NEW c \in 1..Len(text), NEW codings, CodingsAfter(text, c, codings)
    PROVE  LET list == ListElements(Trimmed(Between(text, c, Len(text) + 1)))
           IN /\ list \in Seq(Texts)
              /\ codings = <<>> <=> list = <<>>
              /\ codings = <<"chunked">> <=> IsChunkedList(list)
<1> DEFINE value  == Trimmed(Between(text, c, Len(text) + 1))
           list   == ListElements(value)
           behind == (c + 1)..Len(text)
           at     == 1..Len(value)
<1>1. Len(text) \in Nat
    BY DEF Texts
<1>2. /\ codings = <<>> <=> \A i \in behind : IsGap(text[i])
      /\ codings = <<"chunked">> <=> \E k \in behind : /\ IsChunkedToken(text[k])
                                                       /\ \A i \in behind \ {k} : IsGap(text[i])
    BY DEF CodingsAfter, IsChunkedToken
<1>3. \/ (\A i \in behind : IsOws(text[i])) /\ value = <<>>
      \/ \E a, b \in behind :
            /\ a <= b /\ ~IsOws(text[a]) /\ ~IsOws(text[b])
            /\ \A i \in behind \ (a..b) : IsOws(text[i])
            /\ value = SubSeq(text, a, b)
    BY ValueBehind
<1>4. value \in Texts
    <2>1. c \in Nat /\ Len(text) + 1 \in Nat /\ Len(text) + 1 <= Len(text) + 1
        BY <1>1
    <2>2. QED
        BY <2>1, PartsAreTexts, TrimmedIsText
<1> HIDE DEF value
<1>5. /\ list \in Seq(Texts)
      /\ list = <<>> <=> OnlyGaps(value, at)
      /\ IsChunkedList(list) <=> ChunkedAmongGaps(value, at)
    BY <1>4, ListSaysWhatIsWritten DEF ListSays
<1> HIDE DEF list
<1>6. /\ OnlyGaps(value, at) <=> \A i \in behind : IsGap(text[i])
      /\ ChunkedAmongGaps(value, at) <=> \E k \in behind : /\ IsChunkedToken(text[k])
                                                          /\ \A i \in behind \ {k} : IsGap(text[i])
    <2>1. CASE (\A i \in behind : IsOws(text[i])) /\ value = <<>>
        <3>1. at = {}
            BY <2>1
        <3>2. \A i \in behind : IsGap(text[i]) /\ ~IsChunkedToken(text[i])
            BY <2>1, ChunkedIsNoGap DEF IsGap
        <3>3. OnlyGaps(value, at) /\ ~ChunkedAmongGaps(value, at)
            BY <3>1 DEF OnlyGaps, ChunkedAmongGaps
        <3>4. QED
            BY <3>2, <3>3
    <2>2. ASSUME NEW a \in behind, NEW b \in behind,
                 a <= b, ~IsOws(text[a]), ~IsOws(text[b]),
                 \A i \in behind \ (a..b) : IsOws(text[i]),
                 value = SubSeq(text, a, b)
          PROVE  <1>6!1 /\ <1>6!2
        <3>1. a \in 1..Len(text) /\ b \in 1..Len(text) /\ a..b \subseteq behind
            BY <1>1
        <3>2. Len(value) = b - a + 1 /\ \A i \in 1..(b - a + 1) : value[i] = text[a + i - 1]
            BY <2>2, <3>1, PieceIsText
        <3>3. \A i \in at : a + i - 1 \in a..b /\ value[i] = text[a + i - 1]
            BY <3>1, <3>2
        <3>4. \A i \in a..b : i - a + 1 \in at /\ value[i - a + 1] = text[i] /\ a + (i - a + 1) - 1 = i
            <4>1. \A i \in a..b : i - a + 1 \in 1..(b - a + 1) /\ a + (i - a + 1) - 1 = i
                BY <3>1
            <4>2. QED
                BY <3>2, <4>1
        <3>5. \A i \in behind \ (a..b) : IsGap(text[i])
            BY <2>2 DEF IsGap
        <3>6. OnlyGaps(value, at) <=> \A i \in behind : IsGap(text[i])
            <4>1. ASSUME OnlyGaps(value, at), NEW i \in behind PROVE IsGap(text[i])
                <5>1. CASE i \in a..b
                    BY <3>4, <4>1, <5>1 DEF OnlyGaps
                <5>2. QED
                    BY <3>5, <5>1
            <4>2. ASSUME \A i \in behind : IsGap(text[i]) PROVE OnlyGaps(value, at)
                BY <3>1, <3>3, <4>2 DEF OnlyGaps
            <4>3. QED
                BY <4>1, <4>2
        <3>7. ASSUME ChunkedAmongGaps(value, at)
              PROVE  \E k \in behind : IsChunkedToken(text[k]) /\ \A i \in behind \ {k} : IsGap(text[i])
            <4>1. PICK k \in at : IsChunkedToken(value[k]) /\ \A j \in at \ {k} : IsGap(value[j])
                BY <3>7 DEF ChunkedAmongGaps
            <4>2. a + k - 1 \in a..b /\ IsChunkedToken(text[a + k - 1])
                BY <3>3, <4>1
            <4>3. ASSUME NEW i \in behind \ {a + k - 1} PROVE IsGap(text[i])
                <5>1. CASE i \in a..b
                    <6>1. i - a + 1 # k
                        BY <3>1, <3>4, <5>1
                    <6>2. QED
                        BY <3>4, <4>1, <5>1, <6>1
                <5>2. QED
                    BY <3>5, <5>1
            <4>4. QED
                BY <3>1, <4>2, <4>3
        <3>8. ASSUME NEW k \in behind, IsChunkedToken(text[k]), \A i \in behind \ {k} : IsGap(text[i])
              PROVE  ChunkedAmongGaps(value, at)
            <4>1. k \in a..b
                BY <3>5, <3>8, ChunkedIsNoGap
            <4>2. k - a + 1 \in at /\ IsChunkedToken(value[k - a + 1])
                BY <3>4, <3>8, <4>1
            <4>3. ASSUME NEW j \in at \ {k - a + 1} PROVE IsGap(value[j])
                <5>1. a + j - 1 \in behind /\ value[j] = text[a + j - 1]
                    BY <3>1, <3>3
                <5>2. a + j - 1 # k
                    BY <3>1, <4>1
                <5>3. QED
                    BY <3>8, <5>1, <5>2
            <4>4. QED
                BY <4>2, <4>3 DEF ChunkedAmongGaps
        <3>9. QED
            BY <3>6, <3>7, <3>8
    <2>3. QED
        BY <1>3, <2>1, <2>2
<1>7. QED
    BY <1>2, <1>5, <1>6 DEF list, value

\* The reader makes of a field what it means.
LEMMA FieldReads ==
    ASSUME NEW f, f.text \in Seq(STRING), FieldMeans(f)
    PROVE  LET parsed == ParseHeaderField(f.text)
               list   == ListElements(parsed.value)
           IN /\ f.text # <<>>
              /\ f.verdict = "None" <=> Len(f.text) <= MaxLine /\ IsHeaderField(f.text)
              /\ f.verdict = "None" =>
                    /\ \A name \in FramingNames : f.name = name <=> parsed.name = <<name>>
                    /\ f.name = "content-length" =>
                          f.declares = IF AreDigits(parsed.value, 10) THEN {Meant(parsed.value, 10)} ELSE {}
                    /\ f.name = "transfer-encoding" =>
                          /\ list \in Seq(Texts)
                          /\ f.codings = <<>> <=> list = <<>>
                          /\ f.codings = <<"chunked">> <=> IsChunkedList(list)
<1> DEFINE text   == f.text
           parsed == ParseHeaderField(text)
           list   == ListElements(parsed.value)
           c      == Find(text, ":")
<1>1. text \in Texts
    BY SentTextsAreTexts
<1>2. Len(text) \in Nat /\ DOMAIN text = 1..Len(text)
    BY <1>1 DEF Texts
<1>3. /\ text # <<>>
      /\ f.verdict = "None" <=> Len(text) <= MaxLine /\ \E d \in DOMAIN text : ColonAt(text, d)
      /\ \A d \in DOMAIN text : f.verdict = "None" /\ ColonAt(text, d) =>
            /\ \A name \in FramingNames : f.name = name <=> Lowered(SubSeq(text, 1, d - 1)) = <<name>>
            /\ f.name = "content-length" => f.declares = LengthAfter(text, d)
            /\ f.name = "transfer-encoding" => CodingsAfter(text, d, f.codings)
    BY DEF FieldMeans
<1> HIDE DEF text
<1>4. /\ IsHeaderField(text) => c \in DOMAIN text /\ ColonAt(text, c)
      /\ \A d \in DOMAIN text : ColonAt(text, d) => IsHeaderField(text) /\ d = c
    BY <1>1, ColonIsFound
<1>5. parsed.name = Lowered(Between(text, 0, c)) /\ parsed.value = Trimmed(Between(text, c, Len(text) + 1))
    BY DEF ParseHeaderField
<1> HIDE DEF parsed, list, c
<1>6. f.verdict = "None" <=> Len(text) <= MaxLine /\ IsHeaderField(text)
    BY <1>3, <1>4
<1>7. ASSUME f.verdict = "None"
      PROVE  /\ \A name \in FramingNames : f.name = name <=> parsed.name = <<name>>
             /\ f.name = "content-length" =>
                   f.declares = IF AreDigits(parsed.value, 10) THEN {Meant(parsed.value, 10)} ELSE {}
             /\ f.name = "transfer-encoding" =>
                   /\ list \in Seq(Texts)
                   /\ f.codings = <<>> <=> list = <<>>
                   /\ f.codings = <<"chunked">> <=> IsChunkedList(list)
    <2>1. c \in 1..Len(text) /\ ColonAt(text, c) /\ c \in 1..(Len(text) + 1) /\ c \in DOMAIN text
        BY <1>2, <1>4, <1>6, <1>7
    <2>2. /\ \A name \in FramingNames : f.name = name <=> Lowered(SubSeq(text, 1, c - 1)) = <<name>>
          /\ f.name = "content-length" => f.declares = LengthAfter(text, c)
          /\ f.name = "transfer-encoding" => CodingsAfter(text, c, f.codings)
        BY <1>3, <1>7, <2>1
    <2>3. Between(text, 0, c) = SubSeq(text, 1, c - 1)
        BY <1>1, <2>1, PartBefore
    <2>4. \A name \in FramingNames : f.name = name <=> parsed.name = <<name>>
        BY <1>5, <2>2, <2>3
    <2>5. LengthAfter(text, c) = IF AreDigits(parsed.value, 10) THEN {Meant(parsed.value, 10)} ELSE {}
        BY <1>1, <1>5, <2>1, LengthReads
    <2>6. ASSUME CodingsAfter(text, c, f.codings)
          PROVE  /\ list \in Seq(Texts)
                 /\ f.codings = <<>> <=> list = <<>>
                 /\ f.codings = <<"chunked">> <=> IsChunkedList(list)
        <3>1. list = ListElements(Trimmed(Between(text, c, Len(text) + 1)))
            BY <1>5 DEF list
        <3>2. PICK codings : codings = f.codings
            OBVIOUS
        <3>3. CodingsAfter(text, c, codings)
            BY <2>6, <3>2
        <3>4. /\ list \in Seq(Texts)
              /\ codings = <<>> <=> list = <<>>
              /\ codings = <<"chunked">> <=> IsChunkedList(list)
            BY <1>1, <2>1, <3>1, <3>3, CodingsRead
        <3>5. QED
            BY <3>2, <3>4
    <2>7. QED
        BY <2>2, <2>4, <2>5, <2>6
<1>8. QED
    BY <1>3, <1>6, <1>7 DEF text, parsed, list

-----------------------------------------------------------------------------
(* Lists of lists, of which at most one has anything on it.                *)

LEMMA ConcatIsEmpty ==
    ASSUME NEW S, NEW s \in Seq(S), NEW t \in Seq(S)
    PROVE  /\ s \o t \in Seq(S) /\ Len(s \o t) = Len(s) + Len(t)
           /\ s \o t = <<>> <=> s = <<>> /\ t = <<>>
           /\ Len(s \o t) = 1 <=> (Len(s) = 1 /\ t = <<>>) \/ (s = <<>> /\ Len(t) = 1)
           /\ t = <<>> => s \o t = s
           /\ s = <<>> => s \o t = t
<1>1. s \o t \in Seq(S) /\ Len(s \o t) = Len(s) + Len(t)
    BY ConcatProperties
<1>2. /\ s \o t = <<>> <=> Len(s \o t) = 0
      /\ s = <<>> <=> Len(s) = 0
      /\ t = <<>> <=> Len(t) = 0
    BY <1>1, EmptySeq
<1>3. Len(s) \in Nat /\ Len(t) \in Nat
    OBVIOUS
<1>4. (t = <<>> => s \o t = s) /\ (s = <<>> => s \o t = t)
    BY ConcatEmptySeq
<1> DEFINE st == s \o t
<1> HIDE DEF st
<1>5. st = <<>> <=> s = <<>> /\ t = <<>>
    BY <1>1, <1>2, <1>3 DEF st
<1>6. Len(st) = 1 <=> (Len(s) = 1 /\ t = <<>>) \/ (s = <<>> /\ Len(t) = 1)
    <2>1. Len(st) = Len(s) + Len(t)
        BY <1>1 DEF st
    <2>2. Len(st) = 1 <=> (Len(s) = 1 /\ Len(t) = 0) \/ (Len(s) = 0 /\ Len(t) = 1)
        <3>1. PICK p \in Nat, q \in Nat : p = Len(s) /\ q = Len(t)
            BY <1>3
        <3>2. p + q = 1 <=> (p = 1 /\ q = 0) \/ (p = 0 /\ q = 1)
            OBVIOUS
        <3>3. QED
            BY <2>1, <3>1, <3>2
    <2>3. QED
        BY <1>2, <2>2
<1>7. QED
    BY <1>1, <1>4, <1>5, <1>6 DEF st

\* What a flattened list says of the lists in `at`.
FlatSays(S, seqs, flat, at) ==
    /\ flat \in Seq(S)
    /\ flat = <<>> <=> \A i \in at : seqs[i] = <<>>
    /\ Len(flat) = 1 => \E i \in at : Len(seqs[i]) = 1 /\ \A j \in at \ {i} : seqs[j] = <<>>
    /\ \A i \in at : (\A j \in at \ {i} : seqs[j] = <<>>) => flat = seqs[i]

LEMMA OneMoreList ==
    ASSUME NEW S, NEW seqs, NEW t, NEW old, NEW a, a \notin old, seqs[a] \in Seq(S),
           FlatSays(S, seqs, t, old)
    PROVE  FlatSays(S, seqs, seqs[a] \o t, {a} \cup old)
<1> DEFINE s    == seqs[a]
           flat == s \o t
<1>1. /\ t \in Seq(S)
      /\ t = <<>> <=> \A i \in old : seqs[i] = <<>>
      /\ Len(t) = 1 => \E i \in old : Len(seqs[i]) = 1 /\ \A j \in old \ {i} : seqs[j] = <<>>
      /\ \A i \in old : (\A j \in old \ {i} : seqs[j] = <<>>) => t = seqs[i]
    BY DEF FlatSays
<1>2. /\ flat \in Seq(S)
      /\ flat = <<>> <=> s = <<>> /\ t = <<>>
      /\ Len(flat) = 1 <=> (Len(s) = 1 /\ t = <<>>) \/ (s = <<>> /\ Len(t) = 1)
      /\ t = <<>> => flat = s
      /\ s = <<>> => flat = t
    <2>1. s \in Seq(S) /\ t \in Seq(S)
        BY <1>1
    <2> HIDE DEF s
    <2>2. QED
        BY <2>1, ConcatIsEmpty
<1> HIDE DEF flat
<1>3. flat = <<>> <=> \A i \in {a} \cup old : seqs[i] = <<>>
    BY <1>1, <1>2
<1>4. ASSUME Len(flat) = 1
      PROVE  \E i \in {a} \cup old : Len(seqs[i]) = 1 /\ \A j \in ({a} \cup old) \ {i} : seqs[j] = <<>>
    <2>1. CASE Len(s) = 1 /\ t = <<>>
        BY <1>1, <2>1
    <2>2. CASE s = <<>> /\ Len(t) = 1
        BY <1>1, <2>2
    <2>3. QED
        BY <1>2, <1>4, <2>1, <2>2
<1>5. ASSUME NEW i \in {a} \cup old, \A j \in ({a} \cup old) \ {i} : seqs[j] = <<>>
      PROVE  flat = seqs[i]
    <2>1. CASE i = a
        BY <1>1, <1>2, <1>5, <2>1
    <2>2. CASE i \in old
        <3>1. s = <<>> /\ t = seqs[i]
            BY <1>1, <1>5, <2>2
        <3>2. QED
            BY <1>2, <3>1
    <2>3. QED
        BY <2>1, <2>2
<1>6. QED
    BY <1>2, <1>3, <1>4, <1>5 DEF FlatSays, flat

LEMMA FlattenSays ==
    ASSUME NEW S, NEW seqs \in Seq(Seq(S))
    PROVE  FlatSays(S, seqs, FlattenSeq(seqs), 1..Len(seqs))
<1> DEFINE F(k) == FlattenSeq(From(seqs, k))
<1>1. PICK n \in Nat : n = Len(seqs)
    OBVIOUS
<1> DEFINE T == {k \in Nat : k <= n => FlatSays(S, seqs, F(n - k), (n - k + 1)..n)}
<1>2. F(n) = <<>> /\ F(0) = FlattenSeq(seqs)
    <2> DEFINE SS == Seq(S)
    <2>1. seqs \in Seq(SS)
        OBVIOUS
    <2> HIDE DEF SS
    <2>2. From(seqs, n) = <<>> /\ From(seqs, 0) = seqs
        BY <1>1, <2>1, FromTheStart, FromTheEnd
    <2>3. QED
        BY <2>2, FlattenNone
<1>3. \A k \in Nat : k < n => F(k) = seqs[k + 1] \o F(k + 1)
    BY <1>1, FlattenNext
<1>4. \A i \in 1..n : seqs[i] \in Seq(S)
    BY <1>1
<1> HIDE DEF F
<1>5. 0 \in T
    <2>1. n - 0 = n /\ (n - 0 + 1)..n = {}
        OBVIOUS
    <2>2. <<>> \in Seq(S) /\ Len(<<>>) = 0
        OBVIOUS
    <2>3. FlatSays(S, seqs, <<>>, {})
        BY <2>2 DEF FlatSays
    <2>4. QED
        BY <1>2, <2>1, <2>3
<1>6. ASSUME NEW k \in Nat, k \in T PROVE k + 1 \in T
    <2>1. SUFFICES ASSUME k + 1 <= n
                   PROVE  FlatSays(S, seqs, F(n - (k + 1)), (n - (k + 1) + 1)..n)
        OBVIOUS
    <2>2. PICK a \in 1..n : a = n - k
        BY <2>1
    <2>3. /\ n - (k + 1) = a - 1 /\ a - 1 \in Nat /\ a - 1 < n /\ (a - 1) + 1 = a
          /\ n - (k + 1) + 1 = a /\ k <= n
        BY <2>1, <2>2
    <2>4. F(a - 1) = seqs[a] \o F(a)
        BY <1>3, <2>3
    <2>5. FlatSays(S, seqs, F(a), (a + 1)..n)
        BY <1>6, <2>2, <2>3
    <2>6. a..n = {a} \cup ((a + 1)..n) /\ a \notin (a + 1)..n
        BY <2>2
    <2>7. FlatSays(S, seqs, seqs[a] \o F(a), {a} \cup ((a + 1)..n))
        BY <1>4, <2>5, <2>6, OneMoreList
    <2>8. QED
        BY <2>3, <2>4, <2>6, <2>7
<1>7. Nat \subseteq T
    <2> HIDE DEF T
    <2> QED BY <1>5, <1>6, NatInductive
<1>8. FlatSays(S, seqs, F(0), 1..n)
    <2>1. n \in T
        BY <1>7
    <2>2. n <= n /\ n - n = 0 /\ n - n + 1 = 1
        OBVIOUS
    <2>3. QED
        BY <2>1, <2>2
<1>9. QED
    BY <1>1, <1>2, <1>8

-----------------------------------------------------------------------------
(* What the head comes to.                                                 *)

AllLegal(parts, n) == \A i \in 1..n : parts[i].verdict = "None"

Parsed(m, n) == [i \in 1..n |-> ParseHeaderField(m.fields[i].text)]

\* All of the fields have been read, and are those of this message.
HeadIsRead(m) ==
    /\ IsMessage(m) /\ Means(m)
    /\ AllLegal(m.fields, Len(m.fields))
    /\ headers = Parsed(m, Len(m.fields))
    /\ version = m.version

LEMMA ReadFieldsAre ==
    ASSUME NEW m, IsMessage(m), Means(m), NEW i \in 1..Len(m.fields)
    PROVE  m.fields[i].text \in Seq(STRING) /\ m.fields[i].text \in Texts /\ FieldMeans(m.fields[i])
<1>1. m.fields[i].text \in Seq(STRING) /\ m.fields[i] \in Range(m.fields)
    BY PartsOfAMessage
<1>2. QED
    BY <1>1, SentTextsAreTexts DEF Means

LEMMA HeadersAre ==
    ASSUME NEW m, HeadIsRead(m)
    PROVE  /\ Len(m.fields) \in Nat
           /\ DOMAIN headers = 1..Len(m.fields) /\ DOMAIN m.fields = 1..Len(m.fields)
           /\ \A i \in 1..Len(m.fields) :
                 /\ headers[i] = ParseHeaderField(m.fields[i].text)
                 /\ headers[i].value \in Texts
                 /\ m.fields[i].verdict = "None"
           /\ \A name \in FramingNames :
                 /\ Named(name) = FieldsNamed(m, name)
                 /\ Named(name) \in SUBSET (1..Len(m.fields))
                 /\ IsFiniteSet(Named(name)) /\ CountOf(name) \in Nat
                 /\ CountOf(name) = 0 <=> Named(name) = {}
<1>1. IsMessage(m) /\ Means(m) /\ AllLegal(m.fields, Len(m.fields))
    BY DEF HeadIsRead
<1>2. Len(m.fields) \in Nat /\ DOMAIN m.fields = 1..Len(m.fields)
    BY <1>1, PartsOfAMessage
<1>3. /\ DOMAIN headers = 1..Len(m.fields)
      /\ \A i \in 1..Len(m.fields) : headers[i] = ParseHeaderField(m.fields[i].text)
    BY DEF HeadIsRead, Parsed
<1>4. \A i \in 1..Len(m.fields) : m.fields[i].verdict = "None"
    BY <1>1 DEF AllLegal
<1>5. ASSUME NEW i \in 1..Len(m.fields) PROVE headers[i].value \in Texts
    <2>1. m.fields[i].text \in Seq(STRING) /\ m.fields[i].text \in Texts /\ FieldMeans(m.fields[i])
        BY <1>1, ReadFieldsAre
    <2>2. IsHeaderField(m.fields[i].text)
        BY <1>4, <2>1, FieldReads
    <2>3. QED
        BY <1>3, <2>1, <2>2, ParsedFieldIsAField DEF HeaderFields
<1>6. ASSUME NEW name \in FramingNames PROVE Named(name) = FieldsNamed(m, name)
    <2>1. ASSUME NEW i \in 1..Len(m.fields)
          PROVE  m.fields[i].name = name <=> headers[i].name = <<name>>
        <3>1. m.fields[i].text \in Seq(STRING) /\ FieldMeans(m.fields[i])
            BY <1>1, ReadFieldsAre
        <3>2. PICK f : f = m.fields[i]
            OBVIOUS
        <3>3. f.name = name <=> ParseHeaderField(f.text).name = <<name>>
            BY <1>4, <3>1, <3>2, FieldReads
        <3>4. QED
            BY <1>3, <3>2, <3>3
    <2>2. QED
        BY <1>2, <1>3, <2>1 DEF Named, FieldsNamed
<1>7. ASSUME NEW name \in FramingNames
      PROVE  /\ Named(name) \in SUBSET (1..Len(m.fields))
             /\ IsFiniteSet(Named(name)) /\ CountOf(name) \in Nat
             /\ CountOf(name) = 0 <=> Named(name) = {}
    <2>1. Named(name) \in SUBSET (1..Len(m.fields))
        BY <1>3 DEF Named
    <2>2. IsFiniteSet(1..Len(m.fields))
        BY <1>2, FS_Interval, 1 \in Int
    <2>3. IsFiniteSet(Named(name))
        BY <2>1, <2>2, FS_Subset
    <2>4. QED
        BY <2>1, <2>3, FS_CardinalityType, FS_EmptySet DEF CountOf
<1>8. QED
    BY <1>2, <1>3, <1>4, <1>5, <1>6, <1>7

LEMMA HostReads ==
    ASSUME NEW m, HeadIsRead(m), m.version \in {"Http10", "Http11"}
    PROVE  HostIsWrong <=>
               Cardinality(FieldsNamed(m, "host")) \notin (IF m.version = "Http11" THEN {1} ELSE {0, 1})
<1>1. "host" \in FramingNames
    BY DEF FramingNames
<1>2. CountOf("host") = Cardinality(FieldsNamed(m, "host")) /\ CountOf("host") \in Nat
    BY <1>1, HeadersAre DEF CountOf
<1>3. version = m.version
    BY DEF HeadIsRead
<1>4. QED
    BY <1>2, <1>3 DEF HostIsWrong

\* chunked once, last, and nothing else: a list of chunked alone.
LEMMA ChunkedAloneOnTheList ==
    ASSUME NEW codings \in Seq(Texts)
    PROVE  LET isChunked(coding) == Lowered(coding) = <<"chunked">>
               wrong == \/ codings = <<>> \/ ~isChunked(Last(codings))
                        \/ Cardinality({i \in DOMAIN codings : isChunked(codings[i])}) > 1
           IN ~wrong /\ ~(Len(codings) > 1) <=> IsChunkedList(codings)
<1> DEFINE chunked == {i \in DOMAIN codings : Lowered(codings[i]) = <<"chunked">>}
<1>1. Len(codings) \in Nat /\ DOMAIN codings = 1..Len(codings) /\ (codings = <<>> <=> Len(codings) = 0)
    OBVIOUS
<1>2. Len(codings) = 1 => Last(codings) = codings[1]
    BY DEF Last
<1>3. IsChunkedList(codings) => Cardinality(chunked) = 1
    <2> HAVE IsChunkedList(codings)
    <2>1. chunked = {1}
        BY <1>1 DEF IsChunkedList
    <2>2. Cardinality({1}) = 1
        BY FS_Singleton
    <2> HIDE DEF chunked
    <2>3. QED
        BY <2>1, <2>2
<1> HIDE DEF chunked
<1>4. ~(codings = <<>> \/ ~(Lowered(Last(codings)) = <<"chunked">>) \/ Cardinality(chunked) > 1)
          /\ ~(Len(codings) > 1)
      => IsChunkedList(codings)
    <2> HAVE ~(codings = <<>> \/ ~(Lowered(Last(codings)) = <<"chunked">>) \/ Cardinality(chunked) > 1)
                /\ ~(Len(codings) > 1)
    <2>1. Len(codings) = 1
        BY <1>1
    <2>2. QED
        BY <1>2, <2>1 DEF IsChunkedList
<1>5. IsChunkedList(codings) =>
          ~(codings = <<>> \/ ~(Lowered(Last(codings)) = <<"chunked">>) \/ Cardinality(chunked) > 1)
          /\ ~(Len(codings) > 1)
    <2> HAVE IsChunkedList(codings)
    <2>1. Len(codings) = 1 /\ Lowered(codings[1]) = <<"chunked">>
        BY DEF IsChunkedList
    <2>2. codings # <<>> /\ ~(Len(codings) > 1)
        BY <1>1, <2>1
    <2>3. ~(Cardinality(chunked) > 1)
        BY <1>3
    <2>4. QED
        BY <1>2, <2>1, <2>2, <2>3
<1>6. QED
    BY <1>4, <1>5 DEF chunked

LEMMA CodingsReads ==
    ASSUME NEW m, HeadIsRead(m)
    PROVE  Codings \in Seq(Texts) /\ (IsChunkedList(Codings) <=> ChunkedAlone(m))
<1> DEFINE n     == Len(m.fields)
           te    == Named("transfer-encoding")
           lists == [i \in DOMAIN headers |->
                        IF i \in te THEN ListElements(headers[i].value) ELSE <<>>]
<1>1. "transfer-encoding" \in FramingNames
    BY DEF FramingNames
<1>2. /\ n \in Nat /\ DOMAIN headers = 1..n
      /\ te = FieldsNamed(m, "transfer-encoding") /\ te \in SUBSET (1..n)
      /\ \A i \in 1..n : /\ headers[i] = ParseHeaderField(m.fields[i].text)
                         /\ headers[i].value \in Texts /\ m.fields[i].verdict = "None"
    BY <1>1, HeadersAre
<1>3. \A i \in 1..n : ListElements(headers[i].value) \in Seq(Texts)
    BY <1>2, ListSaysWhatIsWritten DEF ListSays
<1>4. Codings = FlattenSeq(lists)
    BY DEF Codings
<1>5. \A i \in te : m.fields[i].name = "transfer-encoding"
    BY <1>2 DEF FieldsNamed
<1> HIDE DEF n, te
<1>6. /\ lists \in Seq(Seq(Texts)) /\ Len(lists) = n
      /\ \A i \in 1..n : lists[i] = IF i \in te THEN ListElements(headers[i].value) ELSE <<>>
    <2>1. \A i \in 1..n : (IF i \in te THEN ListElements(headers[i].value) ELSE <<>>) \in Seq(Texts)
        BY <1>3
    <2>2. QED
        BY <1>2, <2>1
<1> HIDE DEF lists
<1>7. FlatSays(Texts, lists, Codings, 1..n)
    BY <1>4, <1>6, FlattenSays
<1>8. ASSUME NEW i \in te
      PROVE  /\ i \in 1..n /\ lists[i] \in Seq(Texts)
             /\ m.fields[i].codings = <<>> <=> lists[i] = <<>>
             /\ m.fields[i].codings = <<"chunked">> <=> IsChunkedList(lists[i])
    <2>1. i \in 1..n
        BY <1>2
    <2>2. m.fields[i].text \in Seq(STRING) /\ FieldMeans(m.fields[i])
        BY <2>1, ReadFieldsAre DEF HeadIsRead, n
    <2>3. m.fields[i].verdict = "None" /\ m.fields[i].name = "transfer-encoding"
        BY <1>2, <1>5, <2>1
    <2> DEFINE list == ListElements(ParseHeaderField(m.fields[i].text).value)
    <2>4. /\ list \in Seq(Texts)
          /\ m.fields[i].codings = <<>> <=> list = <<>>
          /\ m.fields[i].codings = <<"chunked">> <=> IsChunkedList(list)
        BY <2>2, <2>3, FieldReads
    <2>5. lists[i] = list
        BY <1>2, <1>6, <2>1
    <2> HIDE DEF list
    <2>6. QED
        BY <2>1, <2>4, <2>5
<1>9. \A i \in (1..n) \ te : lists[i] = <<>>
    BY <1>6
<1>10. /\ Codings \in Seq(Texts)
       /\ Len(Codings) = 1 => \E i \in 1..n : Len(lists[i]) = 1 /\ \A j \in (1..n) \ {i} : lists[j] = <<>>
       /\ \A i \in 1..n : (\A j \in (1..n) \ {i} : lists[j] = <<>>) => Codings = lists[i]
    BY <1>7 DEF FlatSays
<1>11. ChunkedAlone(m) <=>
          \E i \in te : /\ m.fields[i].codings = <<"chunked">>
                        /\ \A j \in te \ {i} : m.fields[j].codings = <<>>
    BY <1>2 DEF ChunkedAlone
<1>12. ASSUME IsChunkedList(Codings) PROVE ChunkedAlone(m)
    <2>1. PICK i \in 1..n : Len(lists[i]) = 1 /\ \A j \in (1..n) \ {i} : lists[j] = <<>>
        BY <1>10, <1>12 DEF IsChunkedList
    <2>2. Codings = lists[i] /\ lists[i] # <<>>
        <3>1. lists[i] # <<>>
            BY <2>1
        <3>2. QED
            BY <1>10, <2>1, <3>1
    <2>3. i \in te
        BY <1>9, <2>2
    <2>4. m.fields[i].codings = <<"chunked">>
        BY <1>8, <1>12, <2>2, <2>3
    <2>5. \A j \in te \ {i} : m.fields[j].codings = <<>>
        BY <1>8, <2>1
    <2>6. QED
        BY <1>11, <2>3, <2>4, <2>5
<1>13. ASSUME ChunkedAlone(m) PROVE IsChunkedList(Codings)
    <2>1. PICK i \in te : /\ m.fields[i].codings = <<"chunked">>
                          /\ \A j \in te \ {i} : m.fields[j].codings = <<>>
        BY <1>11, <1>13
    <2>2. IsChunkedList(lists[i]) /\ i \in 1..n
        BY <1>8, <2>1
    <2>3. \A j \in (1..n) \ {i} : lists[j] = <<>>
        BY <1>8, <1>9, <2>1
    <2>4. QED
        BY <1>10, <2>2, <2>3
<1>14. QED
    BY <1>10, <1>12, <1>13

\* The one length that is declared, where there is one.
LEMMA DeclaredReads ==
    ASSUME NEW m, HeadIsRead(m), CountOf("content-length") = 1
    PROVE  LET parsed   == ParseContentLength(ValueOf("content-length"))
               declared == UNION {m.fields[i].declares : i \in FieldsNamed(m, "content-length")}
           IN /\ parsed.error = "None" => declared = {parsed.bytes} /\ parsed.bytes \in Nat
              /\ parsed.error # "None" => \A n \in declared : n \in Nat /\ n > MaxDrain
<1> DEFINE named    == FieldsNamed(m, "content-length")
           declared == UNION {m.fields[i].declares : i \in named}
<1>1. "content-length" \in FramingNames
    BY DEF FramingNames
<1>2. /\ named = Named("content-length") /\ named \in SUBSET (1..Len(m.fields))
      /\ IsFiniteSet(named) /\ Len(m.fields) \in Nat
      /\ \A i \in 1..Len(m.fields) : /\ headers[i] = ParseHeaderField(m.fields[i].text)
                                     /\ headers[i].value \in Texts /\ m.fields[i].verdict = "None"
    BY <1>1, HeadersAre
<1>3. Cardinality(named) = 1
    BY <1>2 DEF CountOf
<1>4. \A i \in named : m.fields[i].name = "content-length"
    BY DEF FieldsNamed
<1> HIDE DEF named
<1>5. PICK i : named = {i}
    BY <1>2, <1>3, FS_Singleton
<1>6. i \in 1..Len(m.fields) /\ m.fields[i].name = "content-length"
    BY <1>2, <1>4, <1>5
<1>7. Min(named) = i
    <2>1. named \subseteq Nat /\ named # {}
        BY <1>2, <1>5
    <2>2. Min(named) \in named
        BY <2>1, MinIsLeast
    <2>3. QED
        BY <1>5, <2>2
<1>8. PICK value \in Texts : value = headers[i].value
    BY <1>2, <1>6
<1>9. ValueOf("content-length") = value
    BY <1>2, <1>7, <1>8 DEF ValueOf
<1>10. m.fields[i].declares = IF AreDigits(value, 10) THEN {Meant(value, 10)} ELSE {}
    <2>1. m.fields[i].text \in Seq(STRING) /\ FieldMeans(m.fields[i])
        BY <1>6, ReadFieldsAre DEF HeadIsRead
    <2>2. value = ParseHeaderField(m.fields[i].text).value /\ m.fields[i].verdict = "None"
        BY <1>2, <1>6, <1>8
    <2>3. QED
        BY <1>6, <2>1, <2>2, FieldReads
<1>11. declared = m.fields[i].declares
    BY <1>5
<1> HIDE DEF declared
<1> DEFINE parsed == ParseContentLength(value)
<1>12. /\ parsed.error = "None" <=> AreDigits(value, 10) /\ Meant(value, 10) <= MaxDrain
       /\ parsed.error = "None" => parsed.bytes = Meant(value, 10)
       /\ AreDigits(value, 10) => Meant(value, 10) \in Nat
    <2>1. 10 \in {10, 16}
        OBVIOUS
    <2>2. MaxDrain \in Nat /\ MaxDrain * 10 + (10 - 1) < SizeMax
        BY ParsingAssumption DEF ParsingAssumption
    <2>3. AreDigits(value, 10) => Meant(value, 10) \in Nat
        BY <2>1, DigitsAreLegal
    <2>4. /\ ParseNumber(value, 10, MaxDrain).error = "None" <=>
                AreDigits(value, 10) /\ Meant(value, 10) <= MaxDrain
          /\ ParseNumber(value, 10, MaxDrain).error = "None" =>
                ParseNumber(value, 10, MaxDrain).bytes = Meant(value, 10)
        BY <2>1, <2>2, NumberReads
    <2>5. QED
        BY <2>3, <2>4 DEF ParseContentLength
<1> HIDE DEF parsed
<1>13. MaxDrain \in Nat
    BY ParsingAssumption DEF ParsingAssumption
<1>14. parsed.error = "None" => declared = {parsed.bytes} /\ parsed.bytes \in Nat
    BY <1>10, <1>11, <1>12
<1>15. parsed.error # "None" => \A n \in declared : n \in Nat /\ n > MaxDrain
    <2>1. parsed.error # "None" /\ AreDigits(value, 10) => Meant(value, 10) > MaxDrain
        BY <1>12, <1>13
    <2>2. AreDigits(value, 10) => Meant(value, 10) \in Nat
        BY <1>12
    <2>3. QED
        BY <1>10, <1>11, <2>1, <2>2
<1>16. QED
    BY <1>9, <1>14, <1>15 DEF parsed, declared, named

\* The framing of a head is the framing of the message.
LEMMA MeasureReads ==
    ASSUME NEW m, HeadIsRead(m), m.version \in {"Http10", "Http11"}
    PROVE  LET measured == MeasureBody
               codings  == FieldsNamed(m, "transfer-encoding")
           IN /\ measured.chunked \in BOOLEAN
              /\ measured.error = "None" /\ measured.chunked =>
                    codings # {} /\ DeclaredLength(m) = {ChunkTotal(m.chunks)}
              /\ measured.error = "None" /\ ~measured.chunked =>
                    codings = {} /\ DeclaredLength(m) = {measured.bytes} /\ measured.bytes \in Nat
              /\ measured.error # "None" => \A n \in DeclaredLength(m) : n \in Nat /\ n > MaxDrain
<1> DEFINE lengths == FieldsNamed(m, "content-length")
           codings == FieldsNamed(m, "transfer-encoding")
           declared == UNION {m.fields[i].declares : i \in lengths}
           parsed == ParseContentLength(ValueOf("content-length"))
           isChunked(coding) == Lowered(coding) = <<"chunked">>
           wrong == \/ Codings = <<>> \/ ~isChunked(Last(Codings))
                    \/ Cardinality({i \in DOMAIN Codings : isChunked(Codings[i])}) > 1
<1>1. "content-length" \in FramingNames /\ "transfer-encoding" \in FramingNames
    BY DEF FramingNames
<1>2. /\ Cardinality(lengths) = CountOf("content-length") /\ CountOf("content-length") \in Nat
      /\ CountOf("content-length") = 0 <=> lengths = {}
      /\ CountOf("transfer-encoding") \in Nat
      /\ CountOf("transfer-encoding") = 0 <=> codings = {}
      /\ version = m.version
    BY <1>1, HeadersAre DEF CountOf, HeadIsRead
<1>3. Codings \in Seq(Texts) /\ (IsChunkedList(Codings) <=> ChunkedAlone(m))
    BY CodingsReads
<1>4. ~wrong /\ ~(Len(Codings) > 1) <=> IsChunkedList(Codings)
    BY <1>3, ChunkedAloneOnTheList
<1>5. CountOf("content-length") = 1 =>
          /\ parsed.error = "None" => declared = {parsed.bytes} /\ parsed.bytes \in Nat
          /\ parsed.error # "None" => \A n \in declared : n \in Nat /\ n > MaxDrain
    BY DeclaredReads
<1>6. MeasureBody =
          IF CountOf("transfer-encoding") > 0
          THEN IF CountOf("content-length") > 0 \/ version = "Http10"
               THEN Measured("Malformed", 0, FALSE)
               ELSE IF wrong THEN Measured("Malformed", 0, FALSE)
               ELSE IF Len(Codings) > 1 THEN Measured("UnsupportedTransferEncoding", 0, FALSE)
               ELSE Measured("None", 0, TRUE)
          ELSE IF CountOf("content-length") > 1 THEN Measured("Malformed", 0, FALSE)
          ELSE IF CountOf("content-length") = 1 THEN Measured(parsed.error, parsed.bytes, FALSE)
          ELSE Measured("None", 0, FALSE)
    BY Zenon DEF MeasureBody
<1>7. DeclaredLength(m) =
          CASE lengths = {} /\ codings = {} -> {0}
            [] Cardinality(lengths) = 1 /\ codings = {} -> declared
            [] lengths = {} /\ m.version = "Http11" /\ ChunkedAlone(m) -> {ChunkTotal(m.chunks)}
            [] OTHER -> {}
    BY Zenon DEF DeclaredLength
<1>8. ChunkedAlone(m) => codings # {}
    BY DEF ChunkedAlone
<1>9. PICK nl \in Nat, nc \in Nat : nl = CountOf("content-length") /\ nc = CountOf("transfer-encoding")
    BY <1>2
<1>10. /\ Cardinality(lengths) = nl /\ (nl = 0 <=> lengths = {}) /\ (nc = 0 <=> codings = {})
       /\ version = m.version
    BY <1>2, <1>9
<1>11. PICK measured : measured = MeasureBody
    OBVIOUS
<1>12. PICK length : length = DeclaredLength(m)
    OBVIOUS
<1> DEFINE Agrees == /\ measured.chunked \in BOOLEAN
                     /\ measured.error = "None" /\ measured.chunked =>
                           codings # {} /\ length = {ChunkTotal(m.chunks)}
                     /\ measured.error = "None" /\ ~measured.chunked =>
                           codings = {} /\ length = {measured.bytes} /\ measured.bytes \in Nat
                     /\ measured.error # "None" => \A n \in length : n \in Nat /\ n > MaxDrain
<1> HIDE DEF wrong, lengths, codings, declared, parsed
<1>13. CASE codings # {}
    <2>1. nc > 0 /\ nc # 0
        BY <1>9, <1>10, <1>13
    <2>2. CASE nl > 0 \/ version = "Http10"
        <3>1. length = {}
            <4>1. ~(lengths = {} /\ m.version = "Http11")
                BY <1>3, <1>9, <1>10, <2>2
            <4>2. QED
                BY <1>7, <1>12, <1>13, <4>1
        <3>2. measured = Measured("Malformed", 0, FALSE)
            BY <1>6, <1>9, <1>11, <2>1, <2>2
        <3>3. Agrees
            BY <3>1, <3>2 DEF Measured
        <3>4. QED
            BY <1>11, <1>12, <3>3 DEF codings
    <2>3. CASE ~(nl > 0 \/ version = "Http10")
        <3>1. lengths = {} /\ m.version = "Http11" /\ nl = 0
            BY <1>9, <1>10, <2>3
        <3>2. CASE IsChunkedList(Codings)
            <4>1. measured = Measured("None", 0, TRUE)
                BY <1>4, <1>6, <1>9, <1>11, <2>1, <2>3, <3>2
            <4>2. length = {ChunkTotal(m.chunks)}
                BY <1>3, <1>7, <1>10, <1>12, <1>13, <3>1, <3>2
            <4>3. Agrees
                BY <1>13, <4>1, <4>2 DEF Measured
            <4>4. QED
                BY <1>11, <1>12, <4>3 DEF codings
        <3>3. CASE ~IsChunkedList(Codings)
            <4>1. measured \in {Measured("Malformed", 0, FALSE), Measured("UnsupportedTransferEncoding", 0, FALSE)}
                BY <1>4, <1>6, <1>9, <1>11, <2>1, <2>3, <3>3
            <4>2. length = {}
                BY <1>3, <1>7, <1>12, <1>13, <3>3
            <4>3. measured.error # "None" /\ measured.chunked = FALSE
                BY <4>1 DEF Measured
            <4>4. Agrees
                BY <4>2, <4>3
            <4>5. QED
                BY <1>11, <1>12, <4>4 DEF codings
        <3>4. QED
            BY <3>2, <3>3
    <2>4. QED
        BY <2>2, <2>3
<1>14. CASE codings = {}
    <2>1. nc = 0 /\ ~(nc > 0) /\ ~ChunkedAlone(m)
        BY <1>8, <1>9, <1>10, <1>14
    <2>2. CASE nl > 1
        <3>1. length = {}
            <4>1. nl # 0 /\ nl # 1
                BY <1>9, <2>2
            <4>2. QED
                BY <1>7, <1>10, <1>12, <2>1, <4>1
        <3>2. measured = Measured("Malformed", 0, FALSE)
            BY <1>6, <1>9, <1>11, <2>1, <2>2
        <3>3. Agrees
            BY <3>1, <3>2 DEF Measured
        <3>4. QED
            BY <1>11, <1>12, <3>3 DEF codings
    <2>3. CASE nl = 1
        <3>1. length = declared
            <4>1. lengths # {}
                BY <1>10, <2>3
            <4>2. QED
                BY <1>7, <1>10, <1>12, <1>14, <2>3, <4>1
        <3>2. measured = Measured(parsed.error, parsed.bytes, FALSE)
            <4>1. ~(nl > 1)
                BY <2>3
            <4>2. QED
                BY <1>6, <1>9, <1>11, <2>1, <2>3, <4>1
        <3>3. /\ parsed.error = "None" => declared = {parsed.bytes} /\ parsed.bytes \in Nat
              /\ parsed.error # "None" => \A n \in declared : n \in Nat /\ n > MaxDrain
            BY <1>5, <1>9, <2>3
        <3>4. Agrees
            BY <1>14, <3>1, <3>2, <3>3 DEF Measured
        <3>5. QED
            BY <1>11, <1>12, <3>4 DEF codings
    <2>4. CASE nl = 0
        <3>1. length = {0}
            <4>1. lengths = {}
                BY <1>10, <2>4
            <4>2. Cardinality(lengths) # 1
                BY <1>10, <2>4
            <4>3. QED
                BY <1>7, <1>12, <1>14, <2>1, <4>1, <4>2
        <3>2. measured = Measured("None", 0, FALSE)
            <4>1. ~(nl > 1) /\ ~(nl = 1)
                BY <2>4
            <4>2. QED
                BY <1>6, <1>9, <1>11, <2>1, <4>1
        <3>3. Agrees
            BY <1>14, <3>1, <3>2 DEF Measured
        <3>4. QED
            BY <1>11, <1>12, <3>3 DEF codings
    <2>5. nl > 1 \/ nl = 1 \/ nl = 0
        BY <1>9
    <2>6. QED
        BY <2>2, <2>3, <2>4, <2>5
<1>15. QED
    BY <1>13, <1>14

-----------------------------------------------------------------------------
(* The sizes of the chunks, added up one after the other.                  *)

SubtotalsOf(f, chunks, n) == f = [k \in 0..n |-> IF k = 0 THEN 0 ELSE f[k - 1] + chunks[k].n]

Subtotals(chunks) == CHOOSE f : SubtotalsOf(f, chunks, Len(chunks))

LEMMA SubtotalsExist ==
    ASSUME NEW chunks, NEW n \in Nat
    PROVE  \E f : SubtotalsOf(f, chunks, n)
<1> DEFINE T == {k \in Nat : \E f : SubtotalsOf(f, chunks, k)}
<1>1. 0 \in T
    <2> DEFINE f == [i \in 0..0 |-> 0]
    <2>1. f = [i \in 0..0 |-> IF i = 0 THEN 0 ELSE f[i - 1] + chunks[i].n]
        OBVIOUS
    <2>2. QED
        BY <2>1 DEF SubtotalsOf
<1>2. ASSUME NEW k \in Nat, k \in T
      PROVE  k + 1 \in T
    <2>1. PICK f : SubtotalsOf(f, chunks, k)
        BY <1>2
    <2> DEFINE g == [i \in 0..(k + 1) |-> IF i = k + 1 THEN f[k] + chunks[k + 1].n ELSE f[i]]
    <2>2. \A i \in 0..k : g[i] = f[i]
        OBVIOUS
    <2>3. ASSUME NEW i \in 0..(k + 1)
          PROVE  g[i] = IF i = 0 THEN 0 ELSE g[i - 1] + chunks[i].n
        <3>1. CASE i = k + 1
            <4>1. g[i] = f[k] + chunks[k + 1].n /\ g[i - 1] = f[k]
                BY <3>1
            <4>2. QED
                BY <3>1, <4>1
        <3>2. CASE i = 0
            BY <2>1, <3>2 DEF SubtotalsOf
        <3>3. CASE i \in 1..k
            <4>1. i - 1 \in 0..k /\ i \in 0..k
                BY <3>3
            <4>2. f[i] = f[i - 1] + chunks[i].n
                BY <2>1, <3>3, <4>1 DEF SubtotalsOf
            <4>3. QED
                BY <2>2, <3>3, <4>1, <4>2
        <3>4. QED
            BY <3>1, <3>2, <3>3
    <2>4. SubtotalsOf(g, chunks, k + 1)
        <3>1. g = [i \in 0..(k + 1) |-> g[i]]
            OBVIOUS
        <3> HIDE DEF g
        <3>2. QED
            BY <2>3, <3>1 DEF SubtotalsOf
    <2>5. QED
        BY <2>4
<1>3. QED
    BY <1>1, <1>2, NatInductive

LEMMA SubtotalsAre ==
    ASSUME NEW m, IsMessage(m)
    PROVE  LET f == Subtotals(m.chunks)
               n == Len(m.chunks)
           IN /\ n \in Nat
              /\ f[0] = 0
              /\ \A k \in 0..(n - 1) : f[k + 1] = f[k] + m.chunks[k + 1].n
              /\ \A k \in 0..n : f[k] \in Nat /\ f[k] <= ChunkTotal(m.chunks)
              /\ ChunkTotal(m.chunks) = f[n] /\ ChunkTotal(m.chunks) \in Nat
<1> DEFINE chunks == m.chunks
           n == Len(chunks)
           f == Subtotals(chunks)
<1>1. n \in Nat /\ \A k \in 1..n : chunks[k].n \in Nat
    BY PartsOfAMessage
<1>2. SubtotalsOf(f, chunks, n)
    BY <1>1, SubtotalsExist DEF Subtotals
<1>3. ChunkTotal(chunks) = f[n]
    BY DEF ChunkTotal, Subtotals, SubtotalsOf
<1> HIDE DEF f, chunks, n
<1>4. f[0] = 0 /\ \A k \in 1..n : f[k] = f[k - 1] + chunks[k].n
    BY <1>1, <1>2 DEF SubtotalsOf
<1>5. \A k \in 0..(n - 1) : f[k + 1] = f[k] + chunks[k + 1].n
    <2>1. \A k \in 0..(n - 1) : k + 1 \in 1..n /\ (k + 1) - 1 = k
        BY <1>1
    <2>2. QED
        BY <1>4, <2>1
<1> DEFINE T == {k \in Nat : k <= n => f[k] \in Nat /\ \A j \in 0..k : f[j] \in Nat /\ f[j] <= f[k]}
<1>6. 0 \in T
    BY <1>4
<1>7. ASSUME NEW k \in Nat, k \in T PROVE k + 1 \in T
    <2>1. SUFFICES ASSUME k + 1 <= n
                   PROVE  f[k + 1] \in Nat /\ \A j \in 0..(k + 1) : f[j] \in Nat /\ f[j] <= f[k + 1]
        OBVIOUS
    <2>2. k <= n /\ k \in 0..(n - 1) /\ k + 1 \in 1..n
        BY <1>1, <2>1
    <2>3. f[k] \in Nat /\ \A j \in 0..k : f[j] \in Nat /\ f[j] <= f[k]
        BY <1>7, <2>2
    <2>4. f[k + 1] = f[k] + chunks[k + 1].n /\ chunks[k + 1].n \in Nat
        BY <1>1, <1>5, <2>2
    <2>5. f[k + 1] \in Nat /\ f[k] <= f[k + 1]
        BY <2>3, <2>4
    <2>6. ASSUME NEW j \in 0..(k + 1) PROVE f[j] \in Nat /\ f[j] <= f[k + 1]
        <3>1. j \in 0..k \/ j = k + 1
            OBVIOUS
        <3>2. CASE j \in 0..k
            BY <2>3, <2>5, <3>2
        <3>3. CASE j = k + 1
            BY <2>5, <3>3
        <3>4. QED
            BY <3>1, <3>2, <3>3
    <2>7. QED
        BY <2>5, <2>6
<1>8. Nat \subseteq T
    <2> HIDE DEF T
    <2> QED BY <1>6, <1>7, NatInductive
<1>9. f[n] \in Nat /\ \A j \in 0..n : f[j] \in Nat /\ f[j] <= f[n]
    <2>1. n \in T /\ n <= n
        BY <1>1, <1>8
    <2>2. QED
        BY <2>1
<1> HIDE DEF T
<1>10. QED
    BY <1>1, <1>3, <1>4, <1>5, <1>9 DEF f, chunks, n

-----------------------------------------------------------------------------
(* In step with the client.  Aligned says where the reader is in the       *)
(* message it is reading, phase by phase: what remains of the stream is    *)
(* what this message has left and then the messages after it, the counts   *)
(* are those of the lines already read, and all that has been read of it   *)
(* was legal.                                                              *)

\* Between two messages.
AtRequestLine(rest) ==
    /\ head_bytes = 0 /\ field_count = 0 /\ body = 0 /\ headers = <<>>
    /\ Remaining = rest

InHead(m, rest) ==
    /\ m.verdict = "None" /\ version = m.version
    /\ field_count \in 0..Len(m.fields)
    /\ AllLegal(m.fields, field_count)
    /\ headers = Parsed(m, field_count)
    /\ head_bytes = 1 + field_count
    /\ body = 0
    /\ Remaining = HeadLeft(m, field_count) \o rest

\* A head that complete_head has let pass.
HeadIsLegal(m) ==
    /\ m.verdict = "None"
    /\ AllLegal(m.fields, Len(m.fields))
    /\ Cardinality(FieldsNamed(m, "host")) \in (IF m.version = "Http11" THEN {1} ELSE {0, 1})
    /\ Len(m.fields) <= MaxFields /\ 2 + Len(m.fields) <= MaxHead

IsSized(m, n) == HeadIsLegal(m) /\ m.chunks = <<>> /\ m.bytes = n /\ DeclaredLength(m) = {n}

InBody(m, rest) == IsSized(m, body_bytes) /\ body = 0 /\ Remaining = Bytes(body_bytes) \o rest

\* The first n chunks have been read.
InChunks(m, n) ==
    /\ HeadIsLegal(m)
    /\ m.chunks # <<>> /\ DeclaredLength(m) = {ChunkTotal(m.chunks)}
    /\ AllLegal(m.chunks, n)

AtChunkSize(m, rest) ==
    \E n \in 0..(Len(m.chunks) - 1) :
        /\ InChunks(m, n)
        /\ head_bytes = 2 + Len(m.fields) /\ field_count = Len(m.fields)
        /\ body = Subtotals(m.chunks)[n]
        /\ Remaining = ChunksLeft(m, n) \o rest

AtChunkData(m, rest) ==
    \E n \in 1..(Len(m.chunks) - 1) :
        /\ InChunks(m, n)
        /\ head_bytes = 2 + Len(m.fields) /\ field_count = Len(m.fields)
        /\ body = Subtotals(m.chunks)[n - 1] /\ chunk_bytes = m.chunks[n].n
        /\ Remaining = Bytes(chunk_bytes) \o (<<ChunkEnd>> \o (ChunksLeft(m, n) \o rest))

InTrailers(m, rest) ==
    \E n \in 0..Len(m.trailers) :
        /\ InChunks(m, Len(m.chunks))
        /\ field_count = Len(m.fields) + n /\ head_bytes = 2 + field_count
        /\ AllLegal(m.trailers, n)
        /\ body = ChunkTotal(m.chunks)
        /\ Remaining = TrailersLeft(m, n) \o rest

Within(m, rest) ==
    \/ phase = "Headers"   /\ InHead(m, rest)
    \/ phase = "Body"      /\ InBody(m, rest)
    \/ phase = "ChunkSize" /\ AtChunkSize(m, rest)
    \/ phase = "ChunkData" /\ AtChunkData(m, rest)
    \/ phase = "Trailers"  /\ InTrailers(m, rest)

\* The message that has no result yet, and what is sent after it.
IsReading(m, rest) ==
    /\ Len(results) < Len(conversation)
    /\ m = conversation[Len(results) + 1] /\ rest = Behind(Len(results) + 1)

Aligned ==
    \/ /\ phase = "RequestLine"
       /\ Len(results) <= Len(conversation) /\ AtRequestLine(Behind(Len(results)))
    \/ /\ phase = "Discard"
       /\ Len(results) <= Len(conversation) /\ Remaining = Bytes(body_bytes) \o Behind(Len(results))
    \/ \E m, rest : IsReading(m, rest) /\ Within(m, rest)

\* What has been answered was answered rightly, up to the answer that ended it.
AnsweredRightly ==
    /\ EachMessageIsJudgedAlone
    /\ failure = "None" => \A i \in 1..Len(results) : results[i].continues

StepInv ==
    /\ conversation \in Conversations
    /\ AnsweredRightly
    /\ failure = "None" => Aligned

-----------------------------------------------------------------------------
(* What every step has in common.                                          *)

LEMMA ReadingIs ==
    ASSUME conversation \in Conversations, results \in Seq(Results),
           NEW m, NEW rest, IsReading(m, rest)
    PROVE  /\ Len(results) \in Nat /\ Len(conversation) \in Nat
           /\ IsMessage(m) /\ Means(m) /\ IsFramed(m) /\ rest \in Seq(Items)
           /\ Behind(Len(results)) = MessageItems(m) \o rest
<1>1. Len(results) \in Nat /\ Len(conversation) \in Nat
    BY BehindIs
<1>2. /\ Len(results) < Len(conversation)
      /\ m = conversation[Len(results) + 1] /\ rest = Behind(Len(results) + 1)
    BY DEF IsReading
<1>3. /\ Len(results) + 1 \in 1..Len(conversation) /\ Len(results) + 1 \in 0..Len(conversation)
      /\ Len(results) \in 0..(Len(conversation) - 1)
    BY <1>1, <1>2
<1>4. IsMessage(m) /\ Means(m) /\ IsFramed(m)
    BY <1>2, <1>3, BehindIs
<1>5. rest \in Seq(Items) /\ Behind(Len(results)) = MessageItems(m) \o rest
    BY <1>2, <1>3, BehindIs
<1>6. QED
    BY <1>1, <1>4, <1>5

LEMMA BehindStays ==
    ASSUME UNCHANGED conversation, NEW n
    PROVE  Behind(n)' = Behind(n)
BY DEF Behind

\* Still at the same message.
LEMMA StaysAt ==
    ASSUME StepInv, failure = "None", UNCHANGED <<conversation, results>>,
           NEW m, NEW rest, IsReading(m, rest), Within(m, rest)'
    PROVE  StepInv'
<1>1. IsReading(m, rest)'
    BY BehindStays DEF IsReading, Behind
<1>2. Aligned'
    BY <1>1 DEF Aligned
<1>3. AnsweredRightly'
    BY DEF StepInv, AnsweredRightly, EachMessageIsJudgedAlone
<1>4. QED
    BY <1>2, <1>3 DEF StepInv

\* One answer more, right for the message that was read.
LEMMA AnswersRightly ==
    ASSUME ReaderInv, StepInv, failure = "None", UNCHANGED conversation,
           NEW m, NEW rest, IsReading(m, rest),
           NEW r \in Results, results' = Append(results, r), IsJudged(m, r),
           failure' = "None" => r.continues
    PROVE  /\ AnsweredRightly' /\ conversation' \in Conversations
           /\ Len(results') = Len(results) + 1 /\ Len(results') <= Len(conversation')
           /\ FlattenSeq(From(Sent(conversation'), Len(results'))) = rest
<1>1. results \in Seq(Results) /\ conversation \in Conversations
    BY DEF ReaderInv, LatchInv, StepInv
<1>2. PICK n \in Nat : n = Len(results)
    BY <1>1
<1>3. /\ Len(results') = n + 1 /\ results'[n + 1] = r
      /\ \A i \in 1..n : results'[i] = results[i]
    BY <1>1, <1>2, AppendProperties
<1>4. m = conversation[n + 1] /\ rest = Behind(n + 1) /\ n < Len(conversation) /\ Len(conversation) \in Nat
    BY <1>1, <1>2, ReadingIs DEF IsReading
<1>5. FlattenSeq(From(Sent(conversation'), Len(results'))) = rest
    BY <1>3, <1>4 DEF Behind
<1>6. EachMessageIsJudgedAlone'
    <2>1. ASSUME NEW i \in 1..(n + 1), \A j \in 1..(i - 1) : results'[j].continues
          PROVE  IsJudged(conversation[i], results'[i])
        <3>1. CASE i = n + 1
            BY <1>3, <1>4, <3>1
        <3>2. CASE i \in 1..n
            <4>1. \A j \in 1..(i - 1) : results[j].continues
                <5>1. \A j \in 1..(i - 1) : j \in 1..n
                    BY <3>2
                <5>2. QED
                    BY <1>3, <2>1, <5>1
            <4>2. IsJudged(conversation[i], results[i])
                BY <1>2, <3>2, <4>1 DEF StepInv, AnsweredRightly, EachMessageIsJudgedAlone
            <4>3. QED
                BY <1>3, <3>2, <4>2
        <3>3. i \in 1..n \/ i = n + 1
            OBVIOUS
        <3>4. QED
            BY <3>1, <3>2, <3>3
    <2>2. QED
        BY <1>3, <2>1 DEF EachMessageIsJudgedAlone
<1>7. failure' = "None" => \A i \in 1..Len(results') : results'[i].continues
    <2>1. \A i \in 1..n : results[i].continues
        BY <1>2 DEF StepInv, AnsweredRightly
    <2>2. \A i \in 1..(n + 1) : i \in 1..n \/ i = n + 1
        OBVIOUS
    <2>3. QED
        BY <1>3, <2>1, <2>2
<1>8. QED
    BY <1>1, <1>2, <1>3, <1>4, <1>5, <1>6, <1>7 DEF AnsweredRightly

LEMMA RefusalIsRight ==
    ASSUME NEW m, NEW r, r.error \in Errors, r.continues = FALSE,
           ~Acceptable(m), ~Drainable(m), m.verdict \in Errors => r.error = m.verdict
    PROVE  IsJudged(m, r)
BY DEF IsJudged, Errors

\* A failure, of a message that is neither to be handed over nor to be dropped.
LEMMA FailsRightly ==
    ASSUME ReaderInv, StepInv, failure = "None", UNCHANGED conversation,
           NEW m, NEW rest, IsReading(m, rest),
           NEW error \in Errors, Fails(error),
           ~Acceptable(m), ~Drainable(m), m.verdict \in Errors => error = m.verdict
    PROVE  StepInv'
<1> DEFINE r == [error |-> error, continues |-> FALSE, version |-> version, body |-> body]
<1>1. failure' = error /\ results' = Append(results, r)
    BY DEF Fails, Returns
<1>2. r \in Results /\ r.error = error /\ r.continues = FALSE
    BY DEF Results, ReaderInv, RequestInv, SizeInv
<1> HIDE DEF r
<1>3. IsJudged(m, r)
    BY <1>2, RefusalIsRight
<1>4. failure' # "None"
    BY <1>1 DEF Errors
<1>5. AnsweredRightly' /\ conversation' \in Conversations
    BY <1>1, <1>2, <1>3, <1>4, AnswersRightly
<1>6. QED
    BY <1>4, <1>5 DEF StepInv

\* Ready for the next message.
LEMMA FinishesRightly ==
    ASSUME ReaderInv, StepInv, failure = "None", UNCHANGED <<conversation, failure>>,
           NEW m, NEW rest, IsReading(m, rest),
           NEW r \in Results, results' = Append(results, r), IsJudged(m, r), r.continues,
           \/ phase' = "RequestLine" /\ AtRequestLine(rest)'
           \/ phase' = "Discard" /\ Remaining' = Bytes(body_bytes') \o rest
    PROVE  StepInv'
<1>1. /\ AnsweredRightly' /\ conversation' \in Conversations
      /\ Len(results') = Len(results) + 1 /\ Len(results') <= Len(conversation')
      /\ FlattenSeq(From(Sent(conversation'), Len(results'))) = rest
    BY AnswersRightly
<1>2. Aligned'
    <2>1. CASE phase' = "RequestLine" /\ AtRequestLine(rest)'
        BY <1>1, <2>1 DEF Aligned, AtRequestLine, Behind
    <2>2. CASE phase' = "Discard" /\ Remaining' = Bytes(body_bytes') \o rest
        BY <1>1, <2>2 DEF Aligned, Behind
    <2>3. QED
        BY <2>1, <2>2
<1>3. QED
    BY <1>1, <1>2 DEF StepInv

-----------------------------------------------------------------------------
(* Why a message is refused.                                               *)

LEMMA IllFormed ==
    ASSUME NEW m, IsMessage(m),
           \/ m.verdict # "None"
           \/ \E i \in 1..Len(m.fields) : m.fields[i].verdict # "None"
           \/ \E i \in 1..Len(m.chunks) : m.chunks[i].verdict # "None"
           \/ m.chunks # <<>> /\ \E i \in 1..Len(m.trailers) : m.trailers[i].verdict # "None"
           \/ Cardinality(FieldsNamed(m, "host")) \notin (IF m.version = "Http11" THEN {1} ELSE {0, 1})
    PROVE  ~Acceptable(m) /\ ~Drainable(m)
<1>1. /\ DOMAIN m.fields = 1..Len(m.fields) /\ DOMAIN m.chunks = 1..Len(m.chunks)
      /\ DOMAIN m.trailers = 1..Len(m.trailers)
    BY PartsOfAMessage
<1>2. ~WellFormed(m)
    BY <1>1 DEF WellFormed, HasTrailers
<1>3. QED
    BY <1>2 DEF Acceptable, Drainable

LEMMA LimitsAdd ==
    ASSUME NEW f \in Nat, NEW t \in Nat, NEW fields \in Nat, NEW head \in Nat
    PROVE  /\ (f + 0 <= fields /\ 2 + f + 0 <= head) <=> (f <= fields /\ 2 + f <= head)
           /\ (f + t <= fields /\ 2 + f + (t + 1) <= head) <=> (f + t <= fields /\ 3 + f + t <= head)
           /\ (f + t <= fields /\ 3 + f + t <= head) => (f <= fields /\ 2 + f <= head)
OBVIOUS

LEMMA LimitsAre ==
    ASSUME NEW m, IsMessage(m)
    PROVE  /\ m.chunks = <<>> =>
                 (WithinLimits(m) <=> (Len(m.fields) <= MaxFields /\ 2 + Len(m.fields) <= MaxHead))
           /\ m.chunks # <<>> =>
                 (WithinLimits(m) <=> (/\ Len(m.fields) + Len(m.trailers) <= MaxFields
                                       /\ 3 + Len(m.fields) + Len(m.trailers) <= MaxHead))
           /\ WithinLimits(m) => (Len(m.fields) <= MaxFields /\ 2 + Len(m.fields) <= MaxHead)
<1>1. PICK f \in Nat, t \in Nat : f = Len(m.fields) /\ t = Len(m.trailers)
    BY PartsOfAMessage
<1>2. MaxFields \in Nat /\ MaxHead \in Nat
    BY Bounds
<1>3. /\ (f + 0 <= MaxFields /\ 2 + f + 0 <= MaxHead) <=> (f <= MaxFields /\ 2 + f <= MaxHead)
      /\ (f + t <= MaxFields /\ 2 + f + (t + 1) <= MaxHead)
             <=> (f + t <= MaxFields /\ 3 + f + t <= MaxHead)
      /\ (f + t <= MaxFields /\ 3 + f + t <= MaxHead) => (f <= MaxFields /\ 2 + f <= MaxHead)
    BY <1>2, LimitsAdd
<1>4. m.chunks = <<>> => (WithinLimits(m) <=> (f + 0 <= MaxFields /\ 2 + f + 0 <= MaxHead))
    BY <1>1 DEF WithinLimits, HasTrailers
<1>5. m.chunks # <<>> => (WithinLimits(m) <=> (f + t <= MaxFields /\ 2 + f + (t + 1) <= MaxHead))
    BY <1>1 DEF WithinLimits, HasTrailers
<1>6. QED
    BY <1>1, <1>3, <1>4, <1>5

LEMMA OverLimits ==
    ASSUME NEW m, ~WithinLimits(m)
    PROVE  ~Acceptable(m) /\ ~Drainable(m)
BY DEF Acceptable, Drainable

-----------------------------------------------------------------------------
(* The next line.                                                          *)

LEMMA NextItem ==
    ASSUME StreamInv, unread # <<>>, NEW e \in Items, NEW after \in Seq(Items),
           Remaining = <<e>> \o after
    PROVE  /\ NextLine = e.text
           /\ unread' = Tail(unread) /\ incoming' = incoming => Remaining' = after
<1>1. Head(unread) = e /\ Tail(unread) \o incoming = after
    BY LineTaken
<1>2. QED
    BY <1>1 DEF NextLine, Remaining

\* A request line, and behind it the head of its message.
LEMMA AtARequest ==
    ASSUME ReaderInv, StepInv, failure = "None", phase = "RequestLine", unread # <<>>
    PROVE  \E m, rest :
               /\ IsReading(m, rest) /\ AtRequestLine(Behind(Len(results)))
               /\ NextLine = m.line
               /\ HeadLeft(m, 0) \o rest \in Seq(Items)
               /\ unread' = Tail(unread) /\ incoming' = incoming => Remaining' = HeadLeft(m, 0) \o rest
<1>1. Len(results) <= Len(conversation) /\ AtRequestLine(Behind(Len(results)))
    BY DEF StepInv, Aligned, Within
<1>2. /\ results \in Seq(Results) /\ conversation \in Conversations
      /\ unread \in Seq(Items) /\ incoming \in Seq(Items) /\ StreamInv
    BY DEF ReaderInv, LatchInv, StepInv, StreamInv
<1>3. Len(results) \in Nat /\ Len(conversation) \in Nat
    BY <1>2, BehindIs
<1>4. Remaining # <<>>
    <2>1. Len(unread) # 0 /\ Len(unread) \in Nat /\ Len(incoming) \in Nat
        BY <1>2
    <2>2. Len(Remaining) = Len(unread) + Len(incoming)
        BY <1>2, ConcatProperties DEF Remaining
    <2>3. Len(Remaining) # 0
        BY <2>1, <2>2
    <2>4. QED
        BY <2>3
<1>5. Len(results) < Len(conversation)
    <2>1. Behind(Len(results)) # <<>>
        BY <1>1, <1>4 DEF AtRequestLine
    <2>2. Len(results) # Len(conversation)
        BY <1>2, <2>1, BehindIs
    <2>3. QED
        BY <1>1, <1>3, <2>2
<1>6. PICK m, rest : IsReading(m, rest)
    BY <1>5 DEF IsReading
<1>7. IsMessage(m) /\ rest \in Seq(Items) /\ Behind(Len(results)) = MessageItems(m) \o rest
    BY <1>2, <1>6, ReadingIs
<1> DEFINE first == Item("request", m.line)
           left  == HeadLeft(m, 0)
<1>8. /\ MessageItems(m) = <<first>> \o left /\ <<first>> \in Seq(Items) /\ left \in Seq(Items)
      /\ first \in Items /\ first.text = m.line
    <2>1. MessageItems(m) = <<first>> \o left /\ <<first>> \in Seq(Items)
        BY <1>7, MessageItemsAre
    <2>2. 0 \in Nat /\ 0 <= Len(m.fields)
        BY <1>7, PartsOfAMessage
    <2>3. left \in Seq(Items)
        BY <1>7, <2>2, HeadLeftIs
    <2>4. m.line \in Seq(STRING) /\ "request" \in Kinds
        BY <1>7, PartsOfAMessage DEF Kinds
    <2>5. first \in Items
        BY <2>4, LineIsAnItem
    <2>6. first.text = m.line
        BY DEF Item
    <2>7. QED
        BY <2>1, <2>3, <2>5, <2>6
<1> HIDE DEF first, left
<1>9. Remaining = <<first>> \o (left \o rest)
    <2>1. Remaining = (<<first>> \o left) \o rest
        BY <1>1, <1>7, <1>8 DEF AtRequestLine
    <2>2. QED
        BY <1>7, <1>8, <2>1, Regroup
<1>10. left \o rest \in Seq(Items)
    BY <1>7, <1>8, Joined
<1>11. /\ NextLine = first.text
       /\ unread' = Tail(unread) /\ incoming' = incoming => Remaining' = left \o rest
    BY <1>2, <1>8, <1>9, <1>10, NextItem
<1>12. QED
    BY <1>1, <1>6, <1>8, <1>10, <1>11 DEF left

\* A field of the head, or the blank line that ends it.
LEMMA AtAField ==
    ASSUME ReaderInv, unread # <<>>, NEW m, NEW rest \in Seq(Items),
           IsMessage(m), Means(m), InHead(m, rest)
    PROVE  /\ field_count \in Nat /\ Len(m.fields) \in Nat /\ field_count <= Len(m.fields)
           /\ field_count = Len(m.fields) =>
                 /\ NextLine = <<>>
                 /\ unread' = Tail(unread) /\ incoming' = incoming => Remaining' = BodyLeft(m) \o rest
           /\ field_count # Len(m.fields) =>
                 /\ field_count + 1 \in 1..Len(m.fields)
                 /\ NextLine = m.fields[field_count + 1].text /\ NextLine # <<>>
                 /\ unread' = Tail(unread) /\ incoming' = incoming =>
                       Remaining' = HeadLeft(m, field_count + 1) \o rest
<1>1. Len(m.fields) \in Nat
    BY PartsOfAMessage
<1>2. PICK k \in 0..Len(m.fields) : k = field_count
    BY DEF InHead
<1>3. k \in Nat /\ k <= Len(m.fields) /\ StreamInv
    BY <1>1 DEF ReaderInv
<1>4. Remaining = HeadLeft(m, k) \o rest
    BY <1>2 DEF InHead
<1>5. HeadLeft(m, k) = IF k = Len(m.fields) THEN <<Blank>> \o BodyLeft(m)
                       ELSE <<Item("field", m.fields[k + 1].text)>> \o HeadLeft(m, k + 1)
    BY <1>3, HeadLeftIs
<1>6. CASE k = Len(m.fields)
    <2>1. BodyLeft(m) \in Seq(Items) /\ <<Blank>> \in Seq(Items) /\ Blank \in Items
        BY BodyLeftIs, BlankIsAnItem
    <2>2. Remaining = <<Blank>> \o (BodyLeft(m) \o rest)
        BY <1>4, <1>5, <1>6, <2>1, Regroup
    <2>3. BodyLeft(m) \o rest \in Seq(Items)
        BY <2>1, Joined
    <2>4. /\ NextLine = Blank.text
          /\ unread' = Tail(unread) /\ incoming' = incoming => Remaining' = BodyLeft(m) \o rest
        BY <1>3, <2>1, <2>2, <2>3, NextItem
    <2>5. Blank.text = <<>>
        BY DEF Blank, Item
    <2>6. QED
        BY <1>1, <1>2, <1>3, <1>6, <2>4, <2>5
<1>7. CASE k # Len(m.fields)
    <2>1. k + 1 \in 1..Len(m.fields) /\ k + 1 \in Nat /\ k + 1 <= Len(m.fields)
        BY <1>1, <1>3, <1>7
    <2>2. PICK text \in Seq(STRING) : text = m.fields[k + 1].text /\ text # <<>>
        BY <2>1, ReadFieldsAre, FieldReads
    <2> DEFINE first == Item("field", text)
    <2>3. first \in Items /\ <<first>> \in Seq(Items) /\ first.text = text
        <3>1. "field" \in Kinds
            BY DEF Kinds
        <3>2. first \in Items /\ <<first>> \in Seq(Items)
            BY <3>1, LineIsAnItem
        <3>3. first.text = text
            BY DEF Item
        <3>4. QED
            BY <3>2, <3>3
    <2>4. HeadLeft(m, k + 1) \in Seq(Items)
        BY <2>1, HeadLeftIs
    <2>5. HeadLeft(m, k) = <<first>> \o HeadLeft(m, k + 1)
        BY <1>5, <1>7, <2>2
    <2> HIDE DEF first
    <2>6. Remaining = <<first>> \o (HeadLeft(m, k + 1) \o rest)
        BY <1>4, <2>3, <2>4, <2>5, Regroup
    <2>7. HeadLeft(m, k + 1) \o rest \in Seq(Items)
        BY <2>4, Joined
    <2>8. /\ NextLine = first.text
          /\ unread' = Tail(unread) /\ incoming' = incoming => Remaining' = HeadLeft(m, k + 1) \o rest
        BY <1>3, <2>3, <2>6, <2>7, NextItem
    <2>9. QED
        BY <1>1, <1>2, <1>3, <1>7, <2>1, <2>2, <2>3, <2>8
<1>8. QED
    BY <1>6, <1>7

\* The size of a chunk.
LEMMA AtASize ==
    ASSUME ReaderInv, unread # <<>>, NEW m, NEW rest \in Seq(Items),
           IsMessage(m), NEW n \in 0..(Len(m.chunks) - 1), Remaining = ChunksLeft(m, n) \o rest
    PROVE  /\ n \in Nat /\ Len(m.chunks) \in Nat /\ n + 1 \in 1..Len(m.chunks)
           /\ NextLine = m.chunks[n + 1].text
           /\ unread' = Tail(unread) /\ incoming' = incoming =>
                 Remaining' = IF m.chunks[n + 1].n = 0 THEN ChunksLeft(m, n + 1) \o rest
                              ELSE Bytes(m.chunks[n + 1].n) \o (<<ChunkEnd>> \o (ChunksLeft(m, n + 1) \o rest))
<1>1. Len(m.chunks) \in Nat
    BY PartsOfAMessage
<1>2. n \in Nat /\ n < Len(m.chunks) /\ n + 1 \in 1..Len(m.chunks) /\ n + 1 \in Nat /\ n + 1 <= Len(m.chunks)
    BY <1>1
<1>3. PICK text \in Seq(STRING), size \in Nat : text = m.chunks[n + 1].text /\ size = m.chunks[n + 1].n
    BY <1>2, PartsOfAMessage
<1> DEFINE first == Item("size", text)
           left  == ChunksLeft(m, n + 1)
<1>4. ChunksLeft(m, n) = IF size = 0 THEN <<first>> \o left
                         ELSE <<first>> \o (Bytes(size) \o (<<ChunkEnd>> \o left))
    BY <1>2, <1>3, ChunksLeftAre
<1>5. first \in Items /\ <<first>> \in Seq(Items) /\ first.text = text
    <2>1. "size" \in Kinds
        BY DEF Kinds
    <2>2. first \in Items /\ <<first>> \in Seq(Items)
        BY <2>1, LineIsAnItem
    <2>3. first.text = text
        BY DEF Item
    <2>4. QED
        BY <2>2, <2>3
<1>6. left \in Seq(Items)
    BY <1>2, ChunksLeftType
<1>7. <<ChunkEnd>> \in Seq(Items) /\ Bytes(size) \in Seq(Items)
    BY ChunkEndIsAnItem, BytesAreItems DEF Bytes
<1>8. StreamInv
    BY DEF ReaderInv
<1> HIDE DEF first, left
<1>9. CASE size = 0
    <2>1. Remaining = <<first>> \o (left \o rest)
        <3>1. Remaining = (<<first>> \o left) \o rest
            BY <1>4, <1>9
        <3>2. QED
            BY <1>5, <1>6, <3>1, Regroup
    <2>2. left \o rest \in Seq(Items)
        BY <1>6, Joined
    <2>3. /\ NextLine = first.text
          /\ unread' = Tail(unread) /\ incoming' = incoming => Remaining' = left \o rest
        BY <1>5, <1>8, <2>1, <2>2, NextItem
    <2>4. QED
        BY <1>1, <1>2, <1>3, <1>5, <1>9, <2>3 DEF left
<1>10. CASE size # 0
    <2> DEFINE data == Bytes(size)
               end  == <<ChunkEnd>>
    <2>1. data \in Seq(Items) /\ end \in Seq(Items)
        BY <1>7
    <2>2. Remaining = (<<first>> \o (data \o (end \o left))) \o rest
        BY <1>4, <1>10
    <2> HIDE DEF data, end
    <2>3. end \o left \in Seq(Items)
        BY <1>6, <2>1, Joined
    <2>4. data \o (end \o left) \in Seq(Items)
        BY <2>1, <2>3, Joined
    <2>5. Remaining = <<first>> \o ((data \o (end \o left)) \o rest)
        BY <1>5, <2>2, <2>4, Regroup
    <2>6. (data \o (end \o left)) \o rest = data \o ((end \o left) \o rest)
        BY <2>1, <2>3, Regroup
    <2>7. (end \o left) \o rest = end \o (left \o rest)
        BY <1>6, <2>1, Regroup
    <2> DEFINE after == data \o (end \o (left \o rest))
    <2>8. Remaining = <<first>> \o after
        BY <2>5, <2>6, <2>7
    <2>9. after \in Seq(Items)
        <3>1. left \o rest \in Seq(Items)
            BY <1>6, Joined
        <3>2. end \o (left \o rest) \in Seq(Items)
            BY <2>1, <3>1, Joined
        <3>3. QED
            BY <2>1, <3>2, Joined
    <2> HIDE DEF after
    <2>10. /\ NextLine = first.text
           /\ unread' = Tail(unread) /\ incoming' = incoming => Remaining' = after
        BY <1>5, <1>8, <2>8, <2>9, NextItem
    <2>11. QED
        BY <1>1, <1>2, <1>3, <1>5, <1>10, <2>10 DEF left, after, data, end
<1>11. QED
    BY <1>9, <1>10

\* A trailer, or the blank line that ends the message.
LEMMA AtATrailer ==
    ASSUME ReaderInv, unread # <<>>, NEW m, NEW rest \in Seq(Items),
           IsMessage(m), Means(m), NEW n \in 0..Len(m.trailers),
           Remaining = TrailersLeft(m, n) \o rest
    PROVE  /\ n \in Nat /\ Len(m.trailers) \in Nat
           /\ n = Len(m.trailers) =>
                 /\ NextLine = <<>>
                 /\ unread' = Tail(unread) /\ incoming' = incoming => Remaining' = rest
           /\ n # Len(m.trailers) =>
                 /\ n + 1 \in 1..Len(m.trailers)
                 /\ NextLine = m.trailers[n + 1].text /\ NextLine # <<>>
                 /\ m.trailers[n + 1].text \in Seq(STRING) /\ FieldMeans(m.trailers[n + 1])
                 /\ unread' = Tail(unread) /\ incoming' = incoming =>
                       Remaining' = TrailersLeft(m, n + 1) \o rest
<1>1. Len(m.trailers) \in Nat
    BY PartsOfAMessage
<1>2. n \in Nat /\ n <= Len(m.trailers) /\ StreamInv
    BY <1>1 DEF ReaderInv
<1>3. TrailersLeft(m, n) = IF n = Len(m.trailers) THEN <<Blank>>
                           ELSE <<Item("field", m.trailers[n + 1].text)>> \o TrailersLeft(m, n + 1)
    BY <1>2, TrailersLeftAre
<1>4. CASE n = Len(m.trailers)
    <2>1. <<Blank>> \in Seq(Items) /\ Blank \in Items
        BY BlankIsAnItem
    <2>2. Remaining = <<Blank>> \o rest
        BY <1>3, <1>4
    <2>3. /\ NextLine = Blank.text
          /\ unread' = Tail(unread) /\ incoming' = incoming => Remaining' = rest
        BY <1>2, <2>1, <2>2, NextItem
    <2>4. Blank.text = <<>>
        BY DEF Blank, Item
    <2>5. QED
        BY <1>1, <1>2, <1>4, <2>3, <2>4
<1>5. CASE n # Len(m.trailers)
    <2>1. n + 1 \in 1..Len(m.trailers) /\ n + 1 \in Nat /\ n + 1 <= Len(m.trailers)
        BY <1>1, <1>2, <1>5
    <2>2. m.trailers[n + 1].text \in Seq(STRING) /\ FieldMeans(m.trailers[n + 1])
        <3>1. m.trailers[n + 1].text \in Seq(STRING) /\ m.trailers[n + 1] \in Range(m.trailers)
            BY <2>1, PartsOfAMessage
        <3>2. QED
            BY <3>1 DEF Means
    <2>3. PICK text \in Seq(STRING) : text = m.trailers[n + 1].text /\ text # <<>>
        BY <2>2, FieldReads
    <2> DEFINE first == Item("field", text)
    <2>4. first \in Items /\ <<first>> \in Seq(Items) /\ first.text = text
        <3>1. "field" \in Kinds
            BY DEF Kinds
        <3>2. first \in Items /\ <<first>> \in Seq(Items)
            BY <3>1, LineIsAnItem
        <3>3. first.text = text
            BY DEF Item
        <3>4. QED
            BY <3>2, <3>3
    <2>5. TrailersLeft(m, n + 1) \in Seq(Items)
        BY <2>1, TrailersLeftAre
    <2>6. TrailersLeft(m, n) = <<first>> \o TrailersLeft(m, n + 1)
        BY <1>3, <1>5, <2>3
    <2> HIDE DEF first
    <2>7. Remaining = <<first>> \o (TrailersLeft(m, n + 1) \o rest)
        BY <2>4, <2>5, <2>6, Regroup
    <2>8. TrailersLeft(m, n + 1) \o rest \in Seq(Items)
        BY <2>5, Joined
    <2>9. /\ NextLine = first.text
          /\ unread' = Tail(unread) /\ incoming' = incoming =>
                Remaining' = TrailersLeft(m, n + 1) \o rest
        BY <1>2, <2>4, <2>7, <2>8, NextItem
    <2>10. QED
        BY <1>1, <1>2, <1>5, <2>1, <2>2, <2>3, <2>4, <2>9
<1>6. QED
    BY <1>4, <1>5

-----------------------------------------------------------------------------
(* Lines that end the stream.                                              *)

\* In the middle of a message, its request line is legal.
LEMMA MidMessage ==
    ASSUME ReaderInv, StepInv, failure = "None", phase \notin {"RequestLine", "Discard"}
    PROVE  \E m, rest :
               /\ IsReading(m, rest) /\ Within(m, rest)
               /\ IsMessage(m) /\ Means(m) /\ IsFramed(m) /\ rest \in Seq(Items)
               /\ m.verdict = "None"
<1>1. conversation \in Conversations /\ results \in Seq(Results)
    BY DEF StepInv, ReaderInv, LatchInv
<1>2. PICK m, rest : IsReading(m, rest) /\ Within(m, rest)
    BY DEF StepInv, Aligned
<1>3. IsMessage(m) /\ Means(m) /\ IsFramed(m) /\ rest \in Seq(Items)
    BY <1>1, <1>2, ReadingIs
<1>4. m.verdict = "None"
    BY <1>2 DEF Within, InHead, InBody, IsSized, AtChunkSize, AtChunkData, InTrailers, InChunks, HeadIsLegal
<1>5. QED
    BY <1>2, <1>3, <1>4

\* The message that is being read is neither to be handed over nor to be dropped.
IsUnacceptable(m, rest) ==
    /\ IsReading(m, rest) /\ ~Acceptable(m) /\ ~Drainable(m)
    /\ m.verdict \notin Errors

LEMMA FailsOnIt ==
    ASSUME ReaderInv, StepInv, failure = "None", UNCHANGED conversation,
           \E m, rest : IsUnacceptable(m, rest), NEW error \in Errors, Fails(error)
    PROVE  StepInv'
<1>1. PICK m, rest : IsUnacceptable(m, rest)
    OBVIOUS
<1>2. QED
    BY <1>1, FailsRightly DEF IsUnacceptable

LEMMA NotAnError == "None" \notin Errors /\ "LineTooLong" \notin Errors
BY DEF Errors

LEMMA TheEmptyLineIsShort == ~(Len(<<>>) > MaxLine)
<1>1. MaxLine \in Nat
    BY ReaderAssumption DEF ReaderAssumption
<1>2. QED
    BY <1>1

LEMMA LongLineIsIllegal ==
    ASSUME ReaderInv, StepInv, failure = "None", phase \in LinePhases, unread # <<>>,
           Len(NextLine) > MaxLine
    PROVE  \E m, rest : IsUnacceptable(m, rest)
<1>1. CASE phase = "RequestLine"
    <2>1. PICK m, rest : IsReading(m, rest) /\ NextLine = m.line
        BY <1>1, AtARequest
    <2>2. IsMessage(m) /\ Means(m)
        BY <2>1, ReadingIs DEF StepInv, ReaderInv, LatchInv
    <2>3. m.line \in Seq(STRING) /\ LineMeans(m)
        BY <2>2 DEF IsMessage, Means
    <2>4. m.verdict = "LineTooLong"
        BY <2>1, <2>3, LineReads
    <2>5. ~Acceptable(m) /\ ~Drainable(m)
        BY <2>2, <2>4, IllFormed
    <2>6. QED
        BY <2>1, <2>4, <2>5, NotAnError DEF IsUnacceptable
<1>2. CASE phase # "RequestLine"
    <2>1. PICK m, rest :
              /\ IsReading(m, rest) /\ Within(m, rest)
              /\ IsMessage(m) /\ Means(m) /\ IsFramed(m) /\ rest \in Seq(Items)
              /\ m.verdict = "None"
        BY <1>2, MidMessage DEF LinePhases
    <2>2. ~Acceptable(m) /\ ~Drainable(m)
        <3>1. CASE phase = "Headers"
            <4>1. InHead(m, rest)
                BY <2>1, <3>1 DEF Within
            <4>2. /\ field_count = Len(m.fields) => NextLine = <<>>
                  /\ field_count # Len(m.fields) =>
                        field_count + 1 \in 1..Len(m.fields) /\ NextLine = m.fields[field_count + 1].text
                BY <2>1, <4>1, AtAField
            <4>3. PICK k \in 1..Len(m.fields) : NextLine = m.fields[k].text
                BY <4>2, TheEmptyLineIsShort
            <4>4. m.fields[k].text \in Seq(STRING) /\ FieldMeans(m.fields[k])
                BY <2>1, ReadFieldsAre
            <4>5. PICK f : f = m.fields[k]
                OBVIOUS
            <4>6. f.verdict # "None"
                <5>1. f.verdict = "None" => Len(f.text) <= MaxLine
                    BY <4>4, <4>5, FieldReads
                <5>2. Len(f.text) \in Nat /\ MaxLine \in Nat
                    BY <4>4, <4>5, ReaderAssumption DEF ReaderAssumption
                <5>3. Len(f.text) > MaxLine
                    BY <4>3, <4>5
                <5>4. QED
                    BY <5>1, <5>2, <5>3
            <4>7. QED
                BY <2>1, <4>5, <4>6, IllFormed
        <3>2. CASE phase = "ChunkSize"
            <4>1. PICK n \in 0..(Len(m.chunks) - 1) : Remaining = ChunksLeft(m, n) \o rest
                BY <2>1, <3>2 DEF Within, AtChunkSize
            <4>2. n + 1 \in 1..Len(m.chunks) /\ NextLine = m.chunks[n + 1].text
                BY <2>1, <4>1, AtASize
            <4>3. PICK k \in 1..Len(m.chunks) : NextLine = m.chunks[k].text
                BY <4>2
            <4>4. PICK chunk : chunk = m.chunks[k]
                OBVIOUS
            <4>5. chunk.text \in Seq(STRING) /\ chunk.n \in Nat /\ ChunkMeans(chunk)
                BY <2>1, <4>4, PartsOfAMessage DEF Means
            <4>6. chunk.verdict = "None" => Len(chunk.text) <= MaxLine
                BY <4>5, ChunkReads
            <4>7. Len(chunk.text) \in Nat /\ MaxLine \in Nat /\ Len(chunk.text) > MaxLine
                BY <4>3, <4>4, <4>5, ReaderAssumption DEF ReaderAssumption
            <4>8. chunk.verdict # "None"
                BY <4>6, <4>7
            <4>9. QED
                BY <2>1, <4>4, <4>8, IllFormed
        <3>3. CASE phase = "Trailers"
            <4>1. PICK n \in 0..Len(m.trailers) : Remaining = TrailersLeft(m, n) \o rest /\ m.chunks # <<>>
                BY <2>1, <3>3 DEF Within, InTrailers, InChunks
            <4>2. /\ n = Len(m.trailers) => NextLine = <<>>
                  /\ n # Len(m.trailers) =>
                        /\ n + 1 \in 1..Len(m.trailers) /\ NextLine = m.trailers[n + 1].text
                        /\ m.trailers[n + 1].text \in Seq(STRING) /\ FieldMeans(m.trailers[n + 1])
                BY <2>1, <4>1, AtATrailer
            <4>3. PICK k \in 1..Len(m.trailers) :
                      /\ NextLine = m.trailers[k].text
                      /\ m.trailers[k].text \in Seq(STRING) /\ FieldMeans(m.trailers[k])
                BY <4>2, TheEmptyLineIsShort
            <4>4. PICK f : f = m.trailers[k]
                OBVIOUS
            <4>5. f.verdict = "None" => Len(f.text) <= MaxLine
                BY <4>3, <4>4, FieldReads
            <4>6. Len(f.text) \in Nat /\ MaxLine \in Nat /\ Len(f.text) > MaxLine
                BY <4>3, <4>4, ReaderAssumption DEF ReaderAssumption
            <4>7. f.verdict # "None"
                BY <4>5, <4>6
            <4>8. QED
                BY <2>1, <4>1, <4>4, <4>7, IllFormed
        <3>4. QED
            BY <1>2, <3>1, <3>2, <3>3 DEF LinePhases
    <2>3. QED
        BY <2>1, <2>2, NotAnError DEF IsUnacceptable
<1>3. QED
    BY <1>1, <1>2

LEMMA LineTooLongKeepsStep ==
    ASSUME ReaderInv, StepInv, failure = "None", phase \in LinePhases, unread # <<>>,
           LineTooLong, UNCHANGED conversation
    PROVE  StepInv'
<1>1. \E m, rest : IsUnacceptable(m, rest)
    BY LongLineIsIllegal DEF LineTooLong
<1>2. \E error \in Errors : Fails(error)
    BY DEF LineTooLong, LinePhases, Errors
<1>3. QED
    BY <1>1, <1>2, FailsOnIt

LEMMA TrailersAdd ==
    ASSUME NEW f \in Nat, NEW t \in Nat, NEW n \in Nat, NEW limit \in Nat
    PROVE  /\ n <= t /\ (2 + (f + n)) + 1 > limit => ~(3 + f + t <= limit)
           /\ n + 1 <= t /\ (f + n) + 1 > limit => ~(f + t <= limit)
           /\ (f + n) + 1 = f + (n + 1) /\ (2 + (f + n)) + 1 = 2 + (f + (n + 1))
           /\ f + t <= limit <=> ~((f + t) > limit)
           /\ (2 + (f + t)) + 1 <= limit => 3 + f + t <= limit
OBVIOUS

LEMMA LongHeadIsIllegal ==
    ASSUME ReaderInv, StepInv, failure = "None", phase \in LinePhases, phase # "ChunkSize",
           unread # <<>>, head_bytes + 1 > MaxHead
    PROVE  \E m, rest : IsUnacceptable(m, rest)
<1>1. MaxHead \in Nat /\ MaxHead >= 1
    BY ReaderAssumption DEF ReaderAssumption
<1>2. phase # "RequestLine"
    <2>1. phase = "RequestLine" => head_bytes = 0
        BY DEF StepInv, Aligned, AtRequestLine, Within
    <2>2. QED
        BY <1>1, <2>1
<1>3. PICK m, rest :
          /\ IsReading(m, rest) /\ Within(m, rest)
          /\ IsMessage(m) /\ Means(m) /\ IsFramed(m) /\ rest \in Seq(Items)
          /\ m.verdict = "None"
    BY <1>2, MidMessage DEF LinePhases
<1>4. PICK f \in Nat, t \in Nat : f = Len(m.fields) /\ t = Len(m.trailers)
    BY <1>3, PartsOfAMessage
<1>5. ~WithinLimits(m)
    <2>1. CASE phase = "Headers"
        <3>1. head_bytes = 1 + field_count /\ field_count \in 0..f
            BY <1>3, <1>4, <2>1 DEF Within, InHead
        <3>2. ~(2 + f <= MaxHead)
            BY <1>1, <1>4, <3>1
        <3>3. QED
            BY <1>3, <1>4, <3>2, LimitsAre
    <2>2. CASE phase = "Trailers"
        <3>1. PICK n \in 0..t : /\ m.chunks # <<>>
                                /\ field_count = f + n /\ head_bytes = 2 + field_count
            BY <1>3, <1>4, <2>2 DEF Within, InTrailers, InChunks
        <3>2. n \in Nat /\ n <= t /\ head_bytes = 2 + (f + n) /\ head_bytes + 1 > MaxHead
            BY <1>4, <3>1
        <3>3. ~(3 + f + t <= MaxHead)
            BY <1>1, <3>2, TrailersAdd
        <3>4. QED
            BY <1>3, <1>4, <3>1, <3>3, LimitsAre
    <2>3. QED
        BY <1>2, <2>1, <2>2 DEF LinePhases
<1>6. QED
    BY <1>3, <1>5, OverLimits, NotAnError DEF IsUnacceptable

LEMMA HeadTooLargeKeepsStep ==
    ASSUME ReaderInv, StepInv, failure = "None", phase \in LinePhases, unread # <<>>,
           HeadTooLarge, UNCHANGED conversation
    PROVE  StepInv'
<1>1. \E m, rest : IsUnacceptable(m, rest)
    BY LongHeadIsIllegal DEF HeadTooLarge
<1>2. "HeadTooLarge" \in Errors /\ Fails("HeadTooLarge")
    BY DEF HeadTooLarge, Errors
<1>3. QED
    BY <1>1, <1>2, FailsOnIt

-----------------------------------------------------------------------------
(* Lines that are taken.                                                   *)

\* What read_next_line has done when it hands a line on.
LineIsTaken ==
    /\ failure = "None" /\ unread # <<>>
    /\ Len(NextLine) <= MaxLine
    /\ unread' = Tail(unread)
    /\ UNCHANGED streamVars
    /\ phase = "ChunkSize" \/ head_bytes + 1 <= MaxHead
    /\ head_bytes' = IF phase = "ChunkSize" THEN head_bytes
                     ELSE IF phase' = "RequestLine" /\ failure' = "None" THEN 0
                     ELSE head_bytes + 1

LEMMA RequestLineKeepsStep ==
    ASSUME ReaderInv, StepInv, LineIsTaken, HandleRequestLine
    PROVE  StepInv'
<1>1. /\ failure = "None" /\ unread # <<>> /\ Len(NextLine) <= MaxLine
      /\ UNCHANGED <<conversation, incoming>> /\ unread' = Tail(unread)
      /\ phase = "RequestLine"
    BY DEF LineIsTaken, streamVars, HandleRequestLine
<1>2. PICK m, rest :
          /\ IsReading(m, rest) /\ AtRequestLine(Behind(Len(results)))
          /\ NextLine = m.line
          /\ Remaining' = HeadLeft(m, 0) \o rest
    BY <1>1, AtARequest
<1>3. IsMessage(m) /\ Means(m) /\ rest \in Seq(Items)
    BY <1>2, ReadingIs DEF StepInv, ReaderInv, LatchInv
<1>4. m.line \in Seq(STRING) /\ LineMeans(m)
    BY <1>3 DEF IsMessage, Means
<1>5. /\ m.verdict = ParseRequestLine(NextLine)
      /\ m.verdict = "None" => m.version = VersionOf(NextLine)
    BY <1>1, <1>2, <1>4, LineReads
<1>6. CASE m.verdict # "None"
    <2>1. Fails(m.verdict) /\ m.verdict \in Errors
        BY <1>5, <1>6, RequestLineErrors DEF HandleRequestLine, Errors
    <2>2. ~Acceptable(m) /\ ~Drainable(m)
        BY <1>3, <1>6, IllFormed
    <2>3. QED
        BY <1>1, <1>2, <2>1, <2>2, FailsRightly
<1>7. CASE m.verdict = "None"
    <2>1. /\ version' = m.version /\ phase' = "Headers" /\ results' = results /\ failure' = failure
          /\ headers' = headers /\ body' = body /\ field_count' = field_count
        BY <1>5, <1>7 DEF HandleRequestLine, GoesRound
    <2>2. headers = <<>> /\ body = 0 /\ field_count = 0 /\ head_bytes = 0
        BY <1>2 DEF AtRequestLine
    <2>3. head_bytes' = 1 /\ 1 = 1 + 0
        BY <1>1, <2>1, <2>2 DEF LineIsTaken
    <2>4. AllLegal(m.fields, 0) /\ <<>> = Parsed(m, 0) /\ 0 \in 0..Len(m.fields)
        <3>1. Len(m.fields) \in Nat
            BY <1>3, PartsOfAMessage
        <3>2. 1..0 = {}
            OBVIOUS
        <3>3. <<>> = Parsed(m, 0)
            BY <3>2 DEF Parsed
        <3>4. AllLegal(m.fields, 0)
            BY <3>2 DEF AllLegal
        <3>5. QED
            BY <3>1, <3>3, <3>4
    <2>5. InHead(m, rest)'
        BY <1>2, <1>7, <2>1, <2>2, <2>3, <2>4 DEF InHead
    <2>6. Within(m, rest)'
        BY <2>1, <2>5 DEF Within
    <2>7. QED
        BY <1>1, <1>2, <2>1, <2>6, StaysAt
<1>8. QED
    BY <1>6, <1>7

LEMMA OneMoreLegal ==
    ASSUME NEW parts, NEW n \in Nat, AllLegal(parts, n), parts[n + 1].verdict = "None"
    PROVE  AllLegal(parts, n + 1)
<1>1. \A i \in 1..(n + 1) : i \in 1..n \/ i = n + 1
    OBVIOUS
<1>2. QED
    BY <1>1 DEF AllLegal

LEMMA OneMoreParsed ==
    ASSUME NEW m, NEW n \in Nat, Parsed(m, n) \in Seq(HeaderFields),
           ParseHeaderField(m.fields[n + 1].text) \in HeaderFields
    PROVE  Append(Parsed(m, n), ParseHeaderField(m.fields[n + 1].text)) = Parsed(m, n + 1)
<1> DEFINE old  == Parsed(m, n)
           f    == ParseHeaderField(m.fields[n + 1].text)
           more == Append(old, f)
<1>1. Len(old) = n /\ old \in Seq(HeaderFields) /\ f \in HeaderFields
    BY DEF Parsed
<1>2. /\ more \in Seq(HeaderFields) /\ Len(more) = n + 1 /\ more[n + 1] = f
      /\ \A i \in 1..n : more[i] = old[i]
    <2> HIDE DEF old, f
    <2> QED BY <1>1, AppendProperties
<1>3. \A i \in 1..n : old[i] = ParseHeaderField(m.fields[i].text)
    BY DEF Parsed
<1>4. more = [i \in 1..(n + 1) |-> more[i]]
    <2> HIDE DEF more
    <2> QED BY <1>2
<1>5. \A i \in 1..(n + 1) : more[i] = ParseHeaderField(m.fields[i].text)
    <2>1. \A i \in 1..(n + 1) : i \in 1..n \/ i = n + 1
        OBVIOUS
    <2>2. more[n + 1] = ParseHeaderField(m.fields[n + 1].text)
        BY <1>2
    <2> HIDE DEF more, old, f
    <2>3. QED
        BY <1>2, <1>3, <2>1, <2>2
<1> HIDE DEF more
<1>6. more = Parsed(m, n + 1)
    BY <1>4, <1>5 DEF Parsed
<1>7. QED
    BY <1>6 DEF more, old, f

LEMMA HeaderLineKeepsStep ==
    ASSUME ReaderInv, StepInv, LineIsTaken, phase = "Headers", HandleField(TRUE)
    PROVE  StepInv'
<1>1. /\ failure = "None" /\ unread # <<>> /\ Len(NextLine) <= MaxLine
      /\ UNCHANGED <<conversation, incoming>> /\ unread' = Tail(unread)
      /\ NextLine # <<>> /\ field_count' = field_count + 1
    BY DEF LineIsTaken, streamVars, HandleField
<1>2. PICK m, rest :
          /\ IsReading(m, rest) /\ Within(m, rest)
          /\ IsMessage(m) /\ Means(m) /\ IsFramed(m) /\ rest \in Seq(Items)
          /\ m.verdict = "None"
    BY <1>1, MidMessage
<1>3. InHead(m, rest)
    BY <1>2 DEF Within
<1>4. PICK k : k = field_count
    OBVIOUS
<1>5. /\ k \in Nat /\ Len(m.fields) \in Nat /\ k + 1 \in 1..Len(m.fields)
      /\ NextLine = m.fields[k + 1].text
      /\ Remaining' = HeadLeft(m, k + 1) \o rest
    BY <1>1, <1>2, <1>3, <1>4, AtAField
<1>6. PICK f : f = m.fields[k + 1]
    OBVIOUS
<1>7. f.text \in Seq(STRING) /\ f.text \in Texts /\ FieldMeans(f)
    BY <1>2, <1>5, <1>6, ReadFieldsAre
<1>8. f.verdict = "None" <=> IsHeaderField(NextLine)
    BY <1>1, <1>5, <1>6, <1>7, FieldReads
<1>9. CASE k + 1 > MaxFields
    <2>1. Fails("TooManyHeaders") /\ "TooManyHeaders" \in Errors
        BY <1>4, <1>9 DEF HandleField, Errors
    <2>2. ~(Len(m.fields) <= MaxFields) /\ MaxFields \in Nat
        BY <1>5, <1>9, Bounds
    <2>3. ~WithinLimits(m)
        BY <1>2, <2>2, LimitsAre
    <2>4. IsUnacceptable(m, rest)
        BY <1>2, <2>3, OverLimits, NotAnError DEF IsUnacceptable
    <2>5. QED
        BY <1>1, <2>1, <2>4, FailsOnIt
<1>10. CASE ~(k + 1 > MaxFields) /\ f.verdict # "None"
    <2>1. Fails("Malformed") /\ "Malformed" \in Errors
        BY <1>4, <1>8, <1>10 DEF HandleField, Errors
    <2>2. ~Acceptable(m) /\ ~Drainable(m)
        BY <1>2, <1>5, <1>6, <1>10, IllFormed
    <2>3. IsUnacceptable(m, rest)
        BY <1>2, <2>2, NotAnError DEF IsUnacceptable
    <2>4. QED
        BY <1>1, <2>1, <2>3, FailsOnIt
<1>11. CASE ~(k + 1 > MaxFields) /\ f.verdict = "None"
    <2>1. /\ headers' = Append(headers, ParseHeaderField(NextLine))
          /\ results' = results /\ failure' = failure /\ phase' = phase
          /\ version' = version /\ body' = body
        BY <1>4, <1>8, <1>11 DEF HandleField, GoesRound
    <2>2. AllLegal(m.fields, k + 1)
        BY <1>3, <1>4, <1>5, <1>6, <1>11, OneMoreLegal DEF InHead
    <2>3. headers' = Parsed(m, k + 1)
        <3>1. headers = Parsed(m, k) /\ headers \in Seq(HeaderFields)
            BY <1>3, <1>4 DEF InHead, ReaderInv, RequestInv
        <3>2. ParseHeaderField(m.fields[k + 1].text) \in HeaderFields
            BY <1>6, <1>7, <1>8, <1>5, <1>11, ParsedFieldIsAField
        <3>3. QED
            BY <1>5, <2>1, <3>1, <3>2, OneMoreParsed
    <2>4. head_bytes' = 1 + (k + 1)
        <3>1. head_bytes' = head_bytes + 1 /\ head_bytes = 1 + k
            BY <1>3, <1>4, <2>1 DEF LineIsTaken, InHead
        <3>2. QED
            BY <1>5, <3>1
    <2>5. k + 1 \in 0..Len(m.fields) /\ field_count' = k + 1
        BY <1>1, <1>4, <1>5
    <2>6. InHead(m, rest)'
        BY <1>3, <1>5, <2>1, <2>2, <2>3, <2>4, <2>5 DEF InHead
    <2>7. Within(m, rest)'
        BY <2>1, <2>6 DEF Within
    <2>8. QED
        BY <1>1, <1>2, <2>1, <2>7, StaysAt
<1>12. QED
    BY <1>9, <1>10, <1>11

LEMMA TrailerLineKeepsStep ==
    ASSUME ReaderInv, StepInv, LineIsTaken, phase = "Trailers", HandleField(FALSE)
    PROVE  StepInv'
<1>1. /\ failure = "None" /\ unread # <<>> /\ Len(NextLine) <= MaxLine
      /\ UNCHANGED <<conversation, incoming>> /\ unread' = Tail(unread)
      /\ NextLine # <<>> /\ field_count' = field_count + 1
    BY DEF LineIsTaken, streamVars, HandleField
<1>2. PICK m, rest :
          /\ IsReading(m, rest) /\ Within(m, rest)
          /\ IsMessage(m) /\ Means(m) /\ IsFramed(m) /\ rest \in Seq(Items)
          /\ m.verdict = "None"
    BY <1>1, MidMessage
<1>3. PICK n \in 0..Len(m.trailers) :
          /\ InChunks(m, Len(m.chunks))
          /\ field_count = Len(m.fields) + n /\ head_bytes = 2 + field_count
          /\ AllLegal(m.trailers, n)
          /\ body = ChunkTotal(m.chunks)
          /\ Remaining = TrailersLeft(m, n) \o rest
    BY <1>2 DEF Within, InTrailers
<1>4. /\ n \in Nat /\ Len(m.trailers) \in Nat /\ n + 1 \in 1..Len(m.trailers)
      /\ NextLine = m.trailers[n + 1].text
      /\ m.trailers[n + 1].text \in Seq(STRING) /\ FieldMeans(m.trailers[n + 1])
      /\ Remaining' = TrailersLeft(m, n + 1) \o rest
    BY <1>1, <1>2, <1>3, AtATrailer
<1>5. PICK f : f = m.trailers[n + 1]
    OBVIOUS
<1>6. f.verdict = "None" <=> IsHeaderField(NextLine)
    BY <1>1, <1>4, <1>5, FieldReads
<1>7. PICK k \in Nat, t \in Nat : k = Len(m.fields) /\ t = Len(m.trailers)
    BY <1>2, PartsOfAMessage
<1>8. m.chunks # <<>>
    BY <1>3 DEF InChunks
<1>9. CASE field_count + 1 > MaxFields
    <2>1. Fails("TooManyHeaders") /\ "TooManyHeaders" \in Errors
        BY <1>9 DEF HandleField, Errors
    <2>2. field_count = k + n /\ n + 1 <= t /\ MaxFields \in Nat
        BY <1>3, <1>4, <1>7, Bounds
    <2>3. ~(k + t <= MaxFields)
        BY <1>4, <1>9, <2>2, TrailersAdd
    <2>4. ~WithinLimits(m)
        BY <1>2, <1>7, <1>8, <2>3, LimitsAre
    <2>5. IsUnacceptable(m, rest)
        BY <1>2, <2>4, OverLimits, NotAnError DEF IsUnacceptable
    <2>6. QED
        BY <1>1, <2>1, <2>5, FailsOnIt
<1>10. CASE ~(field_count + 1 > MaxFields) /\ f.verdict # "None"
    <2>1. Fails("Malformed") /\ "Malformed" \in Errors
        BY <1>6, <1>10 DEF HandleField, Errors
    <2>2. ~Acceptable(m) /\ ~Drainable(m)
        BY <1>2, <1>4, <1>5, <1>8, <1>10, IllFormed
    <2>3. IsUnacceptable(m, rest)
        BY <1>2, <2>2, NotAnError DEF IsUnacceptable
    <2>4. QED
        BY <1>1, <2>1, <2>3, FailsOnIt
<1>11. CASE ~(field_count + 1 > MaxFields) /\ f.verdict = "None"
    <2>1. /\ results' = results /\ failure' = failure /\ phase' = phase /\ body' = body
        BY <1>6, <1>11 DEF HandleField, GoesRound
    <2>2. AllLegal(m.trailers, n + 1)
        BY <1>3, <1>4, <1>5, <1>11, OneMoreLegal
    <2>3. field_count' = Len(m.fields) + (n + 1) /\ head_bytes' = 2 + field_count'
        <3>1. head_bytes' = head_bytes + 1 /\ head_bytes = 2 + field_count
            BY <1>3, <2>1 DEF LineIsTaken
        <3>2. field_count = k + n /\ field_count' = field_count + 1
            BY <1>1, <1>3, <1>7
        <3>3. field_count' = k + (n + 1) /\ head_bytes' = 2 + field_count'
            BY <1>4, <3>1, <3>2, TrailersAdd
        <3>4. QED
            BY <1>7, <3>3
    <2>4. n + 1 \in 0..Len(m.trailers)
        BY <1>4
    <2>5. InTrailers(m, rest)'
        BY <1>3, <1>4, <2>1, <2>2, <2>3, <2>4 DEF InTrailers
    <2>6. Within(m, rest)'
        BY <2>1, <2>5 DEF Within
    <2>7. QED
        BY <1>1, <1>2, <2>1, <2>6, StaysAt
<1>12. QED
    BY <1>9, <1>10, <1>11

-----------------------------------------------------------------------------
(* The end of a head, and the end of a message.                            *)

\* What has been read of a message without chunks makes it well-formed.
LEMMA LegalHeadIsWellFormed ==
    ASSUME NEW m, IsMessage(m), HeadIsLegal(m), m.chunks = <<>>
    PROVE  WellFormed(m) /\ WithinLimits(m)
<1>1. DOMAIN m.fields = 1..Len(m.fields) /\ DOMAIN m.chunks = 1..Len(m.chunks) /\ Len(m.chunks) = 0
    BY PartsOfAMessage
<1>2. WellFormed(m)
    BY <1>1 DEF WellFormed, HeadIsLegal, HasTrailers, AllLegal
<1>3. WithinLimits(m)
    BY LimitsAre DEF HeadIsLegal
<1>4. QED
    BY <1>2, <1>3

LEMMA LegalChunksAreWellFormed ==
    ASSUME NEW m, IsMessage(m), InChunks(m, Len(m.chunks)), AllLegal(m.trailers, Len(m.trailers))
    PROVE  WellFormed(m)
<1>1. /\ DOMAIN m.fields = 1..Len(m.fields) /\ DOMAIN m.chunks = 1..Len(m.chunks)
      /\ DOMAIN m.trailers = 1..Len(m.trailers)
    BY PartsOfAMessage
<1>2. QED
    BY <1>1 DEF WellFormed, InChunks, HeadIsLegal, AllLegal

LEMMA HandOverIsRight ==
    ASSUME NEW m, WellFormed(m), WithinLimits(m), NEW n \in Nat, DeclaredLength(m) = {n}, n <= MaxBody,
           NEW r, r.error = "None", r.body = n
    PROVE  IsJudged(m, r)
<1>1. Acceptable(m)
    BY DEF Acceptable
<1>2. ~Drainable(m)
    BY Bounds DEF Drainable
<1>3. m.verdict = "None"
    BY DEF WellFormed
<1>4. QED
    BY <1>1, <1>2, <1>3, NotAnError DEF IsJudged

LEMMA DropIsRight ==
    ASSUME NEW m, WellFormed(m), WithinLimits(m), m.chunks = <<>>,
           NEW n \in 0..MaxDrain, DeclaredLength(m) = {n}, n > MaxBody,
           NEW r, r.error = "BodyTooLarge", r.continues = TRUE
    PROVE  IsJudged(m, r)
<1>1. n \in Nat /\ n <= MaxDrain /\ ~(n <= MaxBody)
    BY Bounds
<1>2. Drainable(m) /\ ~Acceptable(m)
    BY <1>1 DEF Acceptable, Drainable
<1>3. m.verdict = "None"
    BY DEF WellFormed
<1>4. QED
    BY <1>2, <1>3, NotAnError DEF IsJudged

\* finish_request hands over the message whose last line was taken.
LEMMA FinishesKeepsStep ==
    ASSUME ReaderInv, StepInv, LineIsTaken, phase # "ChunkSize", Finishes,
           NEW m, NEW rest, IsReading(m, rest),
           WellFormed(m), WithinLimits(m), DeclaredLength(m) = {body}, Remaining' = rest
    PROVE  StepInv'
<1> DEFINE r == [error |-> "None", continues |-> TRUE, version |-> version, body |-> body]
<1>1. /\ failure = "None" /\ UNCHANGED <<conversation, failure>>
      /\ results' = Append(results, r)
      /\ phase' = "RequestLine" /\ headers' = <<>> /\ body' = 0 /\ field_count' = 0 /\ head_bytes' = 0
    BY DEF LineIsTaken, streamVars, Finishes, Returns, ArmNextRequest
<1>2. r \in Results /\ r.error = "None" /\ r.continues /\ r.body = body
    BY DEF Results, ReaderInv, RequestInv, SizeInv
<1>3. body \in Nat /\ body <= MaxBody
    BY Bounds DEF ReaderInv, SizeInv
<1> HIDE DEF r
<1>4. IsJudged(m, r)
    BY <1>2, <1>3, HandOverIsRight
<1>5. AtRequestLine(rest)'
    BY <1>1 DEF AtRequestLine
<1>6. QED
    BY <1>1, <1>2, <1>4, <1>5, FinishesRightly

\* The head of a message, as the blank line behind it finds it.
HeadEnds(m, rest) ==
    /\ IsReading(m, rest) /\ IsMessage(m) /\ IsFramed(m) /\ rest \in Seq(Items)
    /\ HeadIsRead(m) /\ m.version \in {"Http10", "Http11"}
    /\ field_count = Len(m.fields) /\ head_bytes = 1 + Len(m.fields) /\ body = 0
    /\ m.verdict = "None" /\ AllLegal(m.fields, Len(m.fields))
    /\ Len(m.fields) <= MaxFields /\ 2 + Len(m.fields) <= MaxHead
    /\ Remaining' = BodyLeft(m) \o rest

LEMMA HeadIsThere ==
    ASSUME ReaderInv, StepInv, LineIsTaken, phase = "Headers", NextLine = <<>>
    PROVE  \E m, rest : HeadEnds(m, rest)
<1>1. /\ failure = "None" /\ unread # <<>> /\ incoming' = incoming /\ unread' = Tail(unread)
      /\ head_bytes + 1 <= MaxHead
    BY DEF LineIsTaken, streamVars
<1>2. PICK m, rest :
          /\ IsReading(m, rest) /\ Within(m, rest)
          /\ IsMessage(m) /\ Means(m) /\ IsFramed(m) /\ rest \in Seq(Items)
          /\ m.verdict = "None"
    BY <1>1, MidMessage
<1>3. InHead(m, rest)
    BY <1>2 DEF Within
<1>4. field_count = Len(m.fields) /\ Remaining' = BodyLeft(m) \o rest
    BY <1>1, <1>2, <1>3, AtAField
<1>5. /\ AllLegal(m.fields, Len(m.fields)) /\ headers = Parsed(m, Len(m.fields))
      /\ version = m.version /\ body = 0 /\ head_bytes = 1 + Len(m.fields)
    BY <1>3, <1>4 DEF InHead
<1>6. HeadIsRead(m) /\ m.version \in {"Http10", "Http11"}
    BY <1>2, <1>5 DEF HeadIsRead, ReaderInv, RequestInv
<1>7. Len(m.fields) <= MaxFields /\ 2 + Len(m.fields) <= MaxHead
    <2>1. PICK k \in Nat : k = Len(m.fields)
        BY <1>2, PartsOfAMessage
    <2>2. k <= MaxFields
        BY <1>1, <1>4, <2>1 DEF ReaderInv, CountInv
    <2>3. 2 + k <= MaxHead
        BY <1>1, <1>5, <2>1, Bounds
    <2>4. QED
        BY <2>1, <2>2, <2>3
<1>8. QED
    BY <1>2, <1>4, <1>5, <1>6, <1>7 DEF HeadEnds

LEMMA CompleteHeadKeepsStep ==
    ASSUME ReaderInv, StepInv, LineIsTaken, CompleteHead
    PROVE  StepInv'
<1>1. /\ failure = "None" /\ UNCHANGED <<conversation, incoming>>
      /\ phase = "Headers" /\ NextLine = <<>>
    BY DEF LineIsTaken, streamVars, CompleteHead
<1>2. PICK m, rest : HeadEnds(m, rest)
    BY <1>1, HeadIsThere
<1>3. /\ IsReading(m, rest) /\ IsMessage(m) /\ IsFramed(m) /\ rest \in Seq(Items)
      /\ HeadIsRead(m) /\ m.version \in {"Http10", "Http11"}
      /\ m.verdict = "None" /\ body = 0
      /\ Remaining' = BodyLeft(m) \o rest
    BY <1>2 DEF HeadEnds
<1>4. PICK measured : measured = MeasureBody
    OBVIOUS
<1>5. /\ measured.error \in Errors \cup {"None"} /\ measured.bytes \in 0..MaxDrain
      /\ measured.chunked \in BOOLEAN
    BY <1>4, MeasuredInBounds DEF ReaderInv, RequestInv
<1>6. /\ measured.error = "None" /\ measured.chunked =>
            FieldsNamed(m, "transfer-encoding") # {} /\ DeclaredLength(m) = {ChunkTotal(m.chunks)}
      /\ measured.error = "None" /\ ~measured.chunked =>
            FieldsNamed(m, "transfer-encoding") = {} /\ DeclaredLength(m) = {measured.bytes}
      /\ measured.error # "None" => \A n \in DeclaredLength(m) : n \in Nat /\ n > MaxDrain
    BY <1>3, <1>4, MeasureReads
<1>7. HostIsWrong <=>
          Cardinality(FieldsNamed(m, "host")) \notin (IF m.version = "Http11" THEN {1} ELSE {0, 1})
    BY <1>3, HostReads
<1>8. CASE HostIsWrong
    <2>1. Fails("Malformed") /\ "Malformed" \in Errors
        BY <1>8 DEF CompleteHead, Errors
    <2>2. ~Acceptable(m) /\ ~Drainable(m)
        BY <1>3, <1>7, <1>8, IllFormed
    <2>3. IsUnacceptable(m, rest)
        BY <1>3, <2>2, NotAnError DEF IsUnacceptable
    <2>4. QED
        BY <1>1, <2>1, <2>3, FailsOnIt
<1>9. CASE ~HostIsWrong /\ measured.error # "None"
    <2>1. Fails(measured.error) /\ measured.error \in Errors
        BY <1>4, <1>5, <1>9 DEF CompleteHead
    <2>2. ~Acceptable(m) /\ ~Drainable(m)
        <3>1. \A n \in DeclaredLength(m) : n \in Nat /\ n > MaxDrain
            BY <1>6, <1>9
        <3>2. \A n \in Nat : n > MaxDrain => ~(n <= MaxBody) /\ ~(n <= MaxDrain)
            BY Bounds
        <3>3. QED
            BY <3>1, <3>2 DEF Acceptable, Drainable
    <2>3. IsUnacceptable(m, rest)
        BY <1>3, <2>2, NotAnError DEF IsUnacceptable
    <2>4. QED
        BY <1>1, <2>1, <2>3, FailsOnIt
<1>10. ASSUME ~HostIsWrong, measured.error = "None"
       PROVE  HeadIsLegal(m)
    BY <1>2, <1>3, <1>7, <1>10 DEF HeadEnds, HeadIsLegal
<1>11. CASE ~HostIsWrong /\ measured.error = "None" /\ measured.chunked
    <2>1. /\ phase' = "ChunkSize" /\ results' = results /\ failure' = failure
          /\ body' = body /\ field_count' = field_count /\ head_bytes' = head_bytes + 1
        BY <1>1, <1>4, <1>11 DEF CompleteHead, GoesRound, requestVars, LineIsTaken
    <2>2. m.bytes = 0 /\ m.chunks # <<>> /\ DeclaredLength(m) = {ChunkTotal(m.chunks)}
        BY <1>3, <1>6, <1>11 DEF IsFramed
    <2>3. Remaining' = ChunksLeft(m, 0) \o rest
        BY <1>3, <2>2, BodyLeftIs
    <2>4. Len(m.chunks) \in Nat /\ Len(m.chunks) # 0 /\ Len(m.fields) \in Nat
        BY <1>3, <2>2, PartsOfAMessage
    <2>5. 0 \in 0..(Len(m.chunks) - 1)
        BY <2>4
    <2>6. AllLegal(m.chunks, 0)
        <3>1. 1..0 = {}
            OBVIOUS
        <3>2. QED
            BY <3>1 DEF AllLegal
    <2>7. InChunks(m, 0)
        BY <1>10, <1>11, <2>2, <2>6 DEF InChunks
    <2>8. body' = Subtotals(m.chunks)[0]
        BY <1>3, <2>1, SubtotalsAre
    <2>9. head_bytes' = 2 + Len(m.fields) /\ field_count' = Len(m.fields)
        <3>1. head_bytes = 1 + Len(m.fields) /\ field_count = Len(m.fields)
            BY <1>2 DEF HeadEnds
        <3>2. QED
            BY <2>1, <2>4, <3>1
    <2>10. AtChunkSize(m, rest)'
        BY <2>3, <2>5, <2>7, <2>8, <2>9 DEF AtChunkSize, InChunks
    <2>11. Within(m, rest)'
        BY <2>1, <2>10 DEF Within
    <2>12. QED
        BY <1>1, <1>3, <2>1, <2>11, StaysAt
<1>12. CASE ~HostIsWrong /\ measured.error = "None" /\ ~measured.chunked
    <2>1. PICK n : n = measured.bytes
        OBVIOUS
    <2>2. n \in 0..MaxDrain /\ n \in Nat /\ n <= MaxDrain
        BY <1>5, <2>1, Bounds
    <2>3. m.chunks = <<>> /\ m.bytes = n /\ DeclaredLength(m) = {n}
        BY <1>3, <1>6, <1>12, <2>1, <2>2 DEF IsFramed
    <2>4. Remaining' = Bytes(n) \o rest
        BY <1>3, <2>3 DEF BodyLeft
    <2>5. HeadIsLegal(m) /\ WellFormed(m) /\ WithinLimits(m)
        BY <1>3, <1>10, <1>12, <2>3, LegalHeadIsWellFormed
    <2>6. CASE n > MaxBody
        <3> DEFINE r == [error |-> "BodyTooLarge", continues |-> TRUE, version |-> version, body |-> body]
        <3>1. /\ body_bytes' = n /\ phase' = "Discard" /\ results' = Append(results, r)
              /\ failure' = failure
            <4>1. ~(n = 0) /\ ~(n \in 1..MaxBody)
                BY <2>2, <2>6, Bounds
            <4>2. /\ body_bytes' = n /\ phase' = "Discard" /\ Returns("BodyTooLarge", TRUE)
                  /\ failure' = failure
                BY <1>4, <1>12, <2>1, <4>1 DEF CompleteHead
            <4>3. QED
                BY <4>2 DEF Returns
        <3>2. r \in Results /\ r.error = "BodyTooLarge" /\ r.continues = TRUE
            BY DEF Results, ReaderInv, RequestInv, SizeInv, Errors
        <3> HIDE DEF r
        <3>3. IsJudged(m, r)
            BY <2>2, <2>3, <2>5, <2>6, <3>2, DropIsRight
        <3>4. phase' = "Discard" /\ Remaining' = Bytes(body_bytes') \o rest
            BY <2>4, <3>1
        <3>5. UNCHANGED <<conversation, failure>> /\ r.continues
            BY <1>1, <3>1, <3>2
        <3>6. QED
            BY <1>1, <1>3, <3>1, <3>2, <3>3, <3>4, <3>5, FinishesRightly
    <2>7. CASE n = 0
        <3>1. Finishes
            <4>1. ~(n > MaxBody) /\ ~(n \in 1..MaxBody)
                BY <2>7, Bounds
            <4>2. QED
                BY <1>4, <1>12, <2>1, <4>1 DEF CompleteHead
        <3>2. Remaining' = rest
            BY <1>3, <2>4, <2>7, NoBytes
        <3>3. DeclaredLength(m) = {body}
            BY <1>3, <2>3, <2>7
        <3>4. QED
            BY <1>1, <1>3, <2>5, <3>1, <3>2, <3>3, FinishesKeepsStep
    <2>8. CASE n \in 1..MaxBody
        <3>1. /\ body_bytes' = n /\ phase' = "Body" /\ results' = results /\ failure' = failure
              /\ body' = body
            <4>1. ~(n > MaxBody) /\ ~(n = 0)
                BY <2>8, Bounds
            <4>2. QED
                BY <1>4, <1>12, <2>1, <4>1 DEF CompleteHead, GoesRound, requestVars
        <3>2. InBody(m, rest)'
            BY <1>3, <2>3, <2>4, <2>5, <3>1 DEF InBody, IsSized
        <3>3. Within(m, rest)'
            BY <3>1, <3>2 DEF Within
        <3>4. QED
            BY <1>1, <1>3, <3>1, <3>3, StaysAt
    <2>9. QED
        <3>1. n > MaxBody \/ n = 0 \/ n \in 1..MaxBody
            BY <2>2, Bounds
        <3>2. QED
            BY <2>6, <2>7, <2>8, <3>1
<1>13. QED
    BY <1>5, <1>8, <1>9, <1>11, <1>12

-----------------------------------------------------------------------------
(* Chunks and trailers.                                                    *)

LEMMA ChunkSizeKeepsStep ==
    ASSUME ReaderInv, StepInv, LineIsTaken, HandleChunkSize
    PROVE  StepInv'
<1>1. /\ failure = "None" /\ unread # <<>> /\ Len(NextLine) <= MaxLine
      /\ UNCHANGED <<conversation, incoming>> /\ unread' = Tail(unread)
      /\ phase = "ChunkSize" /\ head_bytes' = head_bytes
      /\ UNCHANGED <<body, field_count>>
    BY DEF LineIsTaken, streamVars, HandleChunkSize, requestVars
<1>2. PICK m, rest :
          /\ IsReading(m, rest) /\ Within(m, rest)
          /\ IsMessage(m) /\ Means(m) /\ IsFramed(m) /\ rest \in Seq(Items)
          /\ m.verdict = "None"
    BY <1>1, MidMessage
<1>3. PICK n \in 0..(Len(m.chunks) - 1) :
          /\ InChunks(m, n)
          /\ head_bytes = 2 + Len(m.fields) /\ field_count = Len(m.fields)
          /\ body = Subtotals(m.chunks)[n]
          /\ Remaining = ChunksLeft(m, n) \o rest
    BY <1>1, <1>2 DEF Within, AtChunkSize
<1>4. PICK chunk : chunk = m.chunks[n + 1]
    OBVIOUS
<1>5. /\ n \in Nat /\ Len(m.chunks) \in Nat /\ n + 1 \in 1..Len(m.chunks)
      /\ NextLine = chunk.text
      /\ Remaining' = IF chunk.n = 0 THEN ChunksLeft(m, n + 1) \o rest
                      ELSE Bytes(chunk.n) \o (<<ChunkEnd>> \o (ChunksLeft(m, n + 1) \o rest))
    BY <1>1, <1>2, <1>3, <1>4, AtASize
<1>6. chunk.text \in Seq(STRING) /\ chunk.n \in Nat /\ ChunkMeans(chunk)
    BY <1>2, <1>4, <1>5, PartsOfAMessage DEF Means
<1>7. PICK size : size = ParseChunkSize(NextLine)
    OBVIOUS
<1>8. /\ chunk.verdict = "None" <=> size.error = "None"
      /\ chunk.verdict = "None" => size.bytes = chunk.n
      /\ size.error \in {"None", "Malformed", "BodyTooLarge"}
    BY <1>1, <1>5, <1>6, <1>7, ChunkReads
<1>9. m.chunks # <<>> /\ DeclaredLength(m) = {ChunkTotal(m.chunks)}
    BY <1>3 DEF InChunks
<1>10. chunk.verdict = "None" => (chunk.n = 0 <=> n + 1 = Len(m.chunks))
    <2>1. DOMAIN m.chunks = 1..Len(m.chunks)
        BY <1>2, PartsOfAMessage
    <2>2. QED
        BY <1>2, <1>4, <1>5, <1>9, <2>1 DEF IsFramed
<1>11. PICK total \in Nat, before \in Nat, behind \in Nat :
           /\ total = ChunkTotal(m.chunks) /\ before = Subtotals(m.chunks)[n]
           /\ behind = Subtotals(m.chunks)[n + 1] /\ behind = before + chunk.n /\ behind <= total
           /\ n + 1 = Len(m.chunks) => behind = total
    <2>1. n \in 0..Len(m.chunks) /\ n + 1 \in 0..Len(m.chunks)
        BY <1>5
    <2>2. QED
        BY <1>2, <1>3, <1>4, <2>1, SubtotalsAre
<1>12. CASE chunk.verdict # "None"
    <2>1. Fails(size.error) /\ size.error \in Errors
        BY <1>7, <1>8, <1>12 DEF HandleChunkSize, Errors
    <2>2. ~Acceptable(m) /\ ~Drainable(m)
        BY <1>2, <1>4, <1>5, <1>12, IllFormed
    <2>3. IsUnacceptable(m, rest)
        BY <1>2, <2>2, NotAnError DEF IsUnacceptable
    <2>4. QED
        BY <1>1, <2>1, <2>3, FailsOnIt
<1>13. ASSUME chunk.verdict = "None" PROVE InChunks(m, n + 1)
    <2>1. AllLegal(m.chunks, n + 1)
        BY <1>3, <1>4, <1>5, <1>13, OneMoreLegal DEF InChunks
    <2>2. QED
        BY <1>3, <2>1 DEF InChunks
<1>14. CASE chunk.verdict = "None" /\ chunk.n = 0
    <2>1. phase' = "Trailers" /\ results' = results /\ failure' = failure
        BY <1>7, <1>8, <1>14 DEF HandleChunkSize, GoesRound
    <2>2. n + 1 = Len(m.chunks) /\ InChunks(m, Len(m.chunks))
        BY <1>10, <1>13, <1>14
    <2>3. Remaining' = TrailersLeft(m, 0) \o rest
        BY <1>2, <1>5, <1>14, <2>2, ChunksLeftAtTheEnd
    <2>4. body = ChunkTotal(m.chunks)
        BY <1>3, <1>11, <1>14, <2>2
    <2>5. PICK k \in Nat, t \in Nat : k = Len(m.fields) /\ t = Len(m.trailers)
        BY <1>2, PartsOfAMessage
    <2>6. 0 \in 0..Len(m.trailers) /\ field_count' = Len(m.fields) + 0 /\ head_bytes' = 2 + field_count'
        BY <1>1, <1>3, <2>5
    <2>7. AllLegal(m.trailers, 0)
        <3>1. 1..0 = {}
            OBVIOUS
        <3>2. QED
            BY <3>1 DEF AllLegal
    <2>8. InTrailers(m, rest)'
        BY <1>1, <2>2, <2>3, <2>4, <2>6, <2>7 DEF InTrailers
    <2>9. Within(m, rest)'
        BY <2>1, <2>8 DEF Within
    <2>10. QED
        BY <1>1, <1>2, <2>1, <2>9, StaysAt
<1>15. CASE chunk.verdict = "None" /\ chunk.n # 0 /\ ~ChunkFits(chunk.n)
    <2>1. Fails("BodyTooLarge") /\ "BodyTooLarge" \in Errors
        BY <1>7, <1>8, <1>15 DEF HandleChunkSize, Errors
    <2>2. ~(total <= MaxBody)
        <3>1. ~(before + chunk.n <= MaxBody)
            BY <1>3, <1>11, <1>15 DEF ChunkFits
        <3>2. MaxBody \in Nat
            BY Bounds
        <3>3. QED
            BY <1>6, <1>11, <3>1, <3>2
    <2>3. ~Acceptable(m) /\ ~Drainable(m)
        BY <1>9, <1>11, <2>2 DEF Acceptable, Drainable
    <2>4. IsUnacceptable(m, rest)
        BY <1>2, <2>3, NotAnError DEF IsUnacceptable
    <2>5. QED
        BY <1>1, <2>1, <2>4, FailsOnIt
<1>16. CASE chunk.verdict = "None" /\ chunk.n # 0 /\ ChunkFits(chunk.n)
    <2>1. chunk_bytes' = chunk.n /\ phase' = "ChunkData" /\ results' = results /\ failure' = failure
        BY <1>7, <1>8, <1>16 DEF HandleChunkSize, GoesRound
    <2>2. PICK k : k = n + 1
        OBVIOUS
    <2>3. k \in 1..(Len(m.chunks) - 1) /\ k - 1 = n
        BY <1>5, <1>10, <1>16, <2>2
    <2>4. InChunks(m, k)'
        BY <1>13, <1>16, <2>2 DEF InChunks
    <2>5. body' = Subtotals(m.chunks)[k - 1] /\ chunk_bytes' = m.chunks[k].n
        BY <1>1, <1>3, <1>4, <2>1, <2>2, <2>3
    <2>6. Remaining' = Bytes(chunk_bytes') \o (<<ChunkEnd>> \o (ChunksLeft(m, k) \o rest))
        BY <1>5, <1>16, <2>1, <2>2
    <2>7. AtChunkData(m, rest)'
        BY <1>1, <1>3, <2>3, <2>4, <2>5, <2>6 DEF AtChunkData
    <2>8. Within(m, rest)'
        BY <2>1, <2>7 DEF Within
    <2>9. QED
        BY <1>1, <1>2, <2>1, <2>8, StaysAt
<1>17. QED
    BY <1>12, <1>14, <1>15, <1>16

LEMMA TrailersEndKeepsStep ==
    ASSUME ReaderInv, StepInv, LineIsTaken, phase = "Trailers", NextLine = <<>>, Finishes
    PROVE  StepInv'
<1>1. /\ failure = "None" /\ unread # <<>> /\ head_bytes + 1 <= MaxHead
      /\ UNCHANGED <<conversation, incoming>> /\ unread' = Tail(unread)
    BY DEF LineIsTaken, streamVars
<1>2. PICK m, rest :
          /\ IsReading(m, rest) /\ Within(m, rest)
          /\ IsMessage(m) /\ Means(m) /\ IsFramed(m) /\ rest \in Seq(Items)
          /\ m.verdict = "None"
    BY <1>1, MidMessage
<1>3. PICK n \in 0..Len(m.trailers) :
          /\ InChunks(m, Len(m.chunks))
          /\ field_count = Len(m.fields) + n /\ head_bytes = 2 + field_count
          /\ AllLegal(m.trailers, n)
          /\ body = ChunkTotal(m.chunks)
          /\ Remaining = TrailersLeft(m, n) \o rest
    BY <1>2 DEF Within, InTrailers
<1>4. n = Len(m.trailers) /\ Remaining' = rest
    BY <1>1, <1>2, <1>3, AtATrailer
<1>5. m.chunks # <<>> /\ DeclaredLength(m) = {body}
    BY <1>3 DEF InChunks
<1>6. WellFormed(m)
    BY <1>2, <1>3, <1>4, LegalChunksAreWellFormed
<1>7. WithinLimits(m)
    <2>1. PICK k \in Nat, t \in Nat : k = Len(m.fields) /\ t = Len(m.trailers)
        BY <1>2, PartsOfAMessage
    <2>2. field_count = k + t /\ head_bytes = 2 + (k + t)
        BY <1>3, <1>4, <2>1
    <2>3. k + t <= MaxFields
        BY <1>1, <2>2 DEF ReaderInv, CountInv
    <2>4. (2 + (k + t)) + 1 <= MaxHead /\ MaxHead \in Nat
        BY <1>1, <2>2, Bounds
    <2>5. 3 + k + t <= MaxHead
        BY <2>4, TrailersAdd
    <2>6. QED
        BY <1>2, <1>5, <2>1, <2>3, <2>5, LimitsAre
<1>8. QED
    BY <1>2, <1>4, <1>5, <1>6, <1>7, FinishesKeepsStep

LEMMA ReadNextLineKeepsStep ==
    ASSUME ReaderInv, StepInv, ReadNextLine
    PROVE  StepInv'
<1>1. failure = "None" /\ phase \in LinePhases /\ unread # <<>> /\ UNCHANGED conversation
    BY DEF ReadNextLine, streamVars, ReaderInv, LatchInv
<1>2. CASE LineTooLong
    BY <1>1, <1>2, LineTooLongKeepsStep
<1>3. CASE HeadTooLarge
    BY <1>1, <1>3, HeadTooLargeKeepsStep
<1>4. CASE ~LineTooLong /\ ~HeadTooLarge
    <2>1. LineIsTaken /\ HandleLine
        BY <1>1, <1>4 DEF ReadNextLine, LineIsTaken
    <2>2. QED
        BY <2>1, RequestLineKeepsStep, HeaderLineKeepsStep, CompleteHeadKeepsStep, ChunkSizeKeepsStep,
           TrailerLineKeepsStep, TrailersEndKeepsStep DEF HandleLine
<1>5. QED
    BY <1>2, <1>3, <1>4

-----------------------------------------------------------------------------
(* Bytes.                                                                  *)

LEMMA DiscardKeepsStep ==
    ASSUME ReaderInv, StepInv, DiscardBody
    PROVE  StepInv'
<1>1. /\ busy /\ phase = "Discard"
      /\ UNCHANGED <<conversation, incoming, failure, results>> /\ failure = "None"
    BY DEF DiscardBody, streamVars, ReaderInv, LatchInv
<1>2. /\ StreamInv /\ results \in Seq(Results) /\ conversation \in Conversations
      /\ body_bytes \in Nat
    BY Bounds DEF ReaderInv, SizeInv, LatchInv, StepInv
<1>3. PICK rest : rest = Behind(Len(results))
    OBVIOUS
<1>4. Len(results) <= Len(conversation) /\ Remaining = Bytes(body_bytes) \o rest
    BY <1>1, <1>3 DEF StepInv, Aligned, Within
<1>5. rest \in Seq(Items)
    <2>1. Len(conversation) \in Nat /\ Len(results) \in Nat
        BY <1>2, BehindIs
    <2>2. Len(results) \in 0..Len(conversation)
        BY <1>4, <2>1
    <2>3. QED
        BY <1>2, <1>3, <2>2, BehindIs
<1>6. PICK there \in Nat : there = Len(unread)
    BY <1>2 DEF StreamInv
<1>7. PICK dropped : dropped = IF body_bytes <= there THEN body_bytes ELSE there
    OBVIOUS
<1>8. dropped \in Nat /\ dropped <= body_bytes /\ dropped <= there
    BY <1>2, <1>6, <1>7
<1>9. /\ unread' = DropItems(dropped)
      /\ IF body_bytes - dropped > 0
         THEN body_bytes' = body_bytes - dropped /\ phase' = phase
         ELSE ArmNextRequest
    BY <1>6, <1>7 DEF DiscardBody, LeftToDrop
<1>10. Remaining' = Bytes(body_bytes - dropped) \o rest
    <2>1. DropItems(dropped) \o incoming = Bytes(body_bytes - dropped) \o rest
        BY <1>2, <1>4, <1>5, <1>6, <1>8, BytesDropped
    <2>2. QED
        BY <1>1, <1>9, <2>1 DEF Remaining
<1>11. FlattenSeq(From(Sent(conversation'), Len(results'))) = rest
    BY <1>1, <1>3 DEF Behind
<1>12. Aligned'
    <2>1. CASE body_bytes - dropped > 0
        <3>1. phase' = "Discard" /\ Remaining' = Bytes(body_bytes') \o rest
            BY <1>1, <1>9, <1>10, <2>1
        <3>2. QED
            BY <1>1, <1>4, <1>11, <3>1 DEF Aligned, Behind
    <2>2. CASE ~(body_bytes - dropped > 0)
        <3>1. body_bytes - dropped = 0
            BY <1>2, <1>8, <2>2
        <3>2. Remaining' = rest
            BY <1>5, <1>10, <3>1, NoBytes
        <3>3. ArmNextRequest
            BY <1>9, <2>2
        <3>4. /\ phase' = "RequestLine" /\ head_bytes' = 0 /\ field_count' = 0 /\ body' = 0 /\ headers' = <<>>
            BY <3>3 DEF ArmNextRequest
        <3>5. QED
            BY <1>1, <1>4, <1>11, <3>2, <3>4 DEF Aligned, AtRequestLine, Behind
    <2>3. QED
        BY <2>1, <2>2
<1>13. AnsweredRightly'
    BY <1>1 DEF StepInv, AnsweredRightly, EachMessageIsJudgedAlone
<1>14. QED
    BY <1>1, <1>2, <1>12, <1>13 DEF StepInv

LEMMA TakeBodyKeepsStep ==
    ASSUME ReaderInv, StepInv, TakeBody
    PROVE  StepInv'
<1> DEFINE r == [error |-> "None", continues |-> TRUE, version |-> version, body |-> body_bytes]
<1>1. /\ busy /\ phase = "Body" /\ HaveArrived(body_bytes)
      /\ UNCHANGED <<conversation, incoming, failure>> /\ failure = "None"
      /\ unread' = DropItems(body_bytes) /\ results' = Append(results, r)
      /\ phase' = "RequestLine" /\ head_bytes' = 0 /\ field_count' = 0 /\ body' = 0 /\ headers' = <<>>
    BY DEF TakeBody, streamVars, ReaderInv, LatchInv, ArmNextRequest
<1>2. StreamInv /\ body_bytes \in 0..MaxBody /\ body_bytes \in Nat /\ body_bytes <= MaxBody
    BY <1>1, Bounds DEF ReaderInv, SizeInv
<1>3. r \in Results /\ r.error = "None" /\ r.continues /\ r.body = body_bytes
    BY <1>2 DEF Results, ReaderInv, RequestInv
<1> HIDE DEF r
<1>4. PICK m, rest :
          /\ IsReading(m, rest) /\ Within(m, rest)
          /\ IsMessage(m) /\ Means(m) /\ IsFramed(m) /\ rest \in Seq(Items)
          /\ m.verdict = "None"
    BY <1>1, MidMessage
<1>5. /\ HeadIsLegal(m) /\ m.chunks = <<>> /\ DeclaredLength(m) = {body_bytes}
      /\ Remaining = Bytes(body_bytes) \o rest
    BY <1>1, <1>4 DEF Within, InBody, IsSized
<1>6. Remaining' = rest
    <2>1. PICK n \in Nat : n = body_bytes
        BY <1>2
    <2>2. n <= n /\ n <= Len(unread) /\ n - n = 0
        <3>1. Len(unread) \in Nat
            BY <1>2 DEF StreamInv
        <3>2. Len(unread) >= n
            BY <1>1, <2>1 DEF HaveArrived
        <3>3. QED
            BY <3>1, <3>2
    <2>3. DropItems(n) \o incoming = Bytes(n - n) \o rest
        BY <1>2, <1>4, <1>5, <2>1, <2>2, BytesDropped
    <2>4. DropItems(n) \o incoming = rest
        BY <1>4, <2>2, <2>3, NoBytes
    <2>5. QED
        BY <1>1, <2>1, <2>4 DEF Remaining
<1>7. AtRequestLine(rest)'
    BY <1>1, <1>6 DEF AtRequestLine
<1>8. WellFormed(m) /\ WithinLimits(m)
    BY <1>4, <1>5, LegalHeadIsWellFormed
<1>9. IsJudged(m, r)
    BY <1>2, <1>3, <1>5, <1>8, HandOverIsRight
<1>10. QED
    BY <1>1, <1>3, <1>4, <1>7, <1>9, FinishesRightly

LEMMA TakeChunkKeepsStep ==
    ASSUME ReaderInv, StepInv, TakeChunk
    PROVE  StepInv'
<1>1. /\ busy /\ phase = "ChunkData" /\ HaveArrived(chunk_bytes + 1)
      /\ UNCHANGED <<conversation, incoming, head_bytes, field_count>> /\ failure = "None"
      /\ unread' = DropItems(chunk_bytes + 1)
    BY DEF TakeChunk, streamVars, countVars, CrlfSize, ReaderInv, LatchInv
<1>2. StreamInv /\ chunk_bytes \in Nat
    BY Bounds DEF ReaderInv, SizeInv
<1>3. PICK m, rest :
          /\ IsReading(m, rest) /\ Within(m, rest)
          /\ IsMessage(m) /\ Means(m) /\ IsFramed(m) /\ rest \in Seq(Items)
          /\ m.verdict = "None"
    BY <1>1, MidMessage
<1>4. PICK n \in 1..(Len(m.chunks) - 1) :
          /\ InChunks(m, n)
          /\ head_bytes = 2 + Len(m.fields) /\ field_count = Len(m.fields)
          /\ body = Subtotals(m.chunks)[n - 1] /\ chunk_bytes = m.chunks[n].n
          /\ Remaining = Bytes(chunk_bytes) \o (<<ChunkEnd>> \o (ChunksLeft(m, n) \o rest))
    BY <1>1, <1>3 DEF Within, AtChunkData
<1>5. Len(m.chunks) \in Nat
    BY <1>3, PartsOfAMessage
<1>6. /\ n \in Nat /\ n <= Len(m.chunks) /\ n \in 0..(Len(m.chunks) - 1)
      /\ n - 1 \in 0..(Len(m.chunks) - 1) /\ (n - 1) + 1 = n
    BY <1>5
<1>7. PICK left : left = ChunksLeft(m, n) \o rest
    OBVIOUS
<1>8. left \in Seq(Items)
    <2>1. ChunksLeft(m, n) \in Seq(Items)
        BY <1>3, <1>6, ChunksLeftType
    <2>2. QED
        BY <1>3, <1>7, <2>1, Joined
<1>9. unread[chunk_bytes + 1] = ChunkEnd /\ DropItems(chunk_bytes + 1) \o incoming = left
    <2>1. Len(unread) \in Nat
        BY <1>2 DEF StreamInv
    <2>2. chunk_bytes + 1 <= Len(unread)
        BY <1>1, <1>2, <2>1 DEF HaveArrived
    <2>3. QED
        BY <1>2, <1>4, <1>7, <1>8, <2>2, ChunkDropped
<1>10. Remaining' = left
    BY <1>1, <1>9 DEF Remaining
<1>11. /\ body' = body + chunk_bytes /\ phase' = "ChunkSize" /\ results' = results /\ failure' = failure
    <2>1. unread[chunk_bytes + CrlfSize].kind = "crlf"
        BY <1>9 DEF ChunkEnd, Item, CrlfSize
    <2>2. QED
        BY <2>1 DEF TakeChunk, GoesRound
<1>12. body' = Subtotals(m.chunks)[n]
    <2>1. PICK before : before = n - 1
        OBVIOUS
    <2>2. before \in 0..(Len(m.chunks) - 1) /\ before + 1 = n
        BY <1>6, <2>1
    <2>3. Subtotals(m.chunks)[before + 1] = Subtotals(m.chunks)[before] + m.chunks[before + 1].n
        BY <1>3, <2>2, SubtotalsAre
    <2>4. QED
        BY <1>4, <1>11, <2>1, <2>2, <2>3
<1>13. AtChunkSize(m, rest)'
    BY <1>1, <1>4, <1>6, <1>7, <1>10, <1>12 DEF AtChunkSize, InChunks
<1>14. Within(m, rest)'
    BY <1>11, <1>13 DEF Within
<1>15. QED
    BY <1>1, <1>3, <1>11, <1>14, StaysAt

-----------------------------------------------------------------------------
(* The caller, and the steps that only wait.                               *)

LEMMA NothingReadKeepsStep ==
    ASSUME StepInv, Remaining' = Remaining,
           UNCHANGED <<conversation, phase, requestVars, failure, countVars, results>>
    PROVE  StepInv'
<1>1. AnsweredRightly'
    BY DEF StepInv, AnsweredRightly, EachMessageIsJudgedAlone
<1>2. failure' = "None" => Aligned'
    <2> HAVE failure' = "None"
    <2>1. Aligned
        BY DEF StepInv
    <2>2. FlattenSeq(From(Sent(conversation'), Len(results'))) = Behind(Len(results))
        BY DEF Behind
    <2>3. CASE phase = "RequestLine" /\ Len(results) <= Len(conversation) /\ AtRequestLine(Behind(Len(results)))
        BY <2>2, <2>3 DEF Aligned, AtRequestLine, Behind, requestVars, countVars
    <2>4. CASE /\ phase = "Discard" /\ Len(results) <= Len(conversation)
               /\ Remaining = Bytes(body_bytes) \o Behind(Len(results))
        BY <2>2, <2>4 DEF Aligned, Behind, requestVars, countVars
    <2>5. CASE \E m, rest : IsReading(m, rest) /\ Within(m, rest)
        <3>1. PICK m, rest : IsReading(m, rest) /\ Within(m, rest)
            BY <2>5
        <3>2. IsReading(m, rest)'
            BY <3>1 DEF IsReading, Behind
        <3>3. Within(m, rest)'
            BY <3>1 DEF Within, InHead, InBody, AtChunkSize, AtChunkData, InTrailers, requestVars, countVars
        <3>4. QED
            BY <3>2, <3>3 DEF Aligned
    <2>6. QED
        BY <2>1, <2>3, <2>4, <2>5 DEF Aligned
<1>3. QED
    BY <1>1, <1>2 DEF StepInv

LEMMA AppendItemsKeepsStep ==
    ASSUME ReaderInv, StepInv, AppendItems
    PROVE  StepInv'
<1>1. PICK n \in 1..Len(incoming) :
          /\ unread' = unread \o SubSeq(incoming, 1, n)
          /\ incoming' = SubSeq(incoming, n + 1, Len(incoming))
    BY DEF AppendItems
<1>2. incoming \in Seq(Items) /\ unread \in Seq(Items) /\ Len(incoming) \in Nat
    BY DEF ReaderInv, StreamInv
<1> DEFINE here  == SubSeq(incoming, 1, n)
           there == SubSeq(incoming, n + 1, Len(incoming))
<1>3. here \in Seq(Items) /\ there \in Seq(Items) /\ here \o there = incoming
    <2>1. n \in Nat /\ n <= Len(incoming)
        BY <1>2
    <2>2. Len(here) = n /\ \A i \in 1..n : here[i] = incoming[i]
        BY <1>2, <2>1
    <2>3. Len(there) = Len(incoming) - n /\ \A i \in 1..(Len(incoming) - n) : there[i] = incoming[n + i]
        BY <1>2, <2>1
    <2>4. here \in Seq(Items) /\ there \in Seq(Items)
        BY <1>2, <2>1
    <2> HIDE DEF here, there
    <2>5. here \o there \in Seq(Items) /\ Len(here \o there) = Len(incoming)
        BY <1>2, <2>1, <2>2, <2>3, <2>4
    <2>6. ASSUME NEW i \in 1..Len(incoming) PROVE (here \o there)[i] = incoming[i]
        <3>1. CASE i <= n
            BY <2>1, <2>2, <2>3, <2>4, <3>1
        <3>2. CASE i > n
            <4>1. i - n \in 1..(Len(incoming) - n) /\ n + (i - n) = i
                BY <1>2, <2>1, <3>2
            <4>2. (here \o there)[i] = there[i - n]
                BY <1>2, <2>1, <2>2, <2>3, <2>4, <3>2
            <4>3. QED
                BY <2>3, <4>1, <4>2
        <3>3. i <= n \/ i > n
            BY <1>2, <2>1
        <3>4. QED
            BY <3>1, <3>2, <3>3
    <2>7. QED
        BY <1>2, <2>4, <2>5, <2>6, SeqEqual
<1>4. Remaining' = Remaining
    <2> HIDE DEF here, there
    <2>1. (unread \o here) \o there = unread \o incoming
        BY <1>2, <1>3, Regroup
    <2>2. unread' = unread \o here /\ incoming' = there
        BY <1>1 DEF here, there
    <2>3. QED
        BY <2>1, <2>2 DEF Remaining
<1>5. UNCHANGED <<conversation, phase, requestVars, failure, countVars, results>>
    BY DEF AppendItems
<1>6. QED
    BY <1>4, <1>5, NothingReadKeepsStep

LEMMA CallAfterFailureKeepsStep ==
    ASSUME ReaderInv, StepInv, CallAfterFailure
    PROVE  StepInv'
<1>1. /\ failure # "None" /\ failure' = failure /\ conversation' = conversation
      /\ Returns(failure, FALSE)
    BY DEF CallAfterFailure, streamVars
<1> DEFINE r == [error |-> failure, continues |-> FALSE, version |-> version, body |-> body]
<1>2. /\ results \in Seq(Results) /\ results # <<>> /\ Last(results).continues = FALSE
      /\ r \in Results
    BY <1>1 DEF ReaderInv, LatchInv, Results, RequestInv, SizeInv
<1>3. results' = Append(results, r)
    BY <1>1 DEF Returns
<1> HIDE DEF r
<1>4. PICK n \in Nat : n = Len(results)
    BY <1>2
<1>5. n # 0 /\ n \in 1..n /\ results[n].continues = FALSE
    BY <1>2, <1>4 DEF Last
<1>6. Len(results') = n + 1 /\ \A i \in 1..n : results'[i] = results[i]
    BY <1>2, <1>3, <1>4, AppendProperties
<1>7. EachMessageIsJudgedAlone'
    <2>1. ASSUME NEW i \in 1..(n + 1), \A j \in 1..(i - 1) : results'[j].continues
          PROVE  IsJudged(conversation[i], results'[i])
        <3>1. i # n + 1
            <4>1. CASE i = n + 1
                <5>1. n \in 1..(i - 1)
                    BY <1>5, <4>1
                <5>2. QED
                    BY <1>5, <1>6, <2>1, <5>1
            <4>2. QED
                BY <4>1
        <3>2. i \in 1..n
            BY <3>1
        <3>3. \A j \in 1..(i - 1) : results[j].continues
            <4>1. \A j \in 1..(i - 1) : j \in 1..n
                BY <3>2
            <4>2. QED
                BY <1>6, <2>1, <4>1
        <3>4. IsJudged(conversation[i], results[i])
            BY <1>4, <3>2, <3>3 DEF StepInv, AnsweredRightly, EachMessageIsJudgedAlone
        <3>5. QED
            BY <1>6, <3>2, <3>4
    <2>2. QED
        BY <1>1, <1>6, <2>1 DEF EachMessageIsJudgedAlone
<1>8. QED
    BY <1>1, <1>7 DEF StepInv, AnsweredRightly

-----------------------------------------------------------------------------
(* Every step.                                                             *)

LEMMA InitStepInv == Init => StepInv
<1> SUFFICES ASSUME Init PROVE StepInv
    OBVIOUS
<1>1. /\ conversation \in Conversations /\ unread = <<>> /\ results = <<>> /\ phase = "RequestLine"
      /\ incoming = FlattenSeq(Sent(conversation))
      /\ headers = <<>> /\ body = 0 /\ head_bytes = 0 /\ field_count = 0
    BY DEF Init, Sent
<1>2. Len(results) = 0 /\ 1..0 = {}
    BY <1>1
<1>3. incoming = Behind(0) /\ Behind(0) \in Seq(Items) /\ Len(conversation) \in Nat
    <2>1. Len(conversation) \in Nat /\ Behind(0) = FlattenSeq(Sent(conversation))
        BY <1>1, BehindIs
    <2>2. 0 \in 0..Len(conversation)
        BY <2>1
    <2>3. QED
        BY <1>1, <2>1, <2>2, BehindIs
<1>4. Remaining = Behind(0)
    BY <1>1, <1>3 DEF Remaining
<1>5. Aligned
    BY <1>1, <1>2, <1>3, <1>4 DEF Aligned, AtRequestLine
<1>6. AnsweredRightly
    BY <1>2 DEF AnsweredRightly, EachMessageIsJudgedAlone
<1>7. QED
    BY <1>1, <1>5, <1>6 DEF StepInv

LEMMA NextStepInv == ReaderInv /\ StepInv /\ [Next]_vars => StepInv'
<1> SUFFICES ASSUME ReaderInv, StepInv, [Next]_vars PROVE StepInv'
    OBVIOUS
<1>1. CASE AppendItems
    BY <1>1, AppendItemsKeepsStep
<1>2. CASE Call
    <2>1. /\ Remaining' = Remaining
          /\ UNCHANGED <<conversation, phase, requestVars, failure, countVars, results>>
        BY <1>2 DEF Call, streamVars, Remaining
    <2>2. QED
        BY <2>1, NothingReadKeepsStep
<1>3. CASE CallAfterFailure
    BY <1>3, CallAfterFailureKeepsStep
<1>4. CASE ReadNextLine
    BY <1>4, ReadNextLineKeepsStep
<1>5. CASE AwaitLine \/ AwaitBytes
    <2>1. /\ Remaining' = Remaining
          /\ UNCHANGED <<conversation, phase, requestVars, failure, countVars, results>>
        BY <1>5 DEF AwaitLine, AwaitBytes, NothingYet, streamVars, Remaining
    <2>2. QED
        BY <2>1, NothingReadKeepsStep
<1>6. CASE DiscardBody
    BY <1>6, DiscardKeepsStep
<1>7. CASE TakeBody
    BY <1>7, TakeBodyKeepsStep
<1>8. CASE TakeChunk
    BY <1>8, TakeChunkKeepsStep
<1>9. CASE UNCHANGED vars
    <2>1. /\ Remaining' = Remaining
          /\ UNCHANGED <<conversation, phase, requestVars, failure, countVars, results>>
        BY <1>9 DEF vars, streamVars, Remaining
    <2>2. QED
        BY <2>1, NothingReadKeepsStep
<1>10. QED
    BY <1>1, <1>2, <1>3, <1>4, <1>5, <1>6, <1>7, <1>8, <1>9 DEF Next, Iteration

LEMMA AlwaysStepInv == Spec => []StepInv
<1>1. Init => StepInv
    BY InitStepInv
<1>2. Spec => []ReaderInv
    BY AlwaysReaderInv
<1>3. ReaderInv /\ StepInv /\ [Next]_vars => StepInv'
    BY NextStepInv
<1>4. QED
    BY <1>1, <1>2, <1>3, PTL DEF Spec

LEMMA AlignedIsInStep ==
    ASSUME ReaderInv, StepInv
    PROVE  ReaderStaysInStep
<1> SUFFICES ASSUME phase = "RequestLine", failure = "None"
             PROVE  /\ Remaining # <<>> => Head(Remaining).kind = "request"
                    /\ RequestsIn(Remaining) = Len(conversation) - Len(results)
    BY DEF ReaderStaysInStep
<1>1. PICK n : n = Len(results)
    OBVIOUS
<1>2. n <= Len(conversation) /\ Remaining = Behind(n)
    BY <1>1 DEF StepInv, Aligned, Within, AtRequestLine
<1>3. conversation \in Conversations /\ n \in Nat /\ Len(conversation) \in Nat
    BY <1>1, BehindIs DEF StepInv, ReaderInv, LatchInv
<1>4. n \in 0..Len(conversation)
    BY <1>2, <1>3
<1>5. RequestsIn(Behind(n)) = Len(conversation) - n
    BY <1>3, <1>4, RequestsBehind
<1>6. Behind(n) # <<>> => Head(Behind(n)).kind = "request"
    BY <1>3, <1>4, BehindStarts
<1>7. QED
    BY <1>1, <1>2, <1>5, <1>6

(***************************************************************************)
(* For every conversation and however its bytes arrive, the reader never   *)
(* takes a byte of one request for a byte of another: between two requests *)
(* the next item is a request line, and as many requests remain as have no *)
(* result (arm_next_request, read_body_bytes and next_request,             *)
(* request_reader.cpp:179-189, 321-353, 407-432).                          *)
(***************************************************************************)
THEOREM ReaderNeverLosesStep == Spec => []ReaderStaysInStep
<1>1. ReaderInv /\ StepInv => ReaderStaysInStep
    BY AlignedIsInStep
<1>2. QED
    BY <1>1, AlwaysReaderInv, AlwaysStepInv, PTL

(***************************************************************************)
(* For all limits and every conversation, each message is handed over,     *)
(* refused or failed by what it says alone, and by nothing that came       *)
(* before it (measure_body and the handlers of lines and bytes,            *)
(* request_reader.cpp:134-353).                                            *)
(***************************************************************************)
THEOREM MessagesAreJudgedAlone == Spec => []EachMessageIsJudgedAlone
<1>1. StepInv => EachMessageIsJudgedAlone
    BY DEF StepInv, AnsweredRightly
<1>2. QED
    BY <1>1, AlwaysStepInv, PTL
=============================================================================
