------------------------------ MODULE Parsing ------------------------------
(***************************************************************************)
(* What the text of one line says: src/src/http/request_parser.cpp, the    *)
(* two digit loops and the field questions of request_reader.cpp, and      *)
(* next_list_element (field_list.hpp).                                     *)
(*                                                                         *)
(* Text is a sequence of tokens.  A token is one character of a class the  *)
(* parsers tell apart, or a word: a run of characters that no parser cuts  *)
(* and that only counts when compared whole.                               *)
(***************************************************************************)
EXTENDS Naturals, Sequences, FiniteSets, SequencesExt

CONSTANTS
    MaxBody,   \* max_body_bytes
    MaxDrain,  \* max_drain_bytes
    SizeMax    \* 2^w, for a std::size_t of w bits

\* The static_asserts: a number below a cap takes one more digit unwrapped.
ASSUME ParsingAssumption ==
    /\ MaxBody \in Nat /\ MaxDrain \in Nat /\ SizeMax \in Nat
    /\ MaxBody <= MaxDrain
    /\ MaxBody * 16 + 15 < SizeMax
    /\ MaxDrain * 10 + 9 < SizeMax

Space  == " "
Tab    == "\t"
Ctl    == "ctl"   \* any other control character, NUL, CR and LF included
Comma  == ","
Semi   == ";"
Digits == <<"0", "1", "2", "3", "4", "5", "6", "7", "8", "9", "a", "B">>

DigitValue == [d \in Range(Digits) |-> CHOOSE i \in 0..11 : Digits[i + 1] = d]

Separators == {Space, Tab, Ctl, ":", Comma, Semi, "/"}

\* ascii_lower, on the tokens that have two cases.
Folded == [t \in {"Host", "Content-Length", "Chunked"} |->
             CASE t = "Host" -> "host" [] t = "Content-Length" -> "content-length" [] t = "Chunked" -> "chunked"]

Lowered(text) == [i \in 1..Len(text) |-> IF text[i] \in DOMAIN Folded THEN Folded[text[i]] ELSE text[i]]

Positions(text, token) == {i \in 1..Len(text) : text[i] = token}

\* find: the first position, or one past the end.
Find(text, token) ==
    IF Positions(text, token) = {} THEN Len(text) + 1
    ELSE Min(Positions(text, token))

Between(text, first, last) == SubSeq(text, first + 1, last - 1)

-----------------------------------------------------------------------------
(* The request line.                                                       *)

Methods == {"GET", "HEAD", "POST", "PUT", "DELETE", "CONNECT", "OPTIONS", "TRACE", "PATCH"}

SpokenVersions == [v \in {"HTTP/1.0", "HTTP/1.1"} |-> IF v = "HTTP/1.0" THEN "Http10" ELSE "Http11"]
ShapedVersions == DOMAIN SpokenVersions \cup {"HTTP/2.0"}

\* Shape before value.
ParseVersion(part) ==
    IF part \notin {<<v>> : v \in ShapedVersions} THEN "Malformed"
    ELSE IF part[1] \notin DOMAIN SpokenVersions THEN "UnsupportedVersion"
    ELSE "None"

ContainsCtl(text) == \E i \in DOMAIN text : text[i] \in {Tab, Ctl}

HasValidEscapes(target) ==
    \A i \in Positions(target, "%") :
        i + 2 <= Len(target) /\ target[i + 1] \in Range(Digits) /\ target[i + 2] \in Range(Digits)

\* The checks in the code's order: the version's before the target's, and the
\* target's before the method's.
ParseRequestLine(line) ==
    LET sp1     == Find(line, Space)
        sp2     == sp1 + Find(SubSeq(line, sp1 + 1, Len(line)), Space)
        method  == Between(line, 0, sp1)
        target  == Between(line, sp1, sp2)
        version == Between(line, sp2, Len(line) + 1)
    IN IF \/ Cardinality(Positions(line, Space)) # 2
          \/ ContainsCtl(line)
          \/ <<>> \in {method, target, version} THEN "Malformed"
       ELSE IF ParseVersion(version) # "None" THEN ParseVersion(version)
       ELSE IF ~HasValidEscapes(target) THEN "Malformed"
       ELSE IF method \notin {<<m>> : m \in Methods} THEN "UnknownMethod"
       ELSE "None"

VersionOf(line) == SpokenVersions[Last(line)]

-----------------------------------------------------------------------------
(* Fields and lists.                                                       *)

IsOws(token) == token \in {Space, Tab}

Trimmed(text) ==
    LET solid == {i \in DOMAIN text : ~IsOws(text[i])}
    IN IF solid = {} THEN <<>> ELSE SubSeq(text, Min(solid), Max(solid))

\* The first colon splits; the whole of the value has to be legal.
IsHeaderField(line) ==
    LET colon == Find(line, ":")
    IN /\ colon \in 2..Len(line)
       /\ \A i \in 1..(colon - 1) : line[i] \notin Separators
       /\ \A i \in colon..Len(line) : line[i] # Ctl

ParseHeaderField(line) ==
    LET colon == Find(line, ":")
    IN [name  |-> Lowered(Between(line, 0, colon)),
        value |-> Trimmed(Between(line, colon, Len(line) + 1))]

\* next_list_element, for all of the list: a piece ends at each comma and at the
\* end of the value, and an empty one is skipped.
ListElements(value) ==
    LET ends(i)  == i > Len(value) \/ value[i] = Comma
        piece(i) == Trimmed(Between(value, Max({0} \cup {j \in 1..(i - 1) : ends(j)}), i))
        upTo[i \in 0..(Len(value) + 1)] ==
            IF i = 0 THEN <<>>
            ELSE IF ends(i) /\ piece(i) # <<>> THEN Append(upTo[i - 1], piece(i))
            ELSE upTo[i - 1]
    IN upTo[Len(value) + 1]

-----------------------------------------------------------------------------
(* Numbers.                                                                *)

Number(error, n) == [error |-> error, bytes |-> n]

IsDigit(token, base) == token \in DOMAIN DigitValue /\ DigitValue[token] < base

\* What the loop has after each digit, at the width of std::size_t.
Values(text, base) ==
    LET value[i \in 0..Len(text)] ==
            IF i = 0 THEN 0 ELSE (value[i - 1] * base + DigitValue[text[i]]) % SizeMax
    IN value

\* Mutant: the cap is tested once, on the number that came out.
NumberTestedLast(text, base, cap) ==
    IF text = <<>> \/ \E i \in DOMAIN text : ~IsDigit(text[i], base) THEN Number("Malformed", 0)
    ELSE IF Values(text, base)[Len(text)] > cap THEN Number("BodyTooLarge", 0)
    ELSE Number("None", Values(text, base)[Len(text)])

\* The digit loop: a digit, then the cap, and the first thing wrong decides.
ParseNumber(text, base, cap) ==
    LET legal == {i \in DOMAIN text : \A j \in 1..i : IsDigit(text[j], base)}
    IN IF text = <<>> THEN Number("Malformed", 0)
       ELSE IF \E i \in legal : Values(text, base)[i] > cap THEN Number("BodyTooLarge", 0)
       ELSE IF legal # DOMAIN text THEN Number("Malformed", 0)
       ELSE Number("None", Values(text, base)[Len(text)])

ParseContentLength(value) == ParseNumber(value, 10, MaxDrain)

\* The size ends at the first ";".
ParseChunkSize(line) == ParseNumber(Between(line, 0, Find(line, Semi)), 16, MaxBody)
=============================================================================
