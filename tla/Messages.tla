------------------------------ MODULE Messages ------------------------------
(***************************************************************************)
(* What a client sends and what it means by it: as much of the grammar of  *)
(* HTTP/1.1 as the reader takes part in, stated of the text alone and      *)
(* without any of the code that reads it (Parsing.tla gives the alphabet). *)
(*                                                                         *)
(* A message is one request: its request line (`line`, its `verdict` and   *)
(* `version`), its fields, the body bytes it sends under a length, or its  *)
(* chunks and trailers.  A field is [text, verdict, name, declares,        *)
(* codings]: declares is the set of the lengths a Content-Length declares  *)
(* (none, or one), codings the list of a Transfer-Encoding.  A chunk is    *)
(* [text, verdict, n].  Verdicts are "None", "LineTooLong" or an error.    *)
(* The reader sees text only; the rest is what its results are compared    *)
(* with, and the ...Means operators tie it to the text.                    *)
(***************************************************************************)
EXTENDS Parsing

CONSTANTS
    MaxLine,        \* max_line_length, in tokens
    MaxHead,        \* max_head_bytes, in lines
    MaxFields       \* max_fields

IsList(list) == list \in Seq(Range(list))

IsMessage(m) ==
    /\ m.line \in Seq(STRING)
    /\ m.bytes \in Nat
    /\ IsList(m.fields) /\ IsList(m.chunks) /\ IsList(m.trailers)
    /\ \A part \in Range(m.fields) \cup Range(m.chunks) \cup Range(m.trailers) :
          part.text \in Seq(STRING)
    /\ \A chunk \in Range(m.chunks) : chunk.n \in Nat

-----------------------------------------------------------------------------
(* What is sent: lines, bytes of body, and the CRLF that ends a chunk.     *)

Item(kind, text) == [kind |-> kind, text |-> text]

Byte     == Item("byte", <<"a">>)
ChunkEnd == Item("crlf", <<>>)
Blank    == Item("blank", <<>>)

FieldItems(fields) == [i \in 1..Len(fields) |-> Item("field", fields[i].text)]

ChunkItems(chunk) ==
    <<Item("size", chunk.text)>>
        \o [i \in 1..chunk.n |-> Byte]
        \o (IF chunk.n = 0 THEN <<>> ELSE <<ChunkEnd>>)

MessageItems(m) ==
    <<Item("request", m.line)>>
        \o FieldItems(m.fields) \o <<Blank>>
        \o [i \in 1..m.bytes |-> Byte]
        \o FlattenSeq([i \in 1..Len(m.chunks) |-> ChunkItems(m.chunks[i])])
        \o (IF m.chunks = <<>> THEN <<>> ELSE FieldItems(m.trailers) \o <<Blank>>)

-----------------------------------------------------------------------------
(* What the text of each part means.                                       *)

AreDigits(text, base) == text # <<>> /\ \A i \in DOMAIN text : IsDigit(text[i], base)

\* The number that digits write, however many there are.
Meant(digits, base) ==
    LET upTo[k \in 0..Len(digits)] ==
            IF k = 0 THEN 0 ELSE upTo[k - 1] * base + DigitValue[digits[k]]
    IN upTo[Len(digits)]

\* Three words, with the only spaces, one before i and one before j.
CutAt(line, i, j) ==
    /\ 1 < i /\ i + 1 < j /\ j < Len(line)
    /\ \A k \in DOMAIN line : line[k] \notin {Tab, Ctl} /\ (line[k] = Space <=> k \in {i, j})

\* A 505 outranks the 400 of a target, and that a 501.
LineSays(method, target, spoken) ==
    IF spoken = <<"HTTP/2.0">> THEN "UnsupportedVersion"
    ELSE IF spoken \notin {<<"HTTP/1.0">>, <<"HTTP/1.1">>} \/ ~HasValidEscapes(target) THEN "Malformed"
    ELSE IF method \notin {<<word>> : word \in Methods} THEN "UnknownMethod"
    ELSE "None"

LineMeans(m) ==
    IF Len(m.line) > MaxLine THEN m.verdict = "LineTooLong"
    ELSE IF \A i, j \in DOMAIN m.line : ~CutAt(m.line, i, j) THEN m.verdict = "Malformed"
    ELSE \E i, j \in DOMAIN m.line :
            /\ CutAt(m.line, i, j)
            /\ m.verdict = LineSays(SubSeq(m.line, 1, i - 1), SubSeq(m.line, i + 1, j - 1),
                                    SubSeq(m.line, j + 1, Len(m.line)))
            /\ m.verdict = "None" =>
                  m.version = IF m.line[j + 1] = "HTTP/1.0" THEN "Http10" ELSE "Http11"

\* A name of no separator, a colon at c, and a value of no control character.
ColonAt(text, c) ==
    /\ 1 < c /\ text[c] = ":"
    /\ \A i \in 1..(c - 1) : text[i] \notin Separators
    /\ \A i \in c..Len(text) : text[i] # Ctl

\* The number in the value behind c, if digits and white space are all of it.
LengthAfter(text, c) ==
    LET value == (c + 1)..Len(text)
        spans == {s \in value \X value :
                     /\ s[1] <= s[2]
                     /\ AreDigits(SubSeq(text, s[1], s[2]), 10)
                     /\ \A i \in value \ (s[1]..s[2]) : IsOws(text[i])}
    IN {Meant(SubSeq(text, s[1], s[2]), 10) : s \in spans}

IsGap(token) == IsOws(token) \/ token = Comma

\* As far as framing asks: whether nothing is listed, or chunked alone.
CodingsAfter(text, c, codings) ==
    LET value == (c + 1)..Len(text)
    IN /\ codings = <<>> <=> \A i \in value : IsGap(text[i])
       /\ codings = <<"chunked">> <=> \E k \in value : /\ text[k] \in {"chunked", "Chunked"}
                                                       /\ \A i \in value \ {k} : IsGap(text[i])

FramingNames == {"host", "content-length", "transfer-encoding"}

FieldMeans(f) ==
    /\ f.text # <<>>
    /\ f.verdict = "None" <=> Len(f.text) <= MaxLine /\ \E c \in DOMAIN f.text : ColonAt(f.text, c)
    /\ \A c \in DOMAIN f.text : f.verdict = "None" /\ ColonAt(f.text, c) =>
          /\ \A name \in FramingNames : f.name = name <=> Lowered(SubSeq(f.text, 1, c - 1)) = <<name>>
          /\ f.name = "content-length" => f.declares = LengthAfter(f.text, c)
          /\ f.name = "transfer-encoding" => CodingsAfter(f.text, c, f.codings)

\* Digits up to the end or to an extension.
SizeEndsAt(text, c) ==
    /\ c = Len(text) + 1 \/ text[c] = Semi
    /\ AreDigits(SubSeq(text, 1, c - 1), 16)

ChunkMeans(chunk) ==
    LET sizes == {Meant(SubSeq(chunk.text, 1, c - 1), 16) :
                     c \in {c \in 1..(Len(chunk.text) + 1) : SizeEndsAt(chunk.text, c)}}
    IN IF chunk.verdict = "None"
       THEN Len(chunk.text) <= MaxLine /\ sizes = {chunk.n} /\ chunk.n <= MaxBody
       ELSE Len(chunk.text) > MaxLine \/ \A n \in sizes : n > MaxBody

Means(m) ==
    /\ LineMeans(m)
    /\ \A f \in Range(m.fields) \cup Range(m.trailers) : FieldMeans(f)
    /\ \A chunk \in Range(m.chunks) : ChunkMeans(chunk)

-----------------------------------------------------------------------------
(* What makes a message acceptable, of the message alone.                  *)

FieldsNamed(m, name) == {i \in DOMAIN m.fields : m.fields[i].name = name}

HasTrailers(m) == m.chunks # <<>>

WellFormed(m) ==
    /\ m.verdict = "None"
    /\ \A i \in DOMAIN m.fields : m.fields[i].verdict = "None"
    /\ \A i \in DOMAIN m.chunks : m.chunks[i].verdict = "None"
    /\ HasTrailers(m) => \A i \in DOMAIN m.trailers : m.trailers[i].verdict = "None"
    /\ Cardinality(FieldsNamed(m, "host")) \in (IF m.version = "Http11" THEN {1} ELSE {0, 1})

WithinLimits(m) ==
    LET trailing == IF HasTrailers(m) THEN Len(m.trailers) ELSE 0
        lines    == 2 + Len(m.fields) + (IF HasTrailers(m) THEN trailing + 1 ELSE 0)
    IN Len(m.fields) + trailing <= MaxFields /\ lines <= MaxHead

ChunkTotal(chunks) ==
    LET upTo[k \in 0..Len(chunks)] == IF k = 0 THEN 0 ELSE upTo[k - 1] + chunks[k].n
    IN upTo[Len(chunks)]

\* One list of codings in all, with nothing on it but chunked.
ChunkedAlone(m) ==
    \E i \in FieldsNamed(m, "transfer-encoding") :
        /\ m.fields[i].codings = <<"chunked">>
        /\ \A j \in FieldsNamed(m, "transfer-encoding") \ {i} : m.fields[j].codings = <<>>

\* One framing only: a single length, or the chunked coding alone on 1.1.
DeclaredLength(m) ==
    LET lengths == FieldsNamed(m, "content-length")
        codings == FieldsNamed(m, "transfer-encoding")
    IN CASE lengths = {} /\ codings = {} -> {0}
         [] Cardinality(lengths) = 1 /\ codings = {} -> UNION {m.fields[i].declares : i \in lengths}
         [] lengths = {} /\ m.version = "Http11" /\ ChunkedAlone(m) -> {ChunkTotal(m.chunks)}
         [] OTHER -> {}

Acceptable(m) == WellFormed(m) /\ WithinLimits(m) /\ \E n \in DeclaredLength(m) : n <= MaxBody

\* Too large a body, but of a length that was declared and can be dropped.
Drainable(m) ==
    /\ WellFormed(m) /\ WithinLimits(m) /\ m.chunks = <<>>
    /\ \E n \in DeclaredLength(m) : n > MaxBody /\ n <= MaxDrain

(***************************************************************************)
(* The client keeps its own framing: where it declares one, it sends the   *)
(* body it declares, or chunks of which the last, and only that, is empty. *)
(* Of what it sends after a length that no reader drops, and of a message  *)
(* that has no framing or two, nothing is asked.                           *)
(***************************************************************************)
IsFramed(m) ==
    DeclaredLength(m) # {} =>
        IF FieldsNamed(m, "transfer-encoding") = {}
        THEN m.chunks = <<>> /\ \A n \in DeclaredLength(m) : n <= MaxDrain => m.bytes = n
        ELSE /\ m.bytes = 0 /\ m.chunks # <<>>
             /\ \A i \in DOMAIN m.chunks :
                    m.chunks[i].verdict = "None" => (m.chunks[i].n = 0 <=> i = Len(m.chunks))
=============================================================================
