-------------------------- MODULE MCRequestReader --------------------------
(* Instances of RequestReader for TLC.                                     *)
EXTENDS RequestReader

TextsOver(tokens, n) == UNION {[1..k -> tokens] : k \in 0..n}

-----------------------------------------------------------------------------
(* Fields and chunks, with what they mean.                                 *)

FieldOf(name, text) == [text |-> text, verdict |-> "None", name |-> name, declares |-> {}, codings |-> <<>>]
Field(name)         == FieldOf(name, <<name, ":", "a">>)
Host                == FieldOf("host", <<"Host", ":", Space, "a">>)
BadField            == [Field("x") EXCEPT !.text = <<"x", Space, ":">>, !.verdict = "Malformed"]
LongField           == [Field("x") EXCEPT !.text = <<"x", ":">> \o [i \in 1..MaxLine |-> "a"], !.verdict = "LineTooLong"]

\* The number that digits write, or nothing if they are not digits.
Numbers(digits, base) == IF AreDigits(digits, base) THEN {Meant(digits, base)} ELSE {}

LengthWritten(before, digits, after) ==
    [FieldOf("content-length", <<"Content-Length", ":">> \o before \o digits \o after)
        EXCEPT !.declares = Numbers(digits, 10)]
Length(digit) == LengthWritten(<<>>, <<digit>>, <<>>)
NoLength      == LengthWritten(<<>>, <<"a">>, <<>>)

Coding(list) ==
    [FieldOf("transfer-encoding",
             <<"transfer-encoding", ":">> \o FlattenSeq([i \in 1..Len(list) |-> <<",", list[i]>>]))
        EXCEPT !.codings = list]

ChunkOf(digits, extension) ==
    LET numbers == Numbers(digits, 16)
        v == IF numbers = {} THEN "Malformed" ELSE IF numbers \subseteq 0..MaxBody THEN "None" ELSE "BodyTooLarge"
    IN [text |-> digits \o extension, verdict |-> v, n |-> IF v = "None" THEN CHOOSE n \in numbers : TRUE ELSE 0]
Chunk(digit) == ChunkOf(<<digit>>, <<>>)
LongChunk    == [Chunk("1") EXCEPT !.text = [i \in 1..MaxLine |-> "0"] \o <<"1">>, !.verdict = "LineTooLong"]

-----------------------------------------------------------------------------
(* Messages.                                                               *)

LineOf(spoken) == <<"GET", Space, "/", Space, spoken>>

Message(fields, bytes, chunks, trailers) ==
    [line |-> LineOf("HTTP/1.1"), verdict |-> "None", version |-> "Http11",
     fields |-> fields, bytes |-> bytes, chunks |-> chunks, trailers |-> trailers]

Plain    == Message(<<Host>>, 0, <<>>, <<>>)
Posted   == Message(<<Host, Length("2")>>, 2, <<>>, <<>>)
Filling  == Message(<<Field("x"), Host, Field("x")>>, 0, <<>>, <<>>)
Chunked  == Message(<<Host, Coding(<<"chunked">>)>>, 0, <<Chunk("1"), Chunk("1"), Chunk("0")>>, <<Field("x")>>)
Refused  == Message(<<Host, Length("3")>>, 3, <<>>, <<>>)
From10   == [Plain EXCEPT !.version = "Http10", !.line = LineOf("HTTP/1.0"), !.fields = <<>>]

\* Requests after which the stream goes on, at their limits where they have any.
Continuing == {Plain, Posted, Filling, Chunked, Refused, From10}

ChunkedBy(codings, chunks, trailers) == Message(<<Host, Coding(codings)>>, 0, chunks, trailers)

\* Requests that end it, one for each way.
Ending == {
    Message(<<Host, Length("5")>>, 5, <<>>, <<>>),
    Message(<<Host, NoLength>>, 0, <<>>, <<>>),
    Message(<<Host, Length("1"), Length("1")>>, 1, <<>>, <<>>),
    Message(<<>>, 0, <<>>, <<>>),
    Message(<<Host, Host>>, 0, <<>>, <<>>),
    Message(<<Host, BadField>>, 0, <<>>, <<>>),
    Message(<<Host, LongField>>, 0, <<>>, <<>>),
    Message(<<Host, Field("x"), Field("x"), Field("x")>>, 0, <<>>, <<>>),
    Message(<<Host, Length("1"), Coding(<<"chunked">>)>>, 1, <<>>, <<>>),
    Message(<<Host, Coding(<<"chunked">>), Coding(<<"chunked">>)>>, 0, <<Chunk("0")>>, <<>>),
    ChunkedBy(<<"gzip", "chunked">>, <<Chunk("0")>>, <<>>),
    ChunkedBy(<<"chunked", "gzip">>, <<Chunk("0")>>, <<>>),
    ChunkedBy(<<"chunked">>, <<Chunk("1"), Chunk("2"), Chunk("0")>>, <<>>),
    ChunkedBy(<<"chunked">>, <<Chunk("0")>>, <<BadField>>),
    ChunkedBy(<<"chunked">>, <<Chunk("0")>>, <<Field("x"), Field("x")>>),
    ChunkedBy(<<"chunked">>, <<LongChunk>>, <<>>),
    [Chunked EXCEPT !.version = "Http10", !.line = LineOf("HTTP/1.0")],
    [Plain EXCEPT !.line = <<"get">> \o Tail(@), !.verdict = "UnknownMethod"],
    [Plain EXCEPT !.line = @ \o [i \in 1..MaxLine |-> "a"], !.verdict = "LineTooLong"] }

Pairs == {<<a, b>> : a \in Continuing, b \in Continuing \cup Ending}
            \cup {<<a, Plain>> : a \in Ending}

-----------------------------------------------------------------------------
(* Every spelling of a part, in a message of its own.                      *)

\* Targets are built of characters and whole escapes.
TargetUnits  == {<<"/">>, <<"a">>, <<"B">>, <<"z">>} \cup {<<"%", h, l>> : h, l \in {"a", "B"}}
LegalTargets == {FlattenSeq(units) : units \in TextsOver(TargetUnits, 4) \ {<<>>}}

LineVerdict(method, target, spoken) ==
    IF <<>> \in {method, target, spoken} \/ \E part \in {method, target, spoken} : ContainsCtl(part)
    THEN "Malformed"
    ELSE IF spoken = <<"HTTP/2.0">> THEN "UnsupportedVersion"
    ELSE IF spoken \notin {<<"HTTP/1.0">>, <<"HTTP/1.1">>} THEN "Malformed"
    ELSE IF target \notin LegalTargets THEN "Malformed"
    ELSE IF method \notin {<<"GET">>, <<"HEAD">>} THEN "UnknownMethod"
    ELSE "None"

WithLine(method, target, spoken) ==
    [Plain EXCEPT !.line = method \o <<Space>> \o target \o <<Space>> \o spoken,
                  !.verdict = LineVerdict(method, target, spoken),
                  !.version = IF spoken = <<"HTTP/1.0">> THEN "Http10" ELSE "Http11"]

Lines ==
    {WithLine(<<"GET">>, target, <<"HTTP/1.1">>) :
        target \in TextsOver({"/", "%", "a"}, 4) \cup {<<"%", "B", "a">>, <<"z">>, <<"%", "z", "a">>, <<"%", "a", "z">>}}
    \cup {WithLine(method, target, spoken) :
        method  \in {<<>>, <<"GET">>, <<"HEAD">>, <<"get">>, <<"GET", "a">>, <<Ctl>>},
        target  \in {<<>>, <<"/">>, <<"%", "z">>, <<Tab>>},
        spoken \in {<<>>, <<"HTTP/1.0">>, <<"HTTP/2.0">>, <<"a">>, <<"HTTP/1.1", "a">>, <<"HTTP/1.1", Ctl>>}}
    \cup {[Plain EXCEPT !.line = line, !.verdict = "Malformed"] : line \in {
        <<>>, <<"GET">>, <<"GET", Space, "/">>, <<Space>> \o LineOf("HTTP/1.1"), LineOf("HTTP/1.1") \o <<Space>>,
        <<"GET", Space, "/", Space, "/", Space, "HTTP/1.1">>} }

\* A field is legal if its name is and no control character is in its value.
Fields ==
    {[Plain EXCEPT !.fields = <<Host, [Field("x") EXCEPT !.text = <<"x", ":">> \o value,
                                        !.verdict = IF Ctl \in Range(value) THEN "Malformed" ELSE "None"]>>] :
        value \in TextsOver({Space, Tab, "a", ":", Ctl}, 3)}
    \cup {[Plain EXCEPT !.fields = <<Host, [BadField EXCEPT !.text = line]>>] : line \in {
        <<"x">>, <<":">>, <<":", "a">>, <<Space, "x", ":">>, <<"x", Tab, ":", "a">>, <<"x", "/", "x", ":">>, <<"x", Ctl, ":">>}}

Lengths ==
    LET bytes(field)   == field.declares \cap 0..MaxDrain
        posting(field) == Message(<<Host, field>>, IF bytes(field) = {} THEN 0 ELSE CHOOSE n \in bytes(field) : TRUE, <<>>, <<>>)
    IN {posting(LengthWritten(<<>>, digits, <<>>)) : digits \in TextsOver({"0", "1", "4", "6", "a"}, 3)}
       \cup {posting(LengthWritten(before, digits, after)) :
                before \in {<<>>, <<Space>>, <<Tab, Space>>}, after \in {<<>>, <<Tab>>, <<Space, Space>>},
                digits \in {<<"2">>, <<"2", Space, "2">>, <<"2", ",", Space, "2">>}}

ChunkSizes ==
    {ChunkedBy(<<"chunked">>, IF size.n = 0 THEN <<size>> ELSE <<size, Chunk("0")>>, <<>>) :
        size \in {ChunkOf(digits, extension) : digits \in TextsOver({"0", "1", "4", Space}, 3) \cup {<<"a">>, <<"B">>},
                                               extension \in {<<>>, <<";">>, <<";", "a", Space>>}}}

\* A list is its elements, whatever empty ones and white space lie between.
Lists ==
    LET gaps        == {<<>>, <<",">>, <<Space>>, <<",", Tab>>}
        codingOf(t) == IF t = "Chunked" THEN "chunked" ELSE t
        written(a, list, b) ==
            [Coding([i \in 1..Len(list) |-> codingOf(list[i])]) EXCEPT
                !.text = <<"transfer-encoding", ":">> \o a \o FlattenSeq(
                    [i \in 1..Len(list) |-> IF i = 1 THEN <<list[i]>> ELSE <<Space, ",", list[i]>>]) \o b]
    IN {Message(<<Host, written(a, list, b)>>, 0, <<Chunk("0")>>, <<>>) :
            a \in gaps, b \in gaps, list \in TextsOver({"chunked", "Chunked", "gzip"}, 2)}

Spellings == {<<m>> : m \in Lines \cup Fields \cup Lengths \cup ChunkSizes \cup Lists}

AllConversations == Pairs \cup Spellings
=============================================================================
