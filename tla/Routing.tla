------------------------------ MODULE Routing ------------------------------
(***************************************************************************)
(* From a target to a handler: normalize_path (src/src/http/path.cpp) and  *)
(* what a Router (src/src/server/router.cpp) makes of a table of routes.   *)
(*                                                                         *)
(* A path is a sequence of tokens: "/", ".", another character, or a whole *)
(* escape such as "%2F" (has_valid_escapes of request_parser.cpp lets no   *)
(* other "%" through).  Unescape says what an escape stands for and        *)
(* Parameters which tokens of a pattern are parameters.  A handler is the  *)
(* position of its route.                                                  *)
(***************************************************************************)
EXTENDS Naturals, Sequences, FiniteSets, SequencesExt

CONSTANTS
    Unescape,    \* each escape of the paths and what it stands for
    Uppercased,  \* each escape of the paths with its digits uppercased
    Parameters   \* each parameter of a pattern as a segment

Methods  == {"GET", "HEAD", "POST"}
Captures == {"None", "Text", "Number", "Rest"}
Digits   == {"7"}

\* The escapes that mean the character they stand for.
Unreserved == {".", "a"} \cup Digits

\* An escape is a "%" and two digits: no character is one, and uppercasing its
\* digits leaves an escape of the same character.
ASSUME RoutingAssumption ==
    /\ DOMAIN Uppercased = DOMAIN Unescape
    /\ DOMAIN Unescape \cap ({"/"} \cup Unreserved) = {}
    /\ \A escape \in DOMAIN Unescape :
          /\ Uppercased[escape] \in DOMAIN Unescape
          /\ Unescape[Uppercased[escape]] = Unescape[escape]
          /\ Uppercased[Uppercased[escape]] = Uppercased[escape]
    /\ \A token \in DOMAIN Parameters : Parameters[token].capture \in Captures \ {"None"}

-----------------------------------------------------------------------------
(* normalize_path                                                          *)

IsEscape(token) == token \in DOMAIN Unescape

\* resolve_escapes
Resolve(path) ==
    LET resolved(token) ==
            IF ~IsEscape(token) THEN token
            ELSE IF Unescape[token] \in Unreserved THEN Unescape[token]
            ELSE Uppercased[token]
    IN [i \in DOMAIN path |-> resolved(path[i])]

\* The members of 1..n that are in S, in order.
Positions(n, S) ==
    LET list[i \in 0..n] ==
            IF i = 0 THEN <<>>
            ELSE IF i \in S THEN Append(list[i - 1], i) ELSE list[i - 1]
    IN list[n]

\* A "/" begins a piece, any other token goes on with the last one.
Longer(pieces, token) ==
    IF token = "/" THEN Append(pieces, <<>>)
    ELSE [pieces EXCEPT ![Len(pieces)] = Append(@, token)]

\* The pieces between the slashes, empty ones included.
Split(path) ==
    LET pieces[i \in 0..Len(path)] ==
            IF i = 0 THEN << <<>> >> ELSE Longer(pieces[i - 1], path[i])
    IN pieces[Len(path)]

Joined(before, piece, i) == IF i = 1 THEN piece ELSE before \o <<"/">> \o piece

Join(pieces) ==
    LET joined[i \in 0..Len(pieces)] ==
            IF i = 0 THEN <<>> ELSE Joined(joined[i - 1], pieces[i], i)
    IN joined[Len(pieces)]

Dot    == <<".">>
DotDot == <<".", ".">>

Absolute(path) == path # <<>> /\ path[1] = "/"
Body(path)     == IF Absolute(path) THEN Tail(path) ELSE path
Root(path)     == IF Absolute(path) THEN <<"/">> ELSE <<>>

\* What one more segment makes of those kept so far.
Keep(kept, segment) ==
    IF segment = Dot THEN kept
    ELSE IF segment = DotDot THEN IF kept = <<>> THEN kept ELSE Front(kept)
    ELSE Append(kept, segment)

\* remove_dot_segments
RemoveDotSegments(path) ==
    LET segments == Split(Body(path))
        kept[i \in 0..Len(segments)] ==
            IF i = 0 THEN <<>> ELSE Keep(kept[i - 1], segments[i])
        trailing == IF Last(segments) \in {Dot, DotDot} THEN << <<>> >> ELSE <<>>
    IN Root(path) \o Join(kept[Len(segments)] \o trailing)

\* Mutant: the dots are looked for before the escapes are resolved.
DotsBeforeEscapes(path) == Resolve(RemoveDotSegments(path))

NormalizePath(path) == RemoveDotSegments(Resolve(path))

-----------------------------------------------------------------------------
(* Patterns.                                                               *)

\* compile_segment
CompileSegment(piece) ==
    IF Len(piece) = 1 /\ piece[1] \in DOMAIN Parameters
    THEN Parameters[piece[1]]
    ELSE [text |-> piece, capture |-> "None"]

Compile(path) == LET pieces == Split(path)
                 IN [i \in DOMAIN pieces |-> CompileSegment(pieces[i])]

PercentDecode(path) ==
    [i \in DOMAIN path |-> IF IsEscape(path[i]) THEN Unescape[path[i]] ELSE path[i]]

SlashCount(path) == Cardinality({i \in DOMAIN path : path[i] = "/"})

\* What one segment that is not a rest makes of one piece.
Accepts(segment, piece) ==
    CASE segment.capture = "None"   -> piece = segment.text
      [] segment.capture = "Text"   -> piece # <<>>
      [] segment.capture = "Number" -> piece # <<>> /\ Range(piece) \subseteq Digits
      [] OTHER                      -> FALSE

\* Mutant: a separator may come out of an escape.
NoNewSeparators(rest) == TRUE

SeparatorsKept(rest) == SlashCount(PercentDecode(rest)) = SlashCount(rest)

EndsInRest(pattern) == Last(pattern).capture = "Rest"

RestOf(pattern, pieces) == Join(SubSeq(pieces, Len(pattern), Len(pieces)))

\* A rest takes one piece or several, and nothing may follow it.
Matches(pattern, path) ==
    LET pieces == Split(path)
        n      == Len(pattern)
    IN IF EndsInRest(pattern)
       THEN /\ Len(pieces) >= n
            /\ \A i \in 1..(n - 1) : Accepts(pattern[i], pieces[i])
            /\ pieces[n] # <<>>
            /\ SeparatorsKept(RestOf(pattern, pieces))
       ELSE /\ Len(pieces) = n
            /\ \A i \in 1..n : Accepts(pattern[i], pieces[i])

\* What a match binds, in the order of the pattern.
Captured(pattern, path) ==
    LET pieces == Split(path)
        value(i) == PercentDecode(IF pattern[i].capture = "Rest" THEN RestOf(pattern, pieces)
                                                                 ELSE pieces[i])
        bound    == Positions(Len(pattern), {i \in DOMAIN pattern : pattern[i].capture # "None"})
    IN [k \in DOMAIN bound |-> [name |-> pattern[bound[k]].text, value |-> value(bound[k])]]

-----------------------------------------------------------------------------
(* A table of routes: records [method, pattern], in registration order.    *)

NotFound(matched) == [handler |-> 0, path_matched |-> matched, params |-> <<>>]

\* What add appends.
RouteOf(r) == [method |-> r.method, pattern |-> Compile(NormalizePath(r.path))]

\* Mutant: the last registration wins.
LastOf(positions) == CHOOSE i \in positions : \A j \in positions : i >= j

FirstOf(positions) == CHOOSE i \in positions : \A j \in positions : i <= j

\* path_of and routable_path: the query is cut off before anything else.
PathOf(target) ==
    LET cuts == {i \in DOMAIN target : target[i] = "?"}
    IN IF cuts = {} THEN target ELSE SubSeq(target, 1, FirstOf(cuts) - 1)

RoutablePath(target) == NormalizePath(PathOf(target))

\* The routes of a table whose pattern takes a path.
Serving(table, path) == {i \in DOMAIN table : Matches(table[i].pattern, path)}

\* find: the method's own route first, then GET's for a HEAD.
Find(table, q) ==
    LET path      == RoutablePath(q.target)
        serving   == Serving(table, path)
        of(m)     == {i \in serving : table[i].method = m}
        answer(i) == [handler |-> i, path_matched |-> TRUE,
                      params |-> Captured(table[i].pattern, path)]
    IN CASE of(q.method) # {} -> answer(FirstOf(of(q.method)))
         [] of(q.method) = {} /\ q.method = "HEAD" /\ of("GET") # {} -> answer(FirstOf(of("GET")))
         [] OTHER -> NotFound(serving # {})

WithMethod(methods, m) == IF m \in Range(methods) THEN methods ELSE Append(methods, m)

\* Mutants: HEAD is not listed, or is listed once per GET.
WithoutHead(methods, m) == WithMethod(methods, m)
WithHeadAgain(methods, m) ==
    IF m = "GET" THEN Append(WithMethod(methods, m), "HEAD") ELSE WithMethod(methods, m)

\* HEAD appears beside the GET that implies it.
WithImplied(methods, m) ==
    IF m = "GET" THEN WithMethod(WithMethod(methods, m), "HEAD") ELSE WithMethod(methods, m)

AllowedMethods(table, target) ==
    LET serving == Serving(table, RoutablePath(target))
        list[i \in 0..Len(table)] ==
            IF i = 0 THEN <<>>
            ELSE LET before == list[i - 1]
                 IN IF i \in serving THEN WithImplied(before, table[i].method) ELSE before
    IN list[Len(table)]
=============================================================================
