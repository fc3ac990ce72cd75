------------------------------ MODULE MCRouter ------------------------------
(* Instances of Router for TLC.                                            *)
EXTENDS Router, TLC

Escapes == "%2E" :> "." @@ "%61" :> "a" @@ "%2F" :> "/" @@ "%2f" :> "/" @@ "%25" :> "%"
Upper   == "%2E" :> "%2E" @@ "%61" :> "%61" @@ "%2F" :> "%2F" @@ "%2f" :> "%2F" @@ "%25" :> "%25"

Converters == "<name>"     :> [text |-> "name", capture |-> "Text"]
           @@ "<int:id>"   :> [text |-> "id", capture |-> "Number"]
           @@ "<path:rest>" :> [text |-> "rest", capture |-> "Rest"]

\* "<>" is a literal that looks like a parameter.
SomeRegistrations == {
    [method |-> "GET",  path |-> <<"/", "a", "/", ".", "/", "<name>">>],
    [method |-> "POST", path |-> <<"/", "<name>", "/", "<int:id>">>],
    [method |-> "GET",  path |-> <<"/", "%61", "/", "<path:rest>">>],
    [method |-> "HEAD", path |-> <<"/", "<path:rest>">>],
    [method |-> "GET",  path |-> <<"/", "<path:rest>", "/", "<>">>] }

Pieces == { <<>>, <<"a">>, <<"7">>, <<".">>, <<"%2E", ".">>, <<"%61">>,
            <<"a", "%2f", "%2E", ".">>, <<"a", "%2F", "a">>, <<"%25", ".">> }

SomeTargets == {<<"/">> \o Join(s) : s \in UNION {[1..n -> Pieces] : n \in 1..3}}
    \cup {<<"/">> \o Join(<<p>> \o <<q>> \o << <<".", ".">>, <<".", ".">> >> \o <<r>>) :
              p, q, r \in Pieces}
    \cup { <<>>, <<"a">>, <<".", ".", "/", "a">>, <<"/", "a", "/", "a", "?", "/", ".", ".">> }

SomeQueries == [method : Methods, target : SomeTargets]
=============================================================================
