----------------------------- MODULE MCPipeline -----------------------------
(* An instance of Pipeline for TLC.                                        *)
EXTENDS Pipeline, TLC

Escapes    == "%61" :> "a"
Upper      == "%61" :> "%61"
Converters == "<name>" :> [text |-> "name", capture |-> "Text"]

SomeRoutes == << [method |-> "GET",  path |-> <<"/", "a">>],
                 [method |-> "POST", path |-> <<"/", "<name>">>] >>

A == <<"/", "%61">>
B == <<"/", "b">>
C == <<"/", "b", "/", "b">>

\* Matched, by GET for HEAD too, refused at B, and found nowhere.
SomeRequests == { [method |-> "GET", target |-> A], [method |-> "HEAD", target |-> A],
                  [method |-> "HEAD", target |-> B], [method |-> "GET", target |-> C] }

SomeCopies == {A, C}
=============================================================================
