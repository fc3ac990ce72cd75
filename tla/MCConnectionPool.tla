-------------------------- MODULE MCConnectionPool --------------------------
(* Instances of ConnectionPool for TLC.                                    *)
EXTENDS ConnectionPool, TLC

CONSTANTS c1, c2, c3, c4, w1, w2, w3

TwoWorkers   == {w1, w2}
ThreeWorkers == {w1, w2, w3}
OneClient    == {c1}
FourClients  == {c1, c2, c3, c4}
OneUnlucky   == {c1}
Nobody       == {}
AnyFault     == {"system_error", "bad_alloc"}
OutOfThreads == {"system_error"}

\* Workers are interchangeable, and so are the clients pushes do not fail for.
Interchangeable == Permutations(Workers) \cup Permutations(Clients \ Unlucky)
=============================================================================
