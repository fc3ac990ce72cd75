------------------------------- MODULE Router -------------------------------
(* A Router (src/src/server/router.hpp): routes are added, then it is      *)
(* asked what serves a target and what is allowed there.                   *)
EXTENDS Routing

CONSTANTS
    Registrations,  \* what add may be given: records [method, path]
    Queries,        \* what find may be asked: records [method, target]
    MaxRoutes       \* bound for TLC: how many routes are registered

ASSUME RouterAssumption ==
    /\ \A r \in Registrations : r.method \in Methods /\ r.path \in Seq(Range(r.path))
    /\ \A q \in Queries : q.method \in Methods /\ q.target \in Seq(Range(q.target))
    /\ MaxRoutes \in Nat

VARIABLES
    routes,   \* routes_, with compiled patterns
    query,    \* what find will be asked
    found,    \* what find returned
    allowed   \* what allowed_methods returned for the same target

vars == <<routes, query, found, allowed>>

Init ==
    /\ routes = <<>>
    /\ query \in Queries
    /\ found = NotFound(FALSE)
    /\ allowed = <<"unasked">>

Registering == allowed = <<"unasked">>

Add(r) ==
    /\ Registering
    /\ Len(routes) < MaxRoutes
    /\ routes' = Append(routes, RouteOf(r))
    /\ UNCHANGED <<query, found, allowed>>

Lookup ==
    /\ Registering
    /\ found' = Find(routes, query)
    /\ allowed' = AllowedMethods(routes, query.target)
    /\ UNCHANGED <<routes, query>>

Next == (\E r \in Registrations : Add(r)) \/ Lookup

Spec == Init /\ [][Next]_vars

-----------------------------------------------------------------------------
TypeOK ==
    /\ Len(routes) <= MaxRoutes
    /\ \A i \in DOMAIN routes : /\ routes[i].method \in Methods
                                /\ \A j \in DOMAIN routes[i].pattern :
                                      routes[i].pattern[j].capture \in Captures
    /\ query \in Queries
    /\ found.handler \in 0..Len(routes)
    /\ \A i, j \in DOMAIN allowed : allowed[i] = allowed[j] => i = j

\* What dot segments cancel, said without walking: a name goes when, at some
\* point after it, more ".." than names have followed.
DotFree(path) ==
    LET segments == Split(Body(Resolve(path)))
        n        == Len(segments)
        Named(i) == segments[i] \notin {Dot, DotDot}
        Between(i, j) == (i + 1)..j
        cancelled(i) == \E j \in Between(i, n) :
            Cardinality({k \in Between(i, j) : segments[k] = DotDot})
                > Cardinality({k \in Between(i, j) : Named(k)})
        survives(i) == Named(i) /\ ~cancelled(i)
        left   == Positions(n, {i \in 1..n : survives(i)})
        ending == IF Named(n) THEN <<>> ELSE << <<>> >>
    IN Root(path) \o Join([k \in DOMAIN left |-> segments[left[k]]] \o ending)

(***************************************************************************)
(* Normalising removes exactly the dot segments and what they cancel, also *)
(* where the dots were escaped, at the root and at the end, and leaves     *)
(* nothing to do a second time, so that a pattern and a target meet in one *)
(* spelling (http/path.hpp:8-15).                                          *)
(***************************************************************************)
NormalizedAsWritten ==
    LET path == RoutablePath(query.target)
    IN path = DotFree(PathOf(query.target)) /\ NormalizePath(path) = path

(***************************************************************************)
(* A captured rest stays below the directory it is joined to: after the    *)
(* decoding that follows matching it does not begin with "/" and holds no  *)
(* "." or ".." segment (router.hpp:53-55).                                 *)
(***************************************************************************)
RestStaysBelow ==
    found.handler # 0 /\ EndsInRest(routes[found.handler].pattern) =>
        LET rest == Last(found.params).value
        IN ~Absolute(rest) /\ Range(Split(rest)) \cap {Dot, DotDot} = {}

(***************************************************************************)
(* A captured rest holds no "/" that arrived escaped (router.hpp:54-55):   *)
(* what its own slashes separate are the last segments of the target, one  *)
(* for one, each decoded by itself, so nobody who splits the rest finds    *)
(* more segments than the client sent.                                     *)
(***************************************************************************)
RestGainsNoSeparator ==
    found.handler # 0 /\ EndsInRest(routes[found.handler].pattern) =>
        LET segments == Split(RoutablePath(query.target))
            before   == Len(routes[found.handler].pattern) - 1
        IN Split(Last(found.params).value)
               = [i \in 1..(Len(segments) - before) |-> PercentDecode(segments[before + i])]

(***************************************************************************)
(* find and allowed_methods never disagree: a method is listed for a path  *)
(* exactly when it would be answered there, so a 405 names every method    *)
(* that works and not the one that was refused, and a 404 has nothing to   *)
(* name (router.cpp:89-90).                                                *)
(***************************************************************************)
FindAgreesWithAllowed ==
    ~Registering =>
        /\ found.handler # 0 <=> query.method \in Range(allowed)
        /\ found.path_matched <=> allowed # <<>>

(***************************************************************************)
(* A registration only adds: what answered a target when fewer routes were *)
(* registered answers it still, with the same captures, however specific a *)
(* later pattern is; only a HEAD route takes over from the GET that stood  *)
(* in for it (router.hpp:57-58, router.cpp:241-242).                       *)
(***************************************************************************)
FirstRegistrationWins ==
    ~Registering => \A n \in DOMAIN routes :
        LET earlier == Find(SubSeq(routes, 1, n), query)
        IN earlier.handler # 0 /\ found # earlier =>
               /\ query.method = "HEAD"
               /\ routes[earlier.handler].method = "GET"
               /\ routes[found.handler].method = "HEAD"
=============================================================================
