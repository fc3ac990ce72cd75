------------------------------ MODULE Pipeline ------------------------------
(***************************************************************************)
(* One request's walk through the chain: Pipeline::respond and Next        *)
(* (src/src/server/pipeline.cpp), over the routes of Routing.              *)
(*                                                                         *)
(* Handlers and middleware are the application's code: a handler returns   *)
(* or throws; a middleware calls next as often as it likes, with the       *)
(* request or a copy it changed, returns what next answered or something   *)
(* of its own, throws, and may catch what comes out of next.  Each call in *)
(* progress is a frame of the stack, the innermost last.                   *)
(***************************************************************************)
EXTENDS Routing

CONSTANTS
    Registered,  \* the routes, as records [method, path]
    Requests,    \* what respond may be given: records [method, target]
    Copies,      \* the targets a middleware may write into a copy
    Chain,       \* how many middleware
    MaxCalls     \* bound for TLC: how often one middleware calls next

ASSUME PipelineAssumption ==
    /\ Registered \in Seq(Range(Registered))
    /\ \A r \in Range(Registered) : r.method \in Methods
    /\ Requests \subseteq [method : Methods, target : {q.target : q \in Requests}]
    /\ Chain \in Nat
    /\ MaxCalls \in Nat

VARIABLES
    original,    \* the request respond was given
    match,       \* what the router made of it
    stack,       \* the calls in progress
    control,     \* what the thread is doing
    value,       \* the response being returned, or who threw
    dispatched   \* what the end of the chain did for this request

vars == <<original, match, stack, control, value, dispatched>>

Table   == [i \in DOMAIN Registered |-> RouteOf(Registered[i])]
Targets == {q.target : q \in Requests} \cup Copies

\* The router, which nothing changes once serving has started.
Routed  == [q \in [method : Methods, target : Targets] |-> Find(Table, q)]
Allowed == [target \in Targets |-> AllowedMethods(Table, target)]

StatusResponse(status) == [status |-> status, allow |-> <<>>]
Nothing                == StatusResponse(0)

\* Mutant: the Allow list is read off the request that reached the end.
AllowOfCopy(target, path_matched) ==
    IF ~path_matched THEN StatusResponse(404)
    ELSE [status |-> 405, allow |-> Allowed[stack[Len(stack)].target]]

\* unmatched_response
UnmatchedResponse(target, path_matched) ==
    IF ~path_matched THEN StatusResponse(404)
    ELSE [status |-> 405, allow |-> Allowed[target]]

Frame(index, target) == [index |-> index, target |-> target, calls |-> 0, got |-> Nothing]

Top        == Last(stack)
AtHandler  == stack # <<>> /\ Top.index = Chain + 1
InMiddle   == stack # <<>> /\ Top.index <= Chain
Idle       == control \in {"idle", "answered"}

Init ==
    /\ original \in Requests
    /\ match = NotFound(FALSE)
    /\ stack = <<>>
    /\ control = "idle"
    /\ value = Nothing
    /\ dispatched = {}

\* respond: routed once, then step(exchange, 0, request).
Respond(q) ==
    /\ Idle
    /\ original' = q
    /\ match' = Routed[q]
    /\ stack' = <<Frame(1, q.target)>>
    /\ control' = "running"
    /\ value' = Nothing
    /\ dispatched' = {}

Leave(to, with) ==
    /\ stack' = Front(stack)
    /\ control' = to
    /\ value' = with
    /\ UNCHANGED <<original, match>>

RunHandler ==
    /\ control = "running" /\ AtHandler
    /\ match.handler # 0
    /\ dispatched' = dispatched \cup {[handler |-> match.handler, response |-> StatusResponse(200)]}
    /\ Leave("returning", StatusResponse(200))

\* Mutant: run_handler without its catch.
HandlerEscapes ==
    /\ control = "running" /\ AtHandler
    /\ match.handler # 0
    /\ dispatched' = dispatched \cup {[handler |-> match.handler, response |-> StatusResponse(500)]}
    /\ Leave("unwinding", Top.index)

\* run_handler's catch
HandlerThrows ==
    /\ control = "running" /\ AtHandler
    /\ match.handler # 0
    /\ dispatched' = dispatched \cup {[handler |-> match.handler, response |-> StatusResponse(500)]}
    /\ Leave("returning", StatusResponse(500))

Unmatched ==
    /\ control = "running" /\ AtHandler
    /\ match.handler = 0
    /\ LET response == UnmatchedResponse(original.target, match.path_matched)
       IN /\ dispatched' = dispatched \cup {[handler |-> 0, response |-> response]}
          /\ Leave("returning", response)

Called == [stack EXCEPT ![Len(stack)].calls = @ + 1]

\* Mutant: a Next that leads back to its own middleware.
CallsItself(target) ==
    /\ control = "running" /\ InMiddle
    /\ Top.calls < MaxCalls
    /\ stack' = Append(Called, Frame(Top.index, target))
    /\ UNCHANGED <<original, match, control, value, dispatched>>

\* Next::operator(), with the request or a copy
CallNext(target) ==
    /\ control = "running" /\ InMiddle
    /\ Top.calls < MaxCalls
    /\ stack' = Append(Called, Frame(Top.index + 1, target))
    /\ UNCHANGED <<original, match, control, value, dispatched>>

\* next returns to the middleware that called it.
NextReturns ==
    /\ control = "returning" /\ stack # <<>>
    /\ stack' = [stack EXCEPT ![Len(stack)].got = value]
    /\ control' = "running"
    /\ value' = Nothing
    /\ UNCHANGED <<original, match, dispatched>>

MiddlewareReturns(response) ==
    /\ control = "running" /\ InMiddle
    /\ Leave("returning", response)
    /\ UNCHANGED dispatched

MiddlewareThrows ==
    /\ control = "running" /\ InMiddle
    /\ Leave("unwinding", Top.index)
    /\ UNCHANGED dispatched

\* What next threw goes through the middleware that called it, or is caught.
Unwind ==
    /\ control = "unwinding" /\ stack # <<>>
    /\ Leave("unwinding", value)
    /\ UNCHANGED dispatched

MiddlewareCatches ==
    /\ control = "unwinding" /\ stack # <<>>
    /\ control' = "running"
    /\ value' = Nothing
    /\ UNCHANGED <<original, match, stack, dispatched>>

\* respond returns what the chain did,
Answered ==
    /\ control = "returning" /\ stack = <<>>
    /\ control' = "answered"
    /\ UNCHANGED <<original, match, stack, value, dispatched>>

\* Mutant: respond without its catch.
NotCaught ==
    /\ control = "unwinding" /\ stack = <<>>
    /\ control' = "terminated"
    /\ UNCHANGED <<original, match, stack, value, dispatched>>

\* or 500 for whatever came out of it.
Caught ==
    /\ control = "unwinding" /\ stack = <<>>
    /\ control' = "answered"
    /\ value' = StatusResponse(500)
    /\ UNCHANGED <<original, match, stack, dispatched>>

Answering ==
    \/ RunHandler \/ HandlerThrows \/ Unmatched
    \/ InMiddle /\ \E target \in Copies \cup {Top.target} : CallNext(target)
    \/ NextReturns
    \/ InMiddle /\ \E response \in {Top.got, StatusResponse(401)} \ {Nothing} :
                       MiddlewareReturns(response)
    \/ MiddlewareThrows \/ Unwind \/ MiddlewareCatches
    \/ Answered \/ Caught

Next == (\E q \in Requests : Respond(q)) \/ Answering

\* Handlers and middleware end, one way or the other.
Spec == Init /\ [][Next]_vars /\ WF_vars(Answering)

-----------------------------------------------------------------------------
\* The chain runs in order, every middleware once on the way down.
TypeOK ==
    /\ original \in Requests
    /\ match.handler \in 0..Len(Registered)
    /\ Len(stack) <= Chain + 1
    /\ \A i \in DOMAIN stack : stack[i].index = i /\ stack[i].calls \in 0..MaxCalls
    /\ control \in {"idle", "running", "returning", "unwinding", "answered"}

(***************************************************************************)
(* However often the rest of the chain runs and whatever the copies say,   *)
(* the end of it serves the route of the request as it came, and a 405     *)
(* names exactly the methods that would be answered at its target, which   *)
(* is at least one and never the refused one (pipeline.cpp:61-70).         *)
(***************************************************************************)
RouteChosenOnce ==
    \A d \in dispatched :
        /\ d.handler = Routed[original].handler
        /\ d.response.status = 405 =>
              /\ Range(d.response.allow) \notin {{}, Methods}
              /\ Range(d.response.allow) =
                    {m \in Methods : Routed[[original EXCEPT !.method = m]].handler # 0}

(***************************************************************************)
(* A handler's exception never unwinds a middleware, which would skip the  *)
(* work it does after next: it is a 500 below all of them                  *)
(* (pipeline.cpp:86-87).                                                   *)
(***************************************************************************)
HandlersNeverUnwind == control = "unwinding" => value \in 1..Chain

(***************************************************************************)
(* Every request is answered, though middleware and handlers throw,        *)
(* swallow, retry and refuse as they please (pipeline.hpp:29-32).          *)
(***************************************************************************)
EveryRequestAnswered == ~Idle ~> control = "answered"
=============================================================================
