-------------------------- MODULE Pipeline_proofs --------------------------
(* What holds of Pipeline for every chain, every table of routes and every *)
(* request.                                                                *)
EXTENDS Pipeline, Routing_proofs, SequenceTheorems

Responses == {StatusResponse(status) : status \in {0, 200, 401, 404, 500}}
                 \cup {[status |-> 405, allow |-> Allowed[target]] : target \in Targets}

Frames == [index : 1..(Chain + 1), target : Targets, calls : 0..MaxCalls, got : Responses]

\* What travels: a response on its way back, or the middleware that threw.
Travels ==
    /\ control \in {"idle", "running", "returning", "unwinding", "answered"}
    /\ control = "returning" => value \in Responses
    /\ control = "unwinding" => value \in 1..Chain

\* The calls in progress are the chain down to the one that runs.
StackInv ==
    /\ stack \in Seq(Frames)
    /\ \A i \in DOMAIN stack : stack[i].index = i

\* What the end of the chain did for q: served the route q has, and answered
\* 405 only where the path matched and the method did not.
RightlyServed(d, q) ==
    /\ d.handler = Routed[q].handler
    /\ d.response.status = 405 =>
          /\ d.response = UnmatchedResponse(q.target, TRUE)
          /\ Routed[q].handler = 0 /\ Routed[q].path_matched

\* The route is the original's and nothing else was served.
RouteInv ==
    /\ original \in Requests
    /\ match = Routed[original] \/ (control = "idle" /\ match = NotFound(FALSE))
    /\ \A d \in dispatched : RightlyServed(d, original)
    /\ control = "idle" => dispatched = {}

ChainInv == Travels /\ StackInv /\ RouteInv

-----------------------------------------------------------------------------
\* The registered routes as the router has them.
LEMMA RegisteredIsATable == IsTable(Table)
BY PipelineAssumption DEF PipelineAssumption, IsTable, Table, RouteOf, Range

\* A request is routed as find would, whatever method it is given.
LEMMA RoutedIsFind ==
    ASSUME NEW q \in Requests, NEW m \in Methods
    PROVE  LET asked == [q EXCEPT !.method = m]
           IN /\ Routed[asked] = Find(Table, asked)
              /\ asked.method = m /\ asked.target = q.target /\ q.target \in Targets
              /\ q.method \in Methods
              /\ Routed[q] = Find(Table, q)
<1>1. q \in [method : Methods, target : Targets]
    BY PipelineAssumption DEF PipelineAssumption, Targets
<1>2. [q EXCEPT !.method = m] \in [method : Methods, target : Targets]
    BY <1>1
<1>3. QED
    BY <1>1, <1>2 DEF Routed

\* What the router makes of a request.
LEMMA RoutedAnswers ==
    ASSUME NEW q \in Requests
    PROVE  /\ Routed[q].path_matched \in BOOLEAN
           /\ Routed[q].handler \in 0..Len(Registered)
<1>1. Routed[q] = Find(Table, q)
    BY RoutedIsFind DEF Methods
<1>2. DOMAIN Table = 1..Len(Registered) /\ Len(Registered) \in Nat
    BY PipelineAssumption DEF PipelineAssumption, Table
<1>3. DOMAIN Table \subseteq Nat \ {0}
    BY <1>2
<1>4. /\ Find(Table, q).path_matched = (Serving(Table, RoutablePath(q.target)) # {})
      /\ Find(Table, q).handler # 0 =>
             Find(Table, q).handler \in Serving(Table, RoutablePath(q.target))
    BY <1>3, FindAnswers
<1>5. QED
    BY <1>1, <1>2, <1>4 DEF Serving

-----------------------------------------------------------------------------
\* A call that ends leaves the calls around it as they are.
LEMMA FrontOf ==
    ASSUME NEW S, NEW s \in Seq(S), s # <<>>
    PROVE  /\ Front(s) \in Seq(S)
           /\ Len(Front(s)) = Len(s) - 1
           /\ \A i \in 1..(Len(s) - 1) : Front(s)[i] = s[i]
<1> DEFINE n == Len(s) - 1
<1>1. n \in Nat /\ Len(s) = n + 1
    OBVIOUS
<1>2. \A i \in 1..n : s[i] \in S
    BY <1>1
<1>3. Front(s) = SubSeq(s, 1, n)
    BY DEF Front
<1> HIDE DEF n
<1>4. /\ SubSeq(s, 1, n) \in Seq(S)
      /\ Len(SubSeq(s, 1, n)) = IF 1 <= n THEN n - 1 + 1 ELSE 0
      /\ \A i \in 1..(n - 1 + 1) : SubSeq(s, 1, n)[i] = s[1 + i - 1]
    BY <1>1, <1>2, SubSeqProperties
<1>5. n - 1 + 1 = n /\ \A i \in 1..n : 1 + i - 1 = i
    BY <1>1
<1>6. Len(SubSeq(s, 1, n)) = n
    BY <1>1, <1>4, <1>5
<1>7. \A i \in 1..n : SubSeq(s, 1, n)[i] = s[i]
    BY <1>4, <1>5
<1>8. QED
    BY <1>3, <1>4, <1>6, <1>7 DEF n

\* The frame that runs is one of the frames, and it is the last.
LEMMA TopIsAFrame ==
    ASSUME StackInv, stack # <<>>
    PROVE  /\ Top \in Frames
           /\ Top.index = Len(stack)
           /\ Len(stack) \in Nat \ {0}
BY DEF StackInv, Top, Last

\* A request starts with one frame and is routed.
LEMMA InitChainInv == Init => ChainInv
BY DEF Init, ChainInv, Travels, StackInv, RouteInv, Idle

LEMMA RespondKeeps ==
    ASSUME ChainInv, NEW q \in Requests, Respond(q)
    PROVE  ChainInv'
<1>1. Frame(1, q.target) \in Frames
    BY PipelineAssumption DEF PipelineAssumption, Frame, Frames, Targets, Responses, Nothing
<1>2. Frame(1, q.target).index = 1
    BY DEF Frame
<1>3. StackInv'
    BY <1>1, <1>2 DEF Respond, StackInv
<1>4. Travels' /\ RouteInv'
    BY DEF Respond, Travels, RouteInv, Idle
<1>5. QED
    BY <1>3, <1>4 DEF ChainInv

\* Whatever ends the innermost call, the others are still in order.
LEMMA LeaveKeepsTheStack ==
    ASSUME StackInv, stack # <<>>, stack' = Front(stack)
    PROVE  StackInv'
<1>1. stack \in Seq(Frames)
    BY DEF StackInv
<1>2. /\ Front(stack) \in Seq(Frames)
      /\ Len(Front(stack)) = Len(stack) - 1
      /\ \A i \in 1..(Len(stack) - 1) : Front(stack)[i] = stack[i]
    BY <1>1, FrontOf
<1>3. \A i \in DOMAIN Front(stack) : Front(stack)[i].index = i
    BY <1>1, <1>2 DEF StackInv
<1>4. QED
    BY <1>2, <1>3 DEF StackInv

\* The end of the chain serves the match, and answers with a response.
LEMMA DispatchKeeps ==
    ASSUME ChainInv, RunHandler \/ HandlerThrows \/ Unmatched
    PROVE  ChainInv'
<1> USE DEF Leave, AtHandler
<1>1. StackInv'
    BY LeaveKeepsTheStack DEF ChainInv, RunHandler, HandlerThrows, Unmatched
<1>2. match = Routed[original] /\ original \in Requests /\ control' = "returning"
    BY DEF ChainInv, RouteInv, Idle, RunHandler, HandlerThrows, Unmatched
<1>3. UnmatchedResponse(original.target, match.path_matched) \in Responses
    BY <1>2 DEF UnmatchedResponse, Responses, Targets
<1>4. StatusResponse(200) \in Responses /\ StatusResponse(500) \in Responses
    BY DEF Responses
<1>5. value' \in Responses
    BY <1>3, <1>4 DEF RunHandler, HandlerThrows, Unmatched
<1>6. Travels'
    BY <1>2, <1>5 DEF Travels
<1>7. \E response \in {StatusResponse(200), StatusResponse(500),
                           UnmatchedResponse(original.target, match.path_matched)} :
          /\ dispatched' = dispatched \cup {[handler |-> match.handler, response |-> response]}
          /\ response.status = 405 =>
                match.handler = 0 /\ response = UnmatchedResponse(original.target, match.path_matched)
    BY DEF RunHandler, HandlerThrows, Unmatched, StatusResponse
<1>8. PICK response : /\ dispatched' = dispatched \cup {[handler |-> match.handler, response |-> response]}
                      /\ response.status = 405 =>
                            /\ match.handler = 0
                            /\ response = UnmatchedResponse(original.target, match.path_matched)
    BY <1>7
<1>9. RightlyServed([handler |-> match.handler, response |-> response], original)
    <2>1. match.path_matched \in BOOLEAN
        BY <1>2, RoutedAnswers
    <2>2. response.status = 405 => match.path_matched = TRUE
        BY <1>8, <2>1 DEF UnmatchedResponse, StatusResponse
    <2>3. QED
        BY <1>2, <1>8, <2>2 DEF RightlyServed
<1>10. RouteInv'
    <2>1. \A d \in dispatched : RightlyServed(d, original)
        BY DEF ChainInv, RouteInv
    <2>2. original' = original /\ match' = match
        BY DEF RunHandler, HandlerThrows, Unmatched
    <2>3. QED
        BY <1>2, <1>8, <1>9, <2>1, <2>2 DEF RouteInv
<1>11. QED
    BY <1>1, <1>6, <1>10 DEF ChainInv

\* Calling next adds the frame below, for the request or a copy.
LEMMA CallNextKeeps ==
    ASSUME ChainInv, NEW target \in Copies \cup {Top.target}, CallNext(target)
    PROVE  ChainInv'
<1>1. StackInv /\ stack # <<>>
    BY DEF ChainInv, CallNext, InMiddle
<1>2. Top \in Frames /\ Top.index = Len(stack) /\ Len(stack) \in Nat \ {0}
    BY <1>1, TopIsAFrame
<1>3. stack \in Seq(Frames)
    BY <1>1 DEF StackInv
<1>4. /\ Called \in Seq(Frames)
      /\ Len(Called) = Len(stack)
      /\ \A i \in 1..Len(stack) : Called[i].index = i
    <2>1. [stack[Len(stack)] EXCEPT !.calls = @ + 1] \in Frames
        <3>1. Top = stack[Len(stack)] /\ Top.calls + 1 \in 0..MaxCalls
            BY <1>2, PipelineAssumption DEF PipelineAssumption, CallNext, Top, Last, Frames
        <3>2. QED
            BY <1>2, <3>1 DEF Frames
    <2>2. Called = [stack EXCEPT ![Len(stack)] = [stack[Len(stack)] EXCEPT !.calls = @ + 1]]
        BY <1>2, <1>3 DEF Called
    <2>3. Called \in Seq(Frames) /\ Len(Called) = Len(stack)
        BY <1>2, <1>3, <2>1, <2>2
    <2>4. \A i \in 1..Len(stack) : Called[i].index = stack[i].index
        BY <1>2, <1>3, <2>2 DEF Frames
    <2>5. QED
        BY <1>1, <1>3, <2>3, <2>4 DEF StackInv
<1>5. Frame(Top.index + 1, target) \in Frames
    <2>1. Top.index + 1 \in 1..(Chain + 1)
        BY <1>2, PipelineAssumption DEF PipelineAssumption, CallNext, InMiddle
    <2>2. target \in Targets
        BY <1>2 DEF Targets, Frames
    <2>3. QED
        BY <2>1, <2>2, PipelineAssumption DEF PipelineAssumption, Frame, Frames, Responses, Nothing
<1>6. Frame(Top.index + 1, target).index = Len(stack) + 1
    BY <1>2 DEF Frame
<1>7. StackInv'
    BY <1>2, <1>4, <1>5, <1>6 DEF CallNext, StackInv
<1>8. Travels' /\ RouteInv'
    BY DEF ChainInv, CallNext, Travels, RouteInv, Idle
<1>9. QED
    BY <1>7, <1>8 DEF ChainInv

\* What next returns is kept by the middleware that called it.
LEMMA NextReturnsKeeps ==
    ASSUME ChainInv, NextReturns
    PROVE  ChainInv'
<1>1. StackInv /\ stack # <<>> /\ value \in Responses
    BY DEF ChainInv, NextReturns, Travels
<1>2. Top \in Frames /\ Len(stack) \in Nat \ {0} /\ stack \in Seq(Frames)
    BY <1>1, TopIsAFrame DEF StackInv
<1>3. [stack[Len(stack)] EXCEPT !.got = value] \in Frames
    BY <1>1, <1>2 DEF Top, Last, Frames
<1>4. stack' = [stack EXCEPT ![Len(stack)] = [stack[Len(stack)] EXCEPT !.got = value]]
    BY <1>2 DEF NextReturns
<1>5. stack' \in Seq(Frames) /\ Len(stack') = Len(stack)
    BY <1>2, <1>3, <1>4
<1>6. \A i \in 1..Len(stack) : stack'[i].index = stack[i].index
    BY <1>2, <1>4 DEF Frames
<1>7. StackInv'
    BY <1>1, <1>2, <1>5, <1>6 DEF StackInv
<1>8. Travels' /\ RouteInv'
    BY DEF ChainInv, NextReturns, Travels, RouteInv, Idle
<1>9. QED
    BY <1>7, <1>8 DEF ChainInv

\* A middleware returns what next answered or a response of its own.
LEMMA MiddlewareReturnsKeeps ==
    ASSUME ChainInv, NEW response \in {Top.got, StatusResponse(401)}, MiddlewareReturns(response)
    PROVE  ChainInv'
<1>1. StackInv /\ stack # <<>>
    BY DEF ChainInv, MiddlewareReturns, InMiddle
<1>2. Top.got \in Responses
    BY <1>1, TopIsAFrame DEF Frames
<1>3. StatusResponse(401) \in Responses
    BY DEF Responses
<1>4. Travels' /\ RouteInv'
    BY <1>2, <1>3 DEF ChainInv, MiddlewareReturns, Leave, Travels, RouteInv, Idle
<1>5. StackInv'
    BY <1>1, LeaveKeepsTheStack DEF MiddlewareReturns, Leave
<1>6. QED
    BY <1>4, <1>5 DEF ChainInv

\* An exception starts in a middleware and passes through others only.
LEMMA ThrowingKeeps ==
    ASSUME ChainInv, MiddlewareThrows \/ Unwind
    PROVE  ChainInv'
<1>1. StackInv /\ stack # <<>>
    BY DEF ChainInv, MiddlewareThrows, Unwind, InMiddle
<1>2. Top.index \in 1..(Chain + 1)
    BY <1>1, TopIsAFrame DEF Frames
<1>3. value' \in 1..Chain /\ control' = "unwinding"
    BY <1>2, PipelineAssumption
       DEF PipelineAssumption, ChainInv, Travels, MiddlewareThrows, Unwind, Leave, InMiddle
<1>4. Travels'
    BY <1>3 DEF Travels
<1>5. RouteInv'
    BY <1>3 DEF ChainInv, RouteInv, MiddlewareThrows, Unwind, Leave
<1>6. StackInv'
    BY <1>1, LeaveKeepsTheStack DEF MiddlewareThrows, Unwind, Leave
<1>7. QED
    BY <1>4, <1>5, <1>6 DEF ChainInv

\* Catching and answering leave the calls and the route alone.
LEMMA EndingKeeps ==
    ASSUME ChainInv, MiddlewareCatches \/ Answered \/ Caught
    PROVE  ChainInv'
<1>1. StackInv'
    BY DEF ChainInv, StackInv, MiddlewareCatches, Answered, Caught
<1>2. Travels'
    BY DEF ChainInv, Travels, MiddlewareCatches, Answered, Caught
<1>3. RouteInv'
    BY DEF ChainInv, RouteInv, Idle, MiddlewareCatches, Answered, Caught
<1>4. QED
    BY <1>1, <1>2, <1>3 DEF ChainInv

LEMMA StutterKeeps ==
    ASSUME ChainInv, UNCHANGED vars
    PROVE  ChainInv'
BY DEF ChainInv, vars, Travels, StackInv, RouteInv, Idle

LEMMA NextChainInv == ChainInv /\ [Next]_vars => ChainInv'
<1> SUFFICES ASSUME ChainInv, [Next]_vars PROVE ChainInv'
    OBVIOUS
<1>1. ASSUME NEW q \in Requests, Respond(q) PROVE ChainInv'
    BY <1>1, RespondKeeps
<1>2. CASE RunHandler \/ HandlerThrows \/ Unmatched
    BY <1>2, DispatchKeeps
<1>3. ASSUME NEW target \in Copies \cup {Top.target}, CallNext(target) PROVE ChainInv'
    BY <1>3, CallNextKeeps
<1>4. CASE NextReturns
    BY <1>4, NextReturnsKeeps
<1>5. ASSUME NEW response \in {Top.got, StatusResponse(401)}, MiddlewareReturns(response)
      PROVE  ChainInv'
    BY <1>5, MiddlewareReturnsKeeps
<1>6. CASE MiddlewareThrows \/ Unwind
    BY <1>6, ThrowingKeeps
<1>7. CASE MiddlewareCatches \/ Answered \/ Caught
    BY <1>7, EndingKeeps
<1>8. CASE UNCHANGED vars
    BY <1>8, StutterKeeps
<1>9. QED
    BY <1>1, <1>2, <1>3, <1>4, <1>5, <1>6, <1>7, <1>8 DEF Next, Answering

LEMMA AlwaysChainInv == Spec => []ChainInv
BY InitChainInv, NextChainInv, PTL DEF Spec

-----------------------------------------------------------------------------
(* What unwinds a middleware was thrown by a middleware, never by the      *)
(* handler below it: run_handler catches first.                            *)
THEOREM OnlyMiddlewareUnwind == Spec => []HandlersNeverUnwind
<1>1. ChainInv => HandlersNeverUnwind
    BY DEF ChainInv, Travels, HandlersNeverUnwind
<1>2. QED
    BY <1>1, AlwaysChainInv, PTL

(* However often the chain is run again and whatever target a copy has,    *)
(* the end of the chain serves the route that respond chose: step reads it *)
(* from the Exchange.  And a 405 names the methods that would be answered  *)
(* at the target of the request as it came, at least one and never the     *)
(* refused one, for every table of routes.                                 *)
THEOREM TheRouteStands == Spec => []RouteChosenOnce
<1>1. ASSUME ChainInv, NEW d \in dispatched
      PROVE  /\ d.handler = Routed[original].handler
             /\ d.response.status = 405 =>
                   /\ Range(d.response.allow) \notin {{}, Methods}
                   /\ Range(d.response.allow) =
                         {m \in Methods : Routed[[original EXCEPT !.method = m]].handler # 0}
    <2>1. original \in Requests /\ RightlyServed(d, original)
        BY <1>1 DEF ChainInv, RouteInv
    <2>2. SUFFICES ASSUME d.response.status = 405
                   PROVE  /\ Range(d.response.allow) \notin {{}, Methods}
                          /\ Range(d.response.allow) =
                                {m \in Methods : Routed[[original EXCEPT !.method = m]].handler # 0}
        BY <2>1 DEF RightlyServed
    <2> DEFINE allowed == AllowedMethods(Table, original.target)
    <2>3. /\ original.method \in Methods
          /\ original.target \in Targets
          /\ Routed[original] = Find(Table, original)
        <3>1. "GET" \in Methods
            BY DEF Methods
        <3>2. QED
            BY <2>1, <3>1, RoutedIsFind
    <2>4. d.response.allow = allowed
        BY <2>1, <2>2, <2>3 DEF RightlyServed, UnmatchedResponse, Allowed
    <2>5. Find(Table, original).handler = 0 /\ Find(Table, original).path_matched
        BY <2>1, <2>2, <2>3 DEF RightlyServed
    <2>6. original.method \notin Range(allowed) /\ allowed # <<>>
        BY <2>3, <2>5, RegisteredIsATable, FindAndAllowedAgree
    <2>7. allowed \in Seq(Methods)
        BY RegisteredIsATable, AllowedMethodsAnswer DEF IsTable, Distinct
    <2>8. Range(allowed) # {} /\ Range(allowed) \subseteq Methods
        <3> HIDE DEF allowed
        <3> QED BY <2>6, <2>7 DEF Range
    <2>9. ASSUME NEW m \in Methods
          PROVE  m \in Range(allowed) <=> Routed[[original EXCEPT !.method = m]].handler # 0
        <3> DEFINE asked == [original EXCEPT !.method = m]
        <3>1. /\ Routed[asked] = Find(Table, asked)
              /\ asked.method = m /\ asked.target = original.target
            BY <2>1, RoutedIsFind
        <3> HIDE DEF asked
        <3>2. Find(Table, asked).handler # 0 <=> m \in Range(AllowedMethods(Table, asked.target))
            BY <3>1, RegisteredIsATable, FindAndAllowedAgree
        <3>3. QED
            BY <3>1, <3>2 DEF asked
    <2>10. QED
        <3> HIDE DEF allowed
        <3> QED BY <2>3, <2>4, <2>6, <2>8, <2>9
<1>2. ChainInv => RouteChosenOnce
    BY <1>1 DEF RouteChosenOnce
<1>3. QED
    BY <1>2, AlwaysChainInv, PTL

(* The calls in progress are the chain in its order and at most the whole  *)
(* of it, whatever middleware do with next: step calls index + 1 only.     *)
THEOREM TheChainIsInOrder == Spec => []TypeOK
<1>1. ASSUME ChainInv PROVE TypeOK
    <2>1. Len(stack) <= Chain + 1
        <3>1. CASE stack = <<>>
            BY <3>1, PipelineAssumption DEF PipelineAssumption
        <3>2. CASE stack # <<>>
            BY <1>1, <3>2, TopIsAFrame DEF ChainInv, Frames
        <3>3. QED
            BY <3>1, <3>2
    <2>2. \A i \in DOMAIN stack : stack[i].index = i /\ stack[i].calls \in 0..MaxCalls
        <3>1. \A i \in DOMAIN stack : stack[i] \in Frames /\ stack[i].index = i
            BY <1>1 DEF ChainInv, StackInv
        <3>2. \A frame \in Frames : frame.calls \in 0..MaxCalls
            BY DEF Frames
        <3>3. QED
            BY <3>1, <3>2
    <2>3. original \in Requests /\ match.handler \in 0..Len(Registered)
        <3>1. Len(Registered) \in Nat
            BY PipelineAssumption DEF PipelineAssumption
        <3>2. QED
            BY <1>1, <3>1, RoutedAnswers DEF ChainInv, RouteInv, NotFound
    <2>4. QED
        BY <1>1, <2>1, <2>2, <2>3 DEF TypeOK, ChainInv, Travels
<1>2. QED
    BY <1>1, AlwaysChainInv, PTL
=============================================================================
