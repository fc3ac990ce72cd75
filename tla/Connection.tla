----------------------------- MODULE Connection -----------------------------
(***************************************************************************)
(* One connection from the moment a worker takes it: serve_connection      *)
(* (src/src/server/serve.cpp:140-178) over Connection                      *)
(* (src/src/server/connection.cpp) and its Socket, with the three          *)
(* deadlines, against a client that sends and reads what it likes when it  *)
(* likes.                                                                  *)
(*                                                                         *)
(* Bytes are grouped into units, each the bytes between two moments at     *)
(* which the reader could tell a difference: "part" of a request that      *)
(* completes nothing, the end of a request ("good"), the end of what is    *)
(* needed to refuse one and go on ("refused", whose body follows as        *)
(* "drain" and ends with "drained"), or bytes that end all parsing         *)
(* ("fatal").  How bytes make up units is the business of RequestReader    *)
(* and LineReader.                                                         *)
(*                                                                         *)
(* Time is counted in ticks, the resolution of the deadlines (1 ms).       *)
(* Deadlines are kept as the ticks that remain.  Two clocks that the code  *)
(* does not have measure from the first bytes of a request, whatever the   *)
(* flag and the deadline of the code make of them: age counts all ticks,   *)
(* waited those spent in recv.  A request begins when there are bytes of   *)
(* it and the one before it, with its body, is out of the reader.          *)
(***************************************************************************)
EXTENDS Socket, FiniteSets, SequencesExt

CONSTANTS
    Streams,       \* what a client may have to send: sequences of units
    IdleLimit,     \* deadlines.idle, in ticks
    RequestLimit   \* deadlines.request, in ticks

Versions == {"Http10", "Http11"}
Options  == {"close", "keep-alive"}
Results  == {"good", "refused", "fatal"}
Units    == [what : Results \cup {"part", "drain", "drained"}, version : Versions,
             options : SUBSET Options, head : BOOLEAN]  \* head: the method is HEAD

ASSUME ConnectionAssumption ==
    /\ \A s \in Streams : s \in Seq(Units)
    \* A body to read past is that of the refused request before it.
    /\ \A s \in Streams : \A i \in 1..Len(s) :
           s[i].what \in {"drain", "drained"} =>
               \E j \in 1..(i - 1) : /\ s[j].what = "refused"
                                     /\ \A m \in (j + 1)..(i - 1) : s[m].what = "drain"
    /\ IdleLimit \in 1..Longest
    /\ RequestLimit \in 1..Longest

\* Time in recv is counted to just past what is claimed of it.
WaitedCap == (RequestLimit + IdleLimit) * (1 + MaxSignals) + 1

VARIABLES
    stream,       \* what this client has to send in all
    eager,        \* whether it pipelines: sends on without awaiting answers
    sent,         \* how many units of it have been sent
    fin,          \* the client has closed its side
    wire,         \* sent and not yet read by the server
    buffered,     \* appended to reader_ and not yet looked at
    partial,      \* reader_ is inside a request, or inside a refused body
    in_progress,  \* request_in_progress_
    requestLeft,  \* ticks until request_deadline_, while a request is in progress
    readTimeout,  \* SO_RCVTIMEO of the recv under way, in ticks, or Never
    readLeft,     \* ticks until that recv gives up, or Never
    pc,           \* where serve_connection is
    verdict,      \* what next_request returned, while it is being answered
    replies,      \* the responses written whole
    reason,       \* why the connection ended
    age,          \* ticks since the request in hand began, counted to RequestLimit
    waited        \* ticks of them in recv, counted to WaitedCap

clientVars == <<stream, eager, sent, fin>>
readerVars == <<buffered, partial>>
ageVars    == <<age, waited>>
clockVars  == <<requestLeft, readTimeout, readLeft, ageVars>>
vars == <<clientVars, wire, readerVars, in_progress, clockVars, pc, verdict, replies, reason, socketVars>>

\* A result no unit of the stream carries: the 408.
Late    == [what |-> "late", version |-> "Http11", options |-> {}, head |-> FALSE]
Nothing == [what |-> "nothing", version |-> "Http11", options |-> {}, head |-> FALSE]

IsResult(u) == u.what \in Results

Init ==
    /\ stream \in Streams
    /\ eager \in BOOLEAN
    /\ sent = 0
    /\ fin = FALSE
    /\ wire = <<>>
    /\ buffered = <<>>
    /\ partial = FALSE
    /\ in_progress = FALSE
    /\ requestLeft = 0
    /\ readTimeout = Never
    /\ readLeft = Never
    /\ pc = "parse"
    /\ verdict = Nothing
    /\ replies = <<>>
    /\ reason = "none"
    /\ age = 0
    /\ waited = 0
    /\ SocketInit

-----------------------------------------------------------------------------
(* The client.                                                             *)

\* How many requests end with the first k units or before.
Ended(k) == Cardinality({j \in 1..k : IsResult(stream[j])})

Asked == Ended(sent)

Send ==
    /\ pc # "closed"
    /\ ~fin
    /\ ~gone
    /\ sent < Len(stream)
    /\ eager \/ (Asked = Len(replies) /\ unread = 0)
    /\ sent' = sent + 1
    /\ wire' = Append(wire, stream[sent + 1])
    /\ UNCHANGED <<stream, eager, fin, readerVars, in_progress, clockVars, pc, verdict, replies, reason,
                   socketVars>>

Fin ==
    /\ pc # "closed"
    /\ ~fin
    /\ fin' = TRUE
    /\ UNCHANGED <<stream, eager, sent, wire, readerVars, in_progress, clockVars, pc, verdict, replies,
                   reason, socketVars>>

-----------------------------------------------------------------------------
(* Connection::next_request                                                *)

End(why) ==
    /\ pc' = "closed"
    /\ reason' = why

\* Mutant: the flag outlives the request.
KeepsFlag(result) == in_progress

\* Only a request handed over ends "in progress": a failure leaves it.
FlagAfter(result) == IF result.what = "good" THEN FALSE ELSE in_progress

\* The clocks, when these units are taken out of the reader and when bytes join
\* it: a request begins with the first that belong to none before.
RequestsEnd(units) ==
    IF \E i \in 1..Len(units) : units[i].what \in {"good", "fatal", "drained"}
    THEN age' = 0 /\ waited' = 0
    ELSE UNCHANGED ageVars
RequestContinues == IF partial THEN UNCHANGED ageVars ELSE age' = 0 /\ waited' = 0

\* reader_.next_request(): the first result the buffered units hold, or
\* nothing yet.
Parse ==
    /\ pc = "parse"
    /\ LET at == {i \in 1..Len(buffered) : IsResult(buffered[i])}
       IN \/ \E i \in at :
              /\ \A j \in at : i <= j
              /\ verdict' = buffered[i]
              /\ buffered' = SubSeq(buffered, i + 1, Len(buffered))
              /\ partial' = (buffered[i].what = "refused")
              /\ in_progress' = FlagAfter(buffered[i])
              /\ requestLeft' = IF in_progress' THEN requestLeft ELSE 0
              /\ RequestsEnd(SubSeq(buffered, 1, i))
              /\ pc' = "answer"
          \/ /\ at = {}
             /\ buffered' = <<>>
             /\ partial' = IF buffered = <<>> THEN partial ELSE Last(buffered).what # "drained"
             /\ pc' = "arm"
             /\ RequestsEnd(buffered)
             /\ UNCHANGED <<in_progress, requestLeft, verdict>>
    /\ UNCHANGED <<clientVars, wire, readTimeout, readLeft, replies, reason, socketVars>>

\* Mutant: every timed-out connection is closed in silence.
TimedOutInSilence == End("idle") /\ UNCHANGED verdict

\* serve_connection on a read that timed out: 408 if a request is in
\* progress, silence if not.
TimedOut ==
    IF in_progress
    THEN pc' = "answer" /\ verdict' = Late /\ UNCHANGED reason
    ELSE End("idle") /\ UNCHANGED verdict

\* Mutant: only the idle limit is ever applied.
IdleLimitAlways == IdleLimit

\* What remains of the request if one is in progress.
ReadLimit == IF in_progress THEN requestLeft ELSE IdleLimit

\* apply_read_deadline
Arm ==
    /\ pc = "arm"
    /\ IF in_progress /\ ~HasTimeLeft(requestLeft)
       THEN TimedOut /\ UNCHANGED readTimeout
       ELSE /\ readTimeout' = Timeout(ReadLimit)
            /\ pc' = "armed"
            /\ UNCHANGED <<verdict, reason>>
    /\ UNCHANGED <<clientVars, wire, readerVars, in_progress, requestLeft, readLeft, ageVars, replies,
                   socketVars>>

\* recv is called, which may be some time after its timeout was set.
RecvBegins ==
    /\ pc = "armed"
    /\ pc' = "read"
    /\ readLeft' = readTimeout
    /\ UNCHANGED <<clientVars, wire, readerVars, in_progress, requestLeft, readTimeout, ageVars,
                   verdict, replies, reason, socketVars>>

\* Mutant: every read renews the deadline.
ReceivesRenewing(units) ==
    /\ buffered' = buffered \o units
    /\ in_progress' = TRUE
    /\ requestLeft' \in Deadline(RequestLimit)
    /\ RequestContinues
    /\ pc' = "parse"

\* The bytes join the reader; the deadline starts with the first that come
\* while no request is in progress.
Receives(units) ==
    /\ buffered' = buffered \o units
    /\ in_progress' = TRUE
    /\ IF in_progress THEN UNCHANGED requestLeft ELSE requestLeft' \in Deadline(RequestLimit)
    /\ RequestContinues
    /\ pc' = "parse"

RecvEnds == readTimeout' = Never /\ readLeft' = Never

\* recv takes any part of what has arrived.
Read ==
    /\ pc = "read"
    /\ \E n \in 1..Len(wire) :
        /\ Receives(SubSeq(wire, 1, n))
        /\ wire' = SubSeq(wire, n + 1, Len(wire))
    /\ RecvEnds
    /\ UNCHANGED <<clientVars, partial, verdict, replies, reason, socketVars>>

\* EINTR: recv is called again, under the whole timeout again.
ReadInterrupted ==
    /\ pc = "read"
    /\ wire = <<>>
    /\ signals < MaxSignals
    /\ signals' = signals + 1
    /\ readLeft' = readTimeout
    /\ UNCHANGED <<clientVars, wire, readerVars, in_progress, requestLeft, readTimeout, ageVars,
                   pc, verdict, replies, reason, sendVars, peerVars>>

ReadEnds ==
    /\ pc = "read"
    /\ wire = <<>>
    /\ fin
    /\ End("finished")
    /\ RecvEnds
    /\ UNCHANGED <<clientVars, wire, readerVars, in_progress, requestLeft, ageVars, verdict, replies,
                   socketVars>>

\* A reset, or any error of recv but those that count as timed out, or of
\* setsockopt before it.
ReadFails ==
    /\ pc \in {"arm", "read"}
    /\ End("lost")
    /\ RecvEnds
    /\ UNCHANGED <<clientVars, wire, readerVars, in_progress, requestLeft, ageVars, verdict, replies,
                   socketVars>>

\* EAGAIN
ReadTimesOut ==
    /\ pc = "read"
    /\ wire = <<>>
    /\ ~fin
    /\ readLeft = 0
    /\ TimedOut
    /\ RecvEnds
    /\ UNCHANGED <<clientVars, wire, readerVars, in_progress, requestLeft, ageVars, replies, socketVars>>

\* ETIMEDOUT: the kernel gives up on a client that acknowledges nothing, and
\* serve_connection takes it for a deadline of its own (serve.cpp:86-88).
ReadGivesUp ==
    /\ pc = "read"
    /\ wire = <<>>
    /\ ~gone
    /\ gone' = TRUE
    /\ TimedOut
    /\ RecvEnds
    /\ UNCHANGED <<clientVars, wire, readerVars, in_progress, requestLeft, ageVars, replies,
                   sendVars, delivered, unread, signals>>

-----------------------------------------------------------------------------
(* The answer.                                                             *)

ClientWantsClose(request) ==
    \/ "close" \in request.options
    \/ request.version = "Http10" /\ "keep-alive" \notin request.options

\* Mutant: a refused HTTP/1.0 request is read past like any other, and the
\* connection outlives a failure.
ClosingOnRequestOnly(result) == result.what = "good" /\ ClientWantsClose(result)

\* The `closing` argument of each of the three calls of answer().
Closing(result) ==
    CASE result.what = "good"    -> ClientWantsClose(result)
      [] result.what = "refused" -> result.version = "Http10"
      [] OTHER                   -> TRUE

\* The `with_body` argument: only a request handed over has a method.
WithBody(result) == result.what = "good" => ~result.head

Serialize(with_body) == IF with_body THEN <<"head", "body">> ELSE <<"head">>

\* answer(), to the call of write under a request's deadline of its own.
Answer ==
    /\ pc = "answer"
    /\ Write(Serialize(WithBody(verdict)), RequestLimit)
    /\ pc' = "write"
    /\ UNCHANGED <<clientVars, wire, readerVars, in_progress, clockVars, verdict, replies, reason>>

WriteStep ==
    /\ Writing
    /\ UNCHANGED <<clientVars, wire, readerVars, in_progress, clockVars, pc, verdict, replies, reason>>

\* The response was written and says whether the connection ends with it.
Answered ==
    /\ WriteReturns("written")
    /\ replies' = Append(replies, [to |-> verdict, close |-> Closing(verdict)])
    /\ IF Closing(verdict) THEN End("announced")
                           ELSE pc' = "parse" /\ UNCHANGED reason
    /\ verdict' = Nothing
    /\ UNCHANGED <<clientVars, wire, readerVars, in_progress, clockVars>>

\* Nobody left to answer.
WriteFails ==
    /\ WriteReturns("failed")
    /\ End("lost")
    /\ UNCHANGED <<clientVars, wire, readerVars, in_progress, clockVars, verdict, replies>>

-----------------------------------------------------------------------------
\* A blocked recv or send does not outstay its timeout; anything else may
\* take long.
Tick ==
    /\ pc # "closed"
    /\ ~(pc = "read" /\ readLeft = 0)
    /\ requestLeft' = Less(requestLeft)
    /\ readLeft' = Less(readLeft)
    /\ age' = IF partial \/ buffered # <<>> THEN More(age, RequestLimit) ELSE age
    /\ waited' = IF pc = "read" /\ partial THEN More(waited, WaitedCap) ELSE waited
    /\ SocketTick
    /\ UNCHANGED <<clientVars, wire, readerVars, in_progress, readTimeout, pc, verdict, replies, reason>>

Closed == pc = "closed" /\ UNCHANGED vars

ClientReads ==
    /\ pc # "closed"
    /\ PeerReads
    /\ UNCHANGED <<clientVars, wire, readerVars, in_progress, clockVars, pc, verdict, replies, reason>>

ServerStep ==
    \/ Parse \/ Arm \/ RecvBegins
    \/ Read \/ ReadInterrupted \/ ReadEnds \/ ReadFails \/ ReadTimesOut \/ ReadGivesUp
    \/ Answer \/ WriteStep \/ Answered \/ WriteFails

Next == Send \/ Fin \/ ClientReads \/ ServerStep \/ Tick \/ Closed

Spec == Init /\ [][Next]_vars

(***************************************************************************)
(* The worker runs, recv and send return when they can, and time passes.   *)
(* Nothing is asked of the client: it need not send, read or close.        *)
(***************************************************************************)
Fairness ==
    /\ WF_vars(Parse)
    /\ WF_vars(Arm \/ RecvBegins)
    /\ WF_vars(Read \/ ReadEnds \/ ReadTimesOut)
    /\ WF_vars(Answer \/ Answered \/ WriteFails)
    /\ WF_vars(WriteStep /\ (Round \/ SendBegins \/ SendEnds))
    /\ WF_vars(Tick)

FairSpec == Spec /\ Fairness

-----------------------------------------------------------------------------
TypeOK ==
    /\ stream \in Streams
    /\ eager \in BOOLEAN
    /\ sent \in 0..Len(stream)
    /\ fin \in BOOLEAN
    /\ wire \in Seq(Units)
    /\ buffered \in Seq(Units)
    /\ partial \in BOOLEAN
    /\ in_progress \in BOOLEAN
    /\ SocketTypeOK
    /\ requestLeft \in 0..RequestLimit
    /\ readTimeout \in {Never} \cup 1..Longest
    /\ readLeft \in {Never} \cup 0..Longest
    /\ age \in 0..RequestLimit
    /\ waited \in 0..WaitedCap
    /\ pc \in {"parse", "arm", "armed", "read", "answer", "write", "closed"}
    /\ verdict \in Units \cup {Late, Nothing}
    /\ replies \in Seq([to : Units \cup {Late}, close : BOOLEAN])
    /\ reason \in {"none", "finished", "idle", "lost", "announced"}

(***************************************************************************)
(* Every request gets its own answer, in the order of the requests, however *)
(* reads cut and join them (pipelining, connection.cpp:18-28); a refused   *)
(* one does not disturb its successors; only a 408 answers no request of   *)
(* its own and it is the last; and nothing follows an answer that          *)
(* announced the close, nor is the connection closed on a client that was  *)
(* answered without one that announces it (serve.cpp:126-136).             *)
(***************************************************************************)
AnswersFollowRequests ==
    LET last == Len(replies)
    IN /\ \A i \in 1..last :
            \/ \E k \in 1..sent : IsResult(stream[k]) /\ Ended(k) = i /\ replies[i].to = stream[k]
            \/ i = last /\ replies[i].to = Late
       /\ \A i \in 1..(last - 1) : ~replies[i].close
       /\ reason = "announced" <=> (last > 0 /\ replies[last].close)

\* Both limits below grow by as much again for each signal that made recv
\* start over under its whole timeout (socket.cpp:76-79).
PerSignal(limit) == limit * (1 + signals)

(***************************************************************************)
(* A request cannot be dripped in: from its first byte the server waits    *)
(* for the rest of it no longer than deadlines.request (connection.hpp:63, *)
(* docs/design/09-deadlines.md:57) where the client awaits each answer.    *)
(* Where it pipelines it gets deadlines.idle on top, once, which those     *)
(* words exclude: bytes that came with the predecessor's do not set the    *)
(* deadline (connection.cpp:25-27, 47-50).                                 *)
(***************************************************************************)
DripIsBounded ==
    pc = "read" /\ partial =>
        waited <= PerSignal(RequestLimit + IF eager THEN IdleLimit ELSE 0)

NoneRefused == \A i \in 1..sent : stream[i].what # "refused"

(***************************************************************************)
(* Under a limit that the clock can hold, a client that is still there     *)
(* gets all of deadlines.request before it is sent a 408, unless the       *)
(* answer before was to a refused request: whatever the idle limit is,     *)
(* however the bytes were cut and whatever was refused earlier             *)
(* (connection.cpp:24-58).  Both antecedents are needed: "Ask for no limit *)
(* with a large value instead" (carafe/app.hpp:64) may overflow now() +    *)
(* limit (connection.cpp:49), and a request behind a refused one inherits  *)
(* its deadline (connection.cpp:25-27).                                    *)
(***************************************************************************)
FreshDeadlinesAreKept ==
    RequestLimit <= Representable /\ (replies = <<>> \/ Last(replies).to.what # "refused") =>
        (verdict = Late /\ ~gone => age >= RequestLimit)

(***************************************************************************)
(* A client that reads slowly, or not at all, holds its worker in send for *)
(* no longer than the write's limit, however many sends the response takes *)
(* and whatever cuts them short (socket.hpp:62-64).  By the clock it is    *)
(* more if the worker has to wait between setting a timeout and sending:   *)
(* "a send starting just before the deadline still runs to its own limit", *)
(* which takes a write bounded at 100 ms "close to 200 ms"                 *)
(* (docs/design/09-deadlines.md:137-142) and never as far as that.         *)
(***************************************************************************)
WriteIsBounded ==
    /\ blocked <= RequestLimit
    /\ call = "send" /\ in_time => spent < 2 * RequestLimit

\* What a client reads as the response to its i-th request: nothing follows
\* the head if that was a HEAD.  Where the stream is lost, or on a 408, the
\* close ends the response whatever it is.
ReadAs(request) ==
    IF request.what \in {"good", "refused"} /\ request.head THEN <<"head">> ELSE <<"head", "body">>

ReadInTurn == FlattenSeq([i \in DOMAIN replies |-> ReadAs(replies[i].to)])

\* What may be answered next: the first request without an answer, or a 408.
Due == {Late} \cup {stream[k] : k \in {j \in 1..sent : IsResult(stream[j]) /\ Ended(j) = Len(replies) + 1}}

(***************************************************************************)
(* As the stream reaches the client, however it was cut into sends, it is  *)
(* the responses one after the other, each framed as the client reads it,  *)
(* and then part of the next one: no piece lost, repeated or left over,    *)
(* HEAD answered without a body, and every response written counted whole  *)
(* (socket.cpp:84-108, serve.cpp:174, "as for every HEAD, no body",        *)
(* tests/server/serve_test.cpp:883).                                       *)
(***************************************************************************)
EveryReplyIsFramed ==
    /\ IsPrefix(ReadInTurn, delivered)
    /\ \E request \in Due : IsPrefix(delivered, ReadInTurn \o ReadAs(request))
    /\ call = "none" /\ reason # "lost" => delivered = ReadInTurn

\* What holds of it: it takes a HEAD that is refused and read past, whose
\* method the refusal does not know.
ClientReadsEveryReply ==
    (\A i \in 1..sent : ~(stream[i].what = "refused" /\ stream[i].head)) => EveryReplyIsFramed

(***************************************************************************)
(* A client whose request stalls half-way is told so: the connection is    *)
(* never closed as idle with part of a request unanswered, unless nobody   *)
(* is there to be told (docs/design/09-deadlines.md:20-25,                 *)
(* connection.hpp:50-51).                                                  *)
(***************************************************************************)
StalledRequestIsTold == reason = "idle" /\ ~gone => ~partial

\* What holds of it: a client that awaits each answer is always told.
PatientClientIsTold == ~eager => StalledRequestIsTold

(***************************************************************************)
(* A client that asked for nothing is closed on in silence: 408 answers    *)
(* only part of a request (docs/design/09-deadlines.md:18-20).             *)
(***************************************************************************)
IdleClientIsNotTold == verdict = Late => partial

(***************************************************************************)
(* What holds of it: it takes a refused request before.  Without one the   *)
(* flag may miss bytes but never invents them, pipelined or not.           *)
(***************************************************************************)
FlagIsNeverInvented ==
    NoneRefused => IdleClientIsNotTold

(***************************************************************************)
(* Between two answers no client holds the worker for ever, whatever it    *)
(* sends, reads, leaves out or drips: the next request is answered or the  *)
(* connection ends.  It speaks of each wait by itself and not of the whole *)
(* connection, which lasts as long as its client keeps asking              *)
(* (serve.cpp:141); a run's clients stop, so there it ends.                *)
(***************************************************************************)
EveryWaitEnds == <>(pc = "closed") \/ []<><<Len(replies') > Len(replies)>>_replies
=============================================================================
