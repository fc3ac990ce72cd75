--------------------------- MODULE RequestReader ---------------------------
(***************************************************************************)
(* src/src/http/request_reader.cpp: the state machine that turns a byte    *)
(* stream into requests, with its phases, its budgets (head bytes, fields, *)
(* body bytes, chunks), the failure that latches and the refusal that is   *)
(* drained.  One iteration of the loop in next_request is one step, so     *)
(* the phases and their order are those of the code.                       *)
(*                                                                         *)
(* The stream is a sequence of items: a line (LineReader.tla has how one   *)
(* is found, Parsing.tla what its text says), a byte of body, or the CRLF  *)
(* that ends a chunk.  Counted reads count items and a line costs one byte *)
(* of the head budget.                                                     *)
(***************************************************************************)
EXTENDS Messages

CONSTANT
    Conversations  \* what a client may send: sequences of messages

CrlfSize == 1  \* items

ASSUME ReaderAssumption ==
    /\ \A c \in Conversations : IsList(c) /\ \A m \in Range(c) : IsMessage(m)
    /\ MaxLine \in Nat
    /\ MaxHead \in Nat \ {0} /\ MaxFields \in Nat

\* The client: what it writes is what it means, and what it sends is framed so.
ASSUME ClientAssumption ==
    \A c \in Conversations : \A m \in Range(c) : Means(m) /\ IsFramed(m)

VARIABLES
    conversation,  \* the messages this client sends
    incoming,      \* items not yet arrived
    unread,        \* items in line_reader_
    busy,          \* inside next_request
    phase,         \* phase_
    version,       \* request_.version
    headers,       \* request_.headers
    body,          \* the size of request_.body
    failure,       \* failure_
    head_bytes,    \* head_bytes_
    body_bytes,    \* body_bytes_
    chunk_bytes,   \* chunk_bytes_
    field_count,   \* field_count_
    results        \* what next_request returned, "nothing yet" aside

streamVars  == <<conversation, incoming>>
requestVars == <<version, headers, body>>
countVars   == <<head_bytes, body_bytes, chunk_bytes, field_count>>
vars == <<streamVars, unread, busy, phase, requestVars, failure, countVars, results>>

LinePhases == {"RequestLine", "Headers", "ChunkSize", "Trailers"}
BytePhases == {"Body", "Discard", "ChunkData"}

Errors == {"Malformed", "UnknownMethod", "UnsupportedVersion", "RequestLineTooLong",
           "HeaderTooLong", "TooManyHeaders", "HeadTooLarge", "BodyTooLarge",
           "UnsupportedTransferEncoding"}

Init ==
    /\ conversation \in Conversations
    /\ incoming = FlattenSeq([i \in 1..Len(conversation) |-> MessageItems(conversation[i])])
    /\ unread = <<>>
    /\ busy = FALSE
    /\ phase = "RequestLine"
    /\ version = "Http10"
    /\ headers = <<>>
    /\ body = 0
    /\ failure = "None"
    /\ head_bytes = 0
    /\ body_bytes = 0
    /\ chunk_bytes = 0
    /\ field_count = 0
    /\ results = <<>>

-----------------------------------------------------------------------------
(* The caller.                                                             *)

\* Any part of what is on its way arrives.
AppendItems ==
    /\ ~busy
    /\ \E n \in 1..Len(incoming) :
        /\ unread' = unread \o SubSeq(incoming, 1, n)
        /\ incoming' = SubSeq(incoming, n + 1, Len(incoming))
    /\ UNCHANGED <<conversation, busy, phase, requestVars, failure, countVars, results>>

Call ==
    /\ ~busy
    /\ failure = "None"
    /\ busy' = TRUE
    /\ UNCHANGED <<streamVars, unread, phase, requestVars, failure, countVars, results>>

Returns(error, continues) ==
    /\ busy' = FALSE
    /\ results' = Append(results, [error |-> error, continues |-> continues,
                                   version |-> version, body |-> body])

\* Mutant: the failure is forgotten once repeated.
CallForgetsFailure ==
    /\ ~busy
    /\ failure # "None"
    /\ Len(results) <= Len(conversation)
    /\ Returns(failure, FALSE)
    /\ failure' = "None"
    /\ UNCHANGED <<streamVars, unread, phase, requestVars, countVars>>

\* A call after a failure repeats it.  Bounded: once more than the messages.
CallAfterFailure ==
    /\ ~busy
    /\ failure # "None"
    /\ Len(results) <= Len(conversation)
    /\ Returns(failure, FALSE)
    /\ UNCHANGED <<streamVars, unread, phase, requestVars, failure, countVars>>

NothingYet ==
    /\ busy' = FALSE
    /\ UNCHANGED <<unread, phase, requestVars, failure, countVars, results>>

GoesRound == UNCHANGED <<busy, results, failure>>

Fails(error) ==
    /\ failure' = error
    /\ Returns(error, FALSE)
    /\ UNCHANGED phase

\* Mutant: the field count runs on into the next request.
ArmKeepingFields ==
    /\ phase' = "RequestLine"
    /\ version' = "Http10" /\ headers' = <<>> /\ body' = 0
    /\ head_bytes' = 0 /\ body_bytes' = 0
    /\ UNCHANGED field_count

ArmNextRequest ==
    /\ phase' = "RequestLine"
    /\ version' = "Http10"
    /\ headers' = <<>>
    /\ body' = 0
    /\ head_bytes' = 0
    /\ body_bytes' = 0
    /\ field_count' = 0

-----------------------------------------------------------------------------
(* measure_body                                                            *)

Named(name)   == {i \in DOMAIN headers : headers[i].name = <<name>>}
CountOf(name) == Cardinality(Named(name))
ValueOf(name) == headers[Min(Named(name))].value
Codings == FlattenSeq([i \in DOMAIN headers |->
               IF i \in Named("transfer-encoding") THEN ListElements(headers[i].value) ELSE <<>>])

Measured(error, n, chunked) == [error |-> error, bytes |-> n, chunked |-> chunked]

MeasureBody ==
    LET isChunked(coding) == Lowered(coding) = <<"chunked">>
        codings == Codings
        length == ParseContentLength(ValueOf("content-length"))
    IN IF CountOf("transfer-encoding") > 0
       THEN IF CountOf("content-length") > 0 \/ version = "Http10"
            THEN Measured("Malformed", 0, FALSE)
            ELSE IF \/ codings = <<>> \/ ~isChunked(Last(codings))
                    \/ Cardinality({i \in DOMAIN codings : isChunked(codings[i])}) > 1
            THEN Measured("Malformed", 0, FALSE)
            ELSE IF Len(codings) > 1
            THEN Measured("UnsupportedTransferEncoding", 0, FALSE)
            ELSE Measured("None", 0, TRUE)
       ELSE IF CountOf("content-length") > 1 THEN Measured("Malformed", 0, FALSE)
       ELSE IF CountOf("content-length") = 1 THEN Measured(length.error, length.bytes, FALSE)
       ELSE Measured("None", 0, FALSE)

HostIsWrong == CountOf("host") > 1 \/ (CountOf("host") = 0 /\ version = "Http11")

-----------------------------------------------------------------------------
(* read_next_line                                                          *)

NextLine == Head(unread).text

LineTooLong ==
    /\ Len(NextLine) > MaxLine
    /\ Fails(CASE phase = "RequestLine"               -> "RequestLineTooLong"
               [] phase \in {"Headers", "Trailers"}   -> "HeaderTooLong"
               [] phase = "ChunkSize"                 -> "Malformed")
    /\ UNCHANGED <<unread, requestVars, countVars>>

HeadTooLarge ==
    /\ phase # "ChunkSize"
    /\ head_bytes + 1 > MaxHead
    /\ head_bytes' = head_bytes + 1
    /\ Fails("HeadTooLarge")
    /\ UNCHANGED <<requestVars, body_bytes, chunk_bytes, field_count>>

HandleRequestLine ==
    /\ phase = "RequestLine"
    /\ IF ParseRequestLine(NextLine) # "None"
       THEN Fails(ParseRequestLine(NextLine)) /\ UNCHANGED version
       ELSE /\ version' = VersionOf(NextLine)
            /\ phase' = "Headers"
            /\ GoesRound
    /\ UNCHANGED <<headers, body, body_bytes, chunk_bytes, field_count>>

\* The part handle_field_line and handle_trailer_line share: the flood cap
\* first, then the parse; `keep` says whether the field joins the headers.
HandleField(keep) ==
    /\ NextLine # <<>>
    /\ field_count' = field_count + 1
    /\ IF field_count + 1 > MaxFields
       THEN Fails("TooManyHeaders") /\ UNCHANGED headers
       ELSE IF ~IsHeaderField(NextLine)
       THEN Fails("Malformed") /\ UNCHANGED headers
       ELSE /\ headers' = IF keep THEN Append(headers, ParseHeaderField(NextLine)) ELSE headers
            /\ GoesRound
            /\ UNCHANGED phase
    /\ UNCHANGED <<version, body, body_bytes, chunk_bytes>>

\* finish_request, where a line ends the request.
Finishes == Returns("None", TRUE) /\ ArmNextRequest /\ UNCHANGED <<failure, chunk_bytes>>

CompleteHead ==
    /\ phase = "Headers"
    /\ NextLine = <<>>
    /\ \/ /\ HostIsWrong
          /\ Fails("Malformed")
          /\ UNCHANGED <<requestVars, body_bytes, chunk_bytes, field_count>>
       \/ /\ ~HostIsWrong
          /\ MeasureBody.error # "None"
          /\ Fails(MeasureBody.error)
          /\ UNCHANGED <<requestVars, body_bytes, chunk_bytes, field_count>>
       \/ /\ ~HostIsWrong
          /\ MeasureBody.error = "None"
          /\ MeasureBody.chunked
          /\ phase' = "ChunkSize"
          /\ GoesRound
          /\ UNCHANGED <<requestVars, body_bytes, chunk_bytes, field_count>>
       \/ /\ ~HostIsWrong
          /\ MeasureBody.error = "None"
          /\ ~MeasureBody.chunked
          /\ LET n == MeasureBody.bytes
             IN \/ /\ n > MaxBody                       \* refuse
                   /\ body_bytes' = n
                   /\ phase' = "Discard"
                   /\ Returns("BodyTooLarge", TRUE)
                   /\ UNCHANGED <<requestVars, failure, chunk_bytes, field_count>>
                \/ n = 0 /\ Finishes
                \/ /\ n \in 1..MaxBody
                   /\ body_bytes' = n
                   /\ phase' = "Body"
                   /\ GoesRound
                   /\ UNCHANGED <<requestVars, chunk_bytes, field_count>>

\* Mutant: each chunk is held to the body limit, their sum is not.
ChunkFitsAlone(n) == n <= MaxBody

ChunkFits(n) == body + n <= MaxBody

HandleChunkSize ==
    /\ phase = "ChunkSize"
    /\ LET size == ParseChunkSize(NextLine)
           n    == size.bytes
       IN IF size.error # "None"
          THEN Fails(size.error) /\ UNCHANGED chunk_bytes
          ELSE IF n = 0
          THEN phase' = "Trailers" /\ GoesRound /\ UNCHANGED chunk_bytes
          ELSE IF ~ChunkFits(n)
          THEN Fails("BodyTooLarge") /\ UNCHANGED chunk_bytes
          ELSE chunk_bytes' = n /\ phase' = "ChunkData" /\ GoesRound
    /\ UNCHANGED <<requestVars, body_bytes, field_count>>

HandleLine ==
    \/ HandleRequestLine
    \/ phase = "Headers" /\ HandleField(TRUE)
    \/ CompleteHead
    \/ HandleChunkSize
    \/ phase = "Trailers" /\ HandleField(FALSE)
    \/ phase = "Trailers" /\ NextLine = <<>> /\ Finishes

\* A line's bytes are charged to the head unless it is chunk framing.  The
\* request that ends here takes its count with it.
ReadNextLine ==
    /\ busy
    /\ phase \in LinePhases
    /\ unread # <<>>
    /\ \/ LineTooLong
       \/ /\ Len(NextLine) <= MaxLine
          /\ unread' = Tail(unread)
          /\ \/ HeadTooLarge
             \/ /\ phase = "ChunkSize" \/ head_bytes + 1 <= MaxHead
                /\ HandleLine
                /\ head_bytes' = IF phase = "ChunkSize" THEN head_bytes
                                 ELSE IF phase' = "RequestLine" /\ failure' = "None" THEN 0
                                 ELSE head_bytes + 1
    /\ UNCHANGED streamVars

AwaitLine ==
    /\ busy
    /\ phase \in LinePhases
    /\ unread = <<>>
    /\ NothingYet
    /\ UNCHANGED streamVars

-----------------------------------------------------------------------------
(* read_body_bytes                                                         *)

DropItems(n) == SubSeq(unread, n + 1, Len(unread))

\* Mutant: a refused body counts as dropped with the first part of it.
NothingLeft(dropped) == 0

LeftToDrop(dropped) == body_bytes - dropped

DiscardBody ==
    /\ busy
    /\ phase = "Discard"
    /\ LET dropped == IF body_bytes <= Len(unread) THEN body_bytes ELSE Len(unread)
       IN /\ unread' = DropItems(dropped)
          /\ IF LeftToDrop(dropped) > 0
             THEN /\ body_bytes' = LeftToDrop(dropped)
                  /\ busy' = FALSE
                  /\ UNCHANGED <<phase, requestVars, head_bytes, field_count>>
             ELSE ArmNextRequest /\ UNCHANGED busy
    /\ UNCHANGED <<streamVars, failure, chunk_bytes, results>>

\* Mutant: one byte more than the body is waited for.
OneMoreArrived(n) == Len(unread) > n

HaveArrived(n) == Len(unread) >= n

TakeBody ==
    /\ busy
    /\ phase = "Body"
    /\ HaveArrived(body_bytes)
    /\ unread' = DropItems(body_bytes)
    /\ busy' = FALSE
    /\ results' = Append(results, [error |-> "None", continues |-> TRUE,
                                   version |-> version, body |-> body_bytes])
    /\ ArmNextRequest
    /\ UNCHANGED <<streamVars, failure, chunk_bytes>>

TakeChunk ==
    /\ busy
    /\ phase = "ChunkData"
    /\ HaveArrived(chunk_bytes + CrlfSize)
    /\ unread' = DropItems(chunk_bytes + CrlfSize)
    /\ IF unread[chunk_bytes + CrlfSize].kind # "crlf"
       THEN Fails("Malformed") /\ UNCHANGED body
       ELSE /\ body' = body + chunk_bytes
            /\ phase' = "ChunkSize"
            /\ GoesRound
    /\ UNCHANGED <<streamVars, version, headers, countVars>>

AwaitBytes ==
    /\ busy
    /\ \/ phase = "Body" /\ ~HaveArrived(body_bytes)
       \/ phase = "ChunkData" /\ ~HaveArrived(chunk_bytes + CrlfSize)
    /\ NothingYet
    /\ UNCHANGED streamVars

-----------------------------------------------------------------------------
Iteration == ReadNextLine \/ AwaitLine \/ DiscardBody \/ TakeBody \/ TakeChunk \/ AwaitBytes

Next == AppendItems \/ Call \/ CallAfterFailure \/ Iteration

Spec == Init /\ [][Next]_vars

\* The loop runs, and Connection turns to the socket again and again: it reads
\* after every "nothing yet" and calls after every read.
FairSpec == Spec /\ WF_vars(Iteration) /\ SF_vars(AppendItems) /\ WF_vars(Call)

-----------------------------------------------------------------------------
TypeOK ==
    /\ busy \in BOOLEAN
    /\ phase \in LinePhases \cup BytePhases
    /\ version \in {"Http10", "Http11"}
    /\ body \in 0..MaxBody
    /\ failure \in Errors \cup {"None"}
    /\ head_bytes \in 0..(MaxHead + 1)
    /\ body_bytes \in 0..MaxDrain
    /\ chunk_bytes \in 0..MaxBody
    /\ field_count \in 0..(MaxFields + 1)
    /\ \A i \in DOMAIN results : results[i].error \in Errors \cup {"None"}

\* The items no call has consumed, arrived or not.
Remaining == unread \o incoming

RequestsIn(items) == Cardinality({i \in DOMAIN items : items[i].kind = "request"})

(***************************************************************************)
(* The reader stays in step with the client: whenever it expects a request *)
(* line, the next item is one, and as many requests remain as have not     *)
(* been answered.  No request is assembled from the bytes of two, none is  *)
(* skipped, a refused body is dropped to its last byte and no further, and *)
(* a chunked body ends where its trailers do, however the bytes arrive     *)
(* (request_reader.cpp:179-203, 321-353).                                  *)
(***************************************************************************)
ReaderStaysInStep ==
    phase = "RequestLine" /\ failure = "None" =>
        /\ Remaining # <<>> => Head(Remaining).kind = "request"
        /\ RequestsIn(Remaining) = Len(conversation) - Len(results)

\* The verdict on a message alone, and the body handed over with it.
IsJudged(m, result) ==
    /\ (result.error = "None") <=> Acceptable(m)
    /\ (result.error # "None" /\ result.continues) <=> Drainable(m)
    /\ result.error = "None" => result.body \in DeclaredLength(m)
    /\ m.verdict \in Errors => result.error = m.verdict

(***************************************************************************)
(* Each message is judged on its own: it is handed over exactly when it is *)
(* well-formed, framed in one way and within every limit, with the body it *)
(* declared; it is refused and read past exactly when only its declared    *)
(* length is too much; anything else ends the stream, a request line that  *)
(* cannot be read with the error it earns (a 505 outranks a 400 of the     *)
(* target and that a 501, request_parser.cpp:171-184).  No count of an     *)
(* earlier request, refused ones included, leaks into a later one          *)
(* (arm_next_request, request_reader.hpp:61-67), and no number wraps at    *)
(* the width it is read in (request_reader.cpp:39-45).                     *)
(***************************************************************************)
EachMessageIsJudgedAlone ==
    \A i \in 1..Len(results) :
        (\A j \in 1..(i - 1) : results[j].continues) => IsJudged(conversation[i], results[i])

(***************************************************************************)
(* A failure is final: every later call repeats it and consumes nothing    *)
(* (request_reader.hpp:58-59, "the failure latches and every later call    *)
(* repeats it").                                                           *)
(***************************************************************************)
FailureLatches ==
    [][failure # "None" =>
          /\ failure' = failure
          /\ Len(unread') >= Len(unread)
          /\ results' \in {results, Append(results, Last(results))}]_vars

(***************************************************************************)
(* Nothing complete is kept waiting: once everything has arrived, every    *)
(* message has had its result, or one of them has ended the stream.        *)
(***************************************************************************)
EveryMessageGetsAResult ==
    <>(Len(results) >= Len(conversation) \/ failure # "None")
=============================================================================
