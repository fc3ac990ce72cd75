# carafe in TLA+

Carafe is a small blocking HTTP/1.x server library: one accept thread, a fixed
pool of worker threads, one connection per worker at a time. This directory
holds TLA+ models of its moving parts, TLC configurations that check them on
small instances, and TLAPS proofs, for every instance, of all the safety that
the configurations check; what is left to TLC alone is liveness.
`src/...` below is the repository's tree; `PROJECT.json` maps every definition
to the lines it stands for.

To check: `tlc -workers 2 -config Pool.cfg MCConnectionPool` (and likewise for
the other configurations), and `tlapm X_proofs.tla` for `X` in
`ConnectionPool`, `App`, `Connection`, `LineReader`, `RequestReader`, `Routing`,
`Router` and `Pipeline`.

## 1. The system

| component | state | operations | talks to |
|---|---|---|---|
| accept loop `server/serve.cpp`, `net/listener.cpp` | the listening socket, the pool it owns | accept, classify a failed accept, pause, destroy the pool | pool (calls `submit`, destroys it) |
| connection pool `server/pool.*` | `mutex_`, `ready_`, `queue_`, `stopping_`, `threads_` | constructor, `submit`, `work`, `stop`, destructor | connection (`serve_connection`) |
| connection `server/connection.*`, `serve_connection` and `answer` in `server/serve.cpp` | `reader_`, `request_in_progress_`, `request_deadline_` | `next_request`, `apply_read_deadline`, answering, closing | socket, request reader, pipeline |
| socket `net/socket.*` | a descriptor, its receive and send timeouts, the rest of the response being written | `read`, `write`, `write_now`, `set_timeout` | kernel |
| request reader `http/request_reader.*` | phase, request, latched failure, four counts | `append`, `next_request` | line reader, request parser |
| line reader `http/line_reader.*` | `buffer_`, `begin_`, `scanned_` | `append`, `next_line`, `take`, `discard` | |
| request parser `http/request_parser.cpp`, `http/field_list.hpp`, `http/ascii.hpp` | none | parse one line, one field, one list | |
| headers, response `http/headers.cpp`, `http/response.cpp` | fields in order; status, fields, body | add, count, get; serialise | request reader, connection |
| path, router, pipeline `http/path.cpp`, `server/router.*`, `server/pipeline.*` | routes (fixed once serving), one cursor per request | normalise, match, run middleware | handlers |
| application and limits `app.cpp`, `carafe/app.hpp`, `carafe/config.hpp` | configuration | validate, run | accept loop |

**What is hard here.** The pool is the concurrent part: a notified
worker that has yet to win the mutex, workers that take jobs meant for others, a
flag set between a predicate test and a sleep, pushes and thread starts that throw
half-way. The connection
is the timed part: a flag and a deadline that have to follow requests although
one `recv` may bring any number of them, and one deadline over as many sends as
a response takes, against signals and slow readers. The two readers are the
long-sequence part: offsets and budgets that must be right after any history of
calls. The accept loop has to survive running out of descriptors, which is
caused by the connections it accepted, and to tell the listener's failures from
those of the client it was accepting. `PROJECT.json` lists these hazards at
their lines, with the properties that would catch each.

**What makes each part correct.**

* pool: every accepted descriptor has one owner until it is closed; no wakeup
  is lost; first come first served, within both limits; `stop` ends, dispatches
  nothing more, and outlives no thread;
* accept loop: only the listener's own failure ends it, and that does end it;
  every client in the backlog is reached;
* application: `run` returns only on failure, with everything closed and joined;
* connection: each request is answered once, in order; the wait for the rest of a
  request is bounded from its first byte on, and nobody is timed out early; no wait
  lasts for ever, though a connection may, as long as its client keeps asking; a
  client is told of a timeout exactly when it was in the middle of asking;
* socket: a write is bounded however many sends it takes; what reaches the
  client is the responses one after the other, each framed as it reads them;
* request parser: a line means one thing however it is spelled, and the error
  of a line that is wrong in several ways is the one the code ranks first; no
  number wraps;
* line reader: it behaves as a plain stream, however bytes are cut;
* request reader: it stays in step with the client's framing; each message is
  judged by its own content and nothing of an earlier one; failures latch; what
  has arrived whole is reported;
* routing: a target and a pattern meet in one spelling; nothing climbs out of a
  captured rest, and no separator is added to it; `find` and `allowed_methods` agree; the route is chosen once,
  whatever middleware passes on, and every request is answered.

## 2. The modules

`MC*` modules only give constants their values.

**`Dispatch`** is the abstract specification of the pool: a bounded line, a
bounded number of servers, closed once. **`ConnectionPool`** is `pool.cpp` at
the grain of its mutex: `SpawnWorker / Constructed / ConstructorThrows` are the
constructor's loop and its two ways of failing; `Submit, SubmitLocks, Enqueue /
PushFails / TurnAway, Refuse` are `submit`; `Acquire, FindsNothing, Sleep,
WakesSpuriously, Exit, TakeJob, Expire / Begin, Finish / Throw` are `work`
(testing the predicate of `ready_.wait` and going to sleep are two steps, with
the mutex held across both, and atomically given up in the second);
`StopBegins, SetStopping, NotifyAll, Join, Destroy` are the destructor. `pc`
and `owner` say where each thread is. Wherever the code is outside the mutex
another thread may step in. `ImplementsDispatch` maps `queue_` to the line and
the fates of connections to the abstract statuses; a refusal counts from the
release of the mutex, before the 503 is sent, which is best effort.

**`Server`** EXTENDS `ConnectionPool` and is `serve_forever`: the pool's owner
is the accept thread, so accepting is `Submit`, and a dead listener is
`StopBegins`. The kernel is `Connect`, `ListenerBreaks` and what `accept4` may
report. That is written down apart from what the code makes of it:
`ErrorsOfTheListener`, `ErrorsOfTheMoment` and `ErrorsOfOneClient` follow accept(2)
and the three kinds of `docs/design/08-serving-many-clients.md:69-76`, and the
constant `Hiccups` is any choice of the last two; `EMFILE` follows from the
descriptors the pool holds against `DescriptorLimit`. An error of one client takes
that client out of the backlog. `AcceptRetryFor` is the table of
`accept_retry_for`, and `ended_by` remembers what the loop returned on.

**`App`** EXTENDS `Server` and is `App::run`: `Refuses` for limits and deadlines
of zero, `ListenFails / Listens` for `listen_on`, of which nobody sees the steps,
`Serves` for everything the server does, `Returns` for the end of `serve_forever`
and of the listener's scope. A pool that does not exist yet is `unbuilt`. The
call that is served is the one whose limits the pool's constants are; of
`queue_wait` and the deadlines only zero or not is asked.

**`Socket`** is `Socket::write`: one round of its loop is `Round` (done, out of
time, or a timeout set to what is left), then `SendBegins`, which the worker may
reach late, and one send is `SendMoves` for each
piece the kernel takes, then `SendReturns`, `SendInterrupted`, `SendTimesOut` or
`SendFails`, whose difference is what has moved so far. It also has what both
directions share: `HasTimeLeft` and `Timeout` are `milliseconds_until` and
`set_timeout` with the timeval of zero that means no deadline, `Deadline` is
`now() + limit` with the limits it cannot represent. A response is cut into
pieces; the kernel holds `SendBuffer` of them for a client that does not read, and
takes no more once it has given up on the client (`gone`). `blocked` and `spent`
are clocks of the model, not of the code: the time of a write inside `send`, and
all of its time.

**`Connection`** EXTENDS `Socket` and is `serve_connection` over
`Connection::next_request`. Bytes are grouped into units, each the bytes between
two moments at which the reader could tell a difference (see the module's
header); `Parse` is the reader, `Arm` is `apply_read_deadline`, `RecvBegins` the
call of `recv` some time after it, `Read / ReadInterrupted / ReadEnds / ReadFails /
ReadTimesOut / ReadGivesUp` are its outcomes (a signal makes it start over under
its whole timeout; the last is the kernel's own `ETIMEDOUT`, which `timed_out` does
not tell from a deadline), `Answer` calls
`write` with the head of the response and, by `WithBody`, its body, `WriteStep`
is a step of that write, `Answered / WriteFails` are `answer` after it, and
`Closing` the three `closing` arguments. The client pipelines (`eager`) or
awaits each answer, reads when it likes, and may stall or close at any moment.
`age` and `waited` are the model's own clocks: they run from the first bytes of a
request, whatever the code's flag and deadline make of these, so that the
properties about deadlines do not measure with what they judge.

**`ByteStream`** is what `line_reader.hpp` promises, over the unread bytes
alone. **`LineReader`** is `line_reader.cpp` with its offsets and its
compaction, implementing it under `unread <- ` the buffer from `begin_` on.

**`Parsing`** is what the text of one line says: `request_parser.cpp` with its
order of checks, `next_list_element`, and the digit loops of `Content-Length`
and of chunk sizes at the width of `std::size_t` (`SizeMax`). A token is a
character of a class the parsers tell apart, or a word that none of them cuts
and that is compared whole (`GET`, `HTTP/1.1`, `Content-Length`).

**`Messages`** EXTENDS `Parsing` and is the client of the reader: what it sends
(`MessageItems`) and what it means by it. A message carries its meaning beside
its text: the verdict on each part, the name of a field, the length it declares
or the codings it lists, the size of a chunk. `LineMeans`, `FieldMeans` and
`ChunkMeans` tie the one to the other by describing texts (two spaces and no
other, digits with only white space around them, gaps around one `chunked`)
and never by the walks of the parser, with which it shares the classes of
characters, `Lowered` and `HasValidEscapes`; `IsFramed` is a client that sends the
body it declared. A chunk is its data with the CRLF behind it, so data without one
(`request_reader.cpp:340-346`) is a client that no conversation has. `Acceptable`, `Drainable` and `DeclaredLength` judge a message
by its meaning and know nothing of text or phases.

**`RequestReader`** EXTENDS `Messages` and is `request_reader.cpp`: one iteration
of `next_request`'s loop is one step, with every phase, count, refusal and
failure. A line is one item that carries its text, so a head budget counts
lines rather than bytes and counted reads count items. The reader looks at text
only; the properties compare its results with what `Messages` says of the
message. `MCRequestReader` finds meanings in a third way, by building legal
spellings (a target is made of characters and whole escapes, a list is written
with gaps), and TLC checks that they are those of `Messages` when it evaluates
`ClientAssumption`.

**`Routing`** has `path.cpp` and what `router.cpp` computes from a table of
routes, as operators. A path is a sequence of tokens in which an escape is one
token, which is what `has_valid_escapes` guarantees of a target that was
parsed, and a parameter of a pattern is one token; malformed escapes, which
the router copies, do not occur. **`Router`** adds routes and then asks both
questions of one target; its `DotFree` says what normalising does without
walking, by counting the `..` after each name. **`Pipeline`** is
`pipeline.cpp` over `Routing`: a stack of the calls in progress, with one
action for each thing that a handler or a middleware may do (return, throw,
call `next` with the request or a copy, catch). The router is two functions
there, `Routed` and `Allowed`, since nothing changes it once serving starts.

The theorems about a module are in the module of its name that ends in
**`_proofs`**: `App_proofs` rests on `ConnectionPool_proofs`, as `Router_proofs`
and `Pipeline_proofs` rest on the lemmas of `Routing_proofs`.

## 3. What is checked

| run | module | instance | shows |
|---|---|---|---|
| `pool` | ConnectionPool | 3 workers, 4 connections, queue of 2, `queue_wait` 1 tick, one connection whose push may throw, both thread-start failures | descriptor ownership, no lost wakeup, the shutdown properties, `Dispatch` implemented |
| `server` | App, Server | 32 calls of `run`, of which one is valid: 1 worker, 3 clients, queue of 1, a tick longer than `queue_wait`, 2 descriptors, `ENOMEM`, `ECONNABORTED` and `ENONET` | no exhaustion and no listed error ends the server, and a broken listener does; `run` leaves no thread and no descriptor behind; unless a client keeps its worker for ever, every client is reached and released |
| `connection` | Connection, Socket | 7 streams, idle deadline 1, request deadline 2, one piece in the send buffer, one signal | answers follow requests and arrive whole, HEAD without a body; drips and writes are bounded and fresh deadlines are kept in full; who is told 408; every wait ends |
| `line_reader` | LineReader | CR, LF and one other byte, appends of 1-2, 6 bytes in all, cap 2, counts 0-2 | `ByteStream` implemented; the resume point skips nothing |
| `request_reader` | RequestReader, Messages, Parsing | pairs of 6 continuing and 19 ending requests, and about 1,100 spellings of one request's line, field, length, chunk size or coding list, in any pieces; lines of 14 tokens, 6 head lines, 3 fields, body 2, drain 4, a `size_t` of 6 bits | framing in step, each message judged alone and by its meaning, failures latch, results arrive |
| `router` | Router | up to 2 of 5 routes (literal, `<name>`, `<int:>`, `<path:>` last and not last), 1,100 targets of up to 5 pieces: empty, `.`, `..` plain and escaped, `%2f`, `%25`, a query | normalised as counted, a rest stays below its directory and gains no separator, `find` and `allowed_methods` agree, earlier registrations stand |
| `pipeline` | Pipeline | 2 middleware, 2 calls of `next` each, a request that matches, one by HEAD for GET, a 405 and a 404, copies to two other targets | routed once, `Allow` of the original, handlers never unwind, always answered |
| `pool_no_workers`, `server_new_socket`, `connection_stalled`, `connection_idle`, `connection_head` | | | violations, section 5 |

**Why these bounds.** The pool's interesting cases need a woken worker racing
one that never slept while a third still sleeps (three workers), two submissions
before either runs (queue of two), and one more connection than the workers that
can be busy, so that the queue fills and refuses. Workers and interchangeable
clients are symmetric, and that run has no liveness property. `QueueWait = 1`
distinguishes in time, at the limit and too late; ages past it are alike. In
`server`, fewer descriptors than worker + queue + 1 + 1 make `EMFILE` reachable;
one errno per class, and one of a client that the code does not list, suffice
because `AcceptRetryFor` is constant on a class. In
`connection`, a request deadline longer than the idle one separates the two;
streams hold each unit after each other that matters, pipelined or not. A send
buffer of one piece makes a response of two block, be cut short and be resumed,
and one signal (`MaxSignals`) lands in any `recv` or `send`; the clocks of the
model stop where what is claimed of them is decided (`age` at the limit, `waited`
at `WaitedCap`, `blocked` at `Longest + 1`, `spent` at twice `Longest`). The
violation runs take no signals and, where their trace allows, a request deadline of
one. Six bytes let a line of cap 2 with its terminator, a
second one and a split CRLF pass through two compactions. Two messages are
enough for a leak from one request into the next, and the limits are set so that
each is met exactly and exceeded by one. Targets of four characters have an
escape at every place and cut off at every point of it; numbers of three digits
wrap at `SizeMax = 64`, the least power of two the `static_assert`s allow, as
`"64"` does. `MaxTotal` (line reader), `MaxSignals` and `SendBuffer` (socket),
`MaxCalls` (pipeline) and the one repeated call after a failure (request reader)
are the bounds that are not constants of the code. Two routes are enough for one
to shadow another, and the targets have a name, dots and a separator in every
order up to three pieces and two `..` in a row after two of them; a third route
could only be skipped like the second. Two middleware make an inner one fail
under an outer one that calls again or catches, and `MaxCalls` of two is a
retry. `request_reader` and `router` turn deadlock checking off: once everything
has arrived and a failure has been repeated, or the router has been asked,
nothing is left to do.

**Fairness.** Threads run and a released mutex is given in the end to each
thread that keeps asking (strong fairness on `Acquire`, `SubmitLocks`,
`SetStopping`; the standard promises no more and no less than progress, the
schedulers the library targets do not starve a thread for ever). That a connection
being served ends is *not* assumed: `serve_connection` goes on for as long as its
client keeps asking (`serve.cpp:141`, `docs/design/08-serving-many-clients.md:117-119`),
so `EveryClientIsReleased`, `EveryArrivalIsDealtWith` and
`BrokenListenerEndsTheServer` say what follows when no worker is kept for ever
(`NobodyKeepsAWorker`, their antecedent), and say nothing of a server whose workers
are. What one connection does promise is `EveryWaitEnds`: each wait for a request
ends in an answer or in the end of the connection, whatever the client does. The
streams of a run are finite, so in a run that is the end of the connection; with a
client that keeps asking it is the next answer. There the worker runs, a `recv` or
a `send` that can return does, and time passes; signals, failures and a client that
reads are possible and never owed. In `Pipeline` handlers and middleware end, by
returning or by throwing. A client that could be accepted again and again is
accepted (strong fairness on `AcceptOne`: the backlog is a queue, and hiccups do
not last), and a dead listener is noticed. Clients of the pool, the server and a
connection need not connect, send, read or close, nor need anything fail. Two
specifications do ask something of what is outside: `Pipeline` the end just named,
and `RequestReader` that the client sends all of its conversation (strong fairness
on `AppendItems`), without which `EveryMessageGetsAResult` would have nothing to
report.

## 4. What is proved

Every result below is for all values of the constants under the named
`ASSUME`s, which TLC evaluates on each run. `PROJECT.json` lists the theorems.

**The pool** (`PoolAssumption`: a finite set of workers, any clients, any queue
and waiting limit).

* `TypeCorrect`, `LockIsBrief`, `JoinsFindNobodyAsleep`, `MembersOutliveThreads`
  from the inductive invariant `PoolInv`. Each is too weak alone: that joins
  find nobody asleep rests on `SleepsOnNothing` (between the predicate test and
  the sleep the flag cannot be set, as the mutex is held) and on
  `LockDiscipline`; that types are kept rests on `HandsMatchControl` (the
  connection pushed is one); that a throwing constructor loses nothing rests on
  `EmptyUntilBuilt`.
* `OneOwner`: `SocketHasOneOwner` is inductive relative to `PoolInv`. The proof
  has one step per hand-over: `Submit`, `Enqueue`, `Refuse`, `TakeJob`, closing
  a job, `Destroy`; every other step moves nothing.
* `NoLostWakeup`: `NobodySleepsOnWork` is inductive relative to `PoolInv`. A push
  adds one to the queue and one to the awake workers if anyone sleeps; taking
  removes one of each; going to sleep happens on an empty queue only.
* `BoundedDescriptors`: at most workers + queue + 1 descriptors are open. The
  owners of `SocketHasOneOwner` are counted. No run states it, since the four
  clients of `pool` are fewer than its bound.
* `PoolDispatches`: the pool implements `Dispatch`. With one owner for each
  descriptor the abstract status of a client can be read off where it is
  (`StatusesAgree`); then a hand-over is a step of `Dispatch` and every other
  step a stutter. `StoppingEndsDispatch` is the action property beside it.

**The server and `run`** (`AppAssumption` and those of `Server`).
`ServerUsesThePool` shows that the accept loop steps inside the pool only as the
pool's own specification allows, which carries everything above over
(`OneOwnerUnderRun`, `RunDispatches`). `AppInv` adds `AbandonedAtTheEnd` (what is
closed unserved is closed by the destructor), `NoThreadUnbuilt` and
`RunMatchesPool` (where `run` is, against the stage of the pool), from which
follow `AppTypeCorrect` and `NothingIsLeftBehind`. `ServerOutlivesClients` is
`NoListedErrorEndsTheServer` for any `Hiccups` among the errors of accept(2):
`ended_by` stands once it is set (`EndIsRemembered`), and what it is set to is an
error of the listener, of which it then holds that it is broken, or one that
`AcceptRetryFor` does not list (`StopsForAReason`).

**One connection** (`ConnectionAssumption`: any streams of units in which the
rest of a body follows a refusal, any two limits that are positive, any send
buffer and number of signals).

* `ConnectionTypeCorrect` needs `ControlInv`: which variables are in use in which
  phase.
* `WritesAreBounded`: time spent in `send` and time left of the write add up to
  the limit at most; a send that began in time has at most as much of its timeout
  left as the clock has of twice the limit (`SendInv`).
* `DrippingIsBounded`: the time a request has been waited for and the time its read
  has left add up to what is claimed (`WaitInv`). Its two cases are those of the
  flag: set, the code's deadline bounds the sum; not set with part of a request in
  the reader, which takes a client that pipelines (`PatientInv`), the idle limit
  does, once.
* `TimeoutsAreDue`: the same sum from below (`EarlyInv`): while the code's deadline
  is one set for the request in hand, the age of the request and what is left of the
  deadline add up to the limit at least. `FreshDeadlinesAreKept` excludes a deadline
  that the clock cannot hold and one inherited from the refused request just
  answered, as section 5 says.
* `AnswersAreInTurn`: `Account(k)` says that the unit last taken out of the
  reader is the `k`-th sent, what lies behind it in the buffer and on the wire is
  the rest of what was sent, and the replies are those to the results among the
  first `k`, but for one outstanding. No variable counts `k`: the invariant is
  that some `k` accounts for the state.
* `SilenceForTheIdle` and `PatientClientsAreTold`: `FlagInv` and `PatientInv` say
  what the flag means without refusals, and with a client that awaits each
  answer; both rest on `Account`.
* `RepliesAreFramed`: during a write, `FrameInv` has it that what is delivered is
  the replies so far and the beginning of one to the request in hand, and that
  what is left to place is the rest of it, wherever a timeout, a signal or a short
  send cuts. That the request in hand is the one that is due comes from `Account`.
  The antecedent is needed in one step only, where `with_body` of `answer` and what
  the client expects differ: a refused HEAD.

**The line reader** (`LineReaderAssumption`). `ReaderInv` adds to the types and
to `NoTerminatorBeforeScanned` that the byte before the end of the buffer is
scanned again (`HalfTerminatorKept`), without which a CR at the end of one append
and the LF of the next would break it. From it `NoTerminatorIsSkipped`, and
`ReaderIsAByteStream`: `append` with its compaction, `next_line`, `take` and
`discard` are the steps of `ByteStream` on the bytes from `begin_` on.

**The request reader** (`ReaderAssumption`, `ParsingAssumption`: any
conversations, any limits that pass the `static_assert`s, and a head of at least
one line; `ClientAssumption`: each message means what it says, which may be that
it is malformed, and is framed as it declares).

* `MessagesStayInBounds` and `FailuresLatch` from `ReaderInv`, whose parts are the
  buffer (`StreamInv`), the fields kept so far (`RequestInv`), budgets that only
  the failing step overruns (`CountInv`), a body that with its next chunk is
  within the limit (`SizeInv`), and that no call runs on after a failure, whose
  result is the last one (`LatchInv`).
* `LengthsNeverWrap`: of every text, the digit loops of `parse_content_length` and
  `parse_chunk_size` return the number it writes, or refuse it, and refuse as too
  large exactly when some prefix of digits is past the cap. `Written` is that
  number unbounded; `InStep` says that the loop, reduced modulo `SizeMax`, is
  equal to it up to the digit that ends it.

* `ReaderNeverLosesStep` and `MessagesAreJudgedAlone`: `ReaderStaysInStep` speaks
  of the moments between two requests only, and says nothing that a step inside
  one could start from. `StepInv` does. `AnsweredRightly` has every answer up to
  the first that ended the stream be the right one for its message. `Aligned`
  says, phase by phase and until a failure, that what is left of the stream is what
  the message in hand has left (`HeadLeft`, `ChunksLeft`, `TrailersLeft` or bytes)
  followed by the messages behind it (`Behind`), that the counts are those of the
  lines read, and that all that has been read was legal. It is inductive relative
  to `ReaderInv`.
  Two things make it go. The parser lemmas `LineReads`, `FieldReads`,
  `ChunkReads` and `MeasureReads` say that the loops of `Parsing` and
  `measure_body` read exactly what `Messages` says a text means, for every
  text; and the stream of a message comes apart one item at a time
  (`HeadLeftIs`, `ChunksLeftAre`, `BodyLeftIs`). Then there is one lemma for each
  handler (`RequestLineKeepsStep` to `CallAfterFailureKeepsStep`), whose failures
  all go through `IllFormed` or `OverLimits`: the part just read, or the counts
  with it, already make the whole message unacceptable. Chunk sizes are added up by
  the client at once and by the reader one by one, which `SubtotalsAre` reconciles.

**Routing** (`RoutingAssumption`, `RouterAssumption`, `PipelineAssumption`).
`AllowedMethodsAnswer` (by induction along the table) and `FindAnswers` say what
the two questions return. From them `FindAndAllowedNeverDisagree` and
`RegistrationsOnlyAdd` of every table and target, with `RouterTypeCorrect`
(no method is listed twice).

* `RestsStayBelow` needs what the string operations do to each other. `Split` and
  `Join` undo one another (`SplitOfJoin`, `JoinOfSplit`), so the segments of a
  normalized path are those that `remove_dot_segments` kept, none of them a dot
  segment (`KeptSegments`, `NoDotsRemain`). Decoding a rest whose separators are
  kept decodes it piece by piece (`SplitOfDecoded`), and no piece becomes "." or
  ".." by it, since `resolve_escapes` has left no escape of an unreserved
  character. `RestsGainNoSeparator` is the same decomposition as a statement: the
  segments of the rest are the last of the normalized target, one for one, each
  decoded.
* `PathsAreNormalized`: the stack that `remove_dot_segments` walks with is at each
  step what a description without a stack leaves, where a segment survives unless
  some stretch behind it has more ".." than names (`KeptAreSurvivors`, over the
  invariant `Balanced`). A path without dot segments and without escapes to resolve
  is left alone (`NothingToRemove`), so normalising twice changes nothing.

In the pipeline, `ChainInv` adds that every frame
is a frame of the chain, at its own index, and what a return or an exception
carries; from it `OnlyMiddlewareUnwind`, `TheRouteStands` (with what the `Allow`
list holds) and `TheChainIsInOrder`.

**How recursion is proved about.** The induction theorems of the library take
a predicate as parameter, which the provers cannot instantiate. `NatInductive`
(in `Routing_proofs`, `RequestReader_proofs` and `Connection_proofs`) is induction
for a *set* of numbers, from the least element that a well-founded order gives (`WFMin`); a
recursive function is shown to exist by it and then unfolds. In `Routing_proofs`
every recursion of `Routing` is one kind of walk along a sequence (`Stepped`,
`IsWalk`, `WalkExists`), and `SeqInductive` is induction for a set of sequences
that `Append` does not leave.

**Only model-checked**: liveness (`EveryClientIsReleased`,
`EveryArrivalIsDealtWith`, `BrokenListenerEndsTheServer`, `EveryWaitEnds`,
`EveryMessageGetsAResult`, `EveryRequestAnswered`), since fairness and ENABLED are
out of the prover's reach.

## 5. Where the code and its words differ

Each is a `violation` run with its quotation in `PROJECT.json`.

* `pool_no_workers`: "A smaller pool than asked for still serves", but a pool
  whose first thread cannot start has none, and queues clients it never serves.
* `server_new_socket`: "Only the listener failing may end the server", but three of
  the errors that accept(2) passes on from a new socket (`ENOPROTOOPT`,
  `EOPNOTSUPP`, `ENONET`) are not in the list and end it. `NoListedErrorEndsTheServer`
  is what does hold.
* `connection_stalled`: a client that stalls half-way through a *pipelined*
  request, some of which came with its predecessor, is closed on as idle
  instead of being sent a 408. `PatientClientIsTold` is what does hold.
* `connection_idle`: after a refused request whose body has been dropped whole,
  an idle client is sent a 408. `FlagIsNeverInvented` is what does hold.
* `connection_head`: a HEAD whose declared body is too large but can be dropped
  gets a 413 with a body, on a connection that goes on: the client reads that
  body as the beginning of its next response. `ClientReadsEveryReply` is what
  does hold.

Four more differences are in the models, where the antecedents or the terms of a
property that holds show them, and have no run of their own:

* the request deadline runs "from the first byte of a request"
  (`docs/design/09-deadlines.md:57-58`), but not if that byte came with the request
  before: then an idle limit passes first (`DripIsBounded`);
* the same words, but a request behind a refused one runs under the refused one's
  deadline and is timed out before its own (`FreshDeadlinesAreKept`);
* "Ask for no limit with a large value instead" (`carafe/app.hpp:64`), but
  `now() + limit` (`connection.cpp:49`, `socket.cpp:85`) overflows for the largest
  values of `std::chrono::milliseconds`, and a request can be out of time as it
  begins (`Deadline`, and the other antecedent of `FreshDeadlinesAreKept`). Every
  run's limits are representable: the proofs are what covers the others;
* "a line of exactly that length is legal" (`tests/http/line_reader_test.cpp:163`),
  but it is too long for as long as its CR has arrived and its LF has not
  (`ReadLine` of `ByteStream`).

Not findings, because the documentation says them or nothing says otherwise:
queued connections are closed unserved by `stop`; the 408 to a request that
never ended has a body whatever its method, and the close that follows ends it
for the client; joins wait for connections
being served, keep-alive ones included; the response to a failure does not look
at what the client asked of the connection; an end of stream inside a head
closes quietly; a client that keeps asking keeps its worker. A `std::bad_alloc`
while threads are started, with one already running, terminates the process
(`ConstructorThrows`); no comment promises otherwise. A
signal during `recv` grants it the whole timeout again, so `DripIsBounded` adds
one limit per signal. A write "bounded at 100 ms can take close to 200 ms"
(`docs/design/09-deadlines.md:137-142`) when its last send begins just before the
deadline; the model has that wait (`SendBegins`), and `WriteIsBounded` states both
bounds: the limit for the time inside `send`, which is what a slow client can cost,
and less than twice the limit by the clock.

## 6. Not modelled, and the plan

Left out for good: the wording of responses and the accessors of a request,
which no property reads; logging; the single calls of `listen_on`, each of whose
failures closes the one descriptor and ends `run` with `BindFailed`; the
registration calls of `App`, which forward to the pipeline; `write_now`, one
best-effort send, which is part of `Refuse` and `Expire`; version, build and
examples.

Abstracted, and no property reads it: the bytes of a head (`HeadTooLarge` counts
lines, each of which the code charges with its length and its CRLF).

Of the plan nothing is open. Every invariant, action property and refinement
that a run checks has its theorem; the six liveness properties stay with TLC.
