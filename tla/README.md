# Gomibako in TLA+

Gomibako is a small HTTP server: one accept-read-handle-write loop over
Boost.Asio and a vendored Boost.Beast (`src/src/http/server.cpp`), a router over
regular expressions (`src/src/http/router.cpp`), five handlers
(`src/src/main.cpp`) and a few typed headers. These modules model what in it is
decided by order, by timing, or by what an earlier step left behind.

## Inventory

| Part | State | Operations | Interacts with | What makes it correct |
|---|---|---|---|---|
| `HttpListener` (server.cpp:29-173) | `socket`, `read_buffer`, `request`, `response`, and the one asynchronous operation it waits for | `accept`, `read_request`, `handle_request`, `send_error_response`, `send_response`; each is the completion handler of the operation before | the shared acceptor, the client at the other end, Beast's parser, the router | every connection is served by one listener and closed; the answer is the client's own and the right one; nothing is carried over; the loop never stops |
| `Server::start` (server.cpp:177-191) | acceptor, one listener, one thread in `io_service::run` | start | makes the listeners | several listeners can share the acceptor (the comments at server.cpp:37 and 187 propose it) |
| `Router` (router.cpp) | seven tables of routes | `add_route`, `is_method_used`, `dispatch`; `Route` and its `match` | called by the listener; calls the handlers | the oldest matching route of the method serves; handlers find the matches they ask for |
| Handlers (main.cpp:17-106), `convert` | none | `/`, `/ip`, `/headers`, `/status/:code`, `/bytes/:num` | read the socket, the request and the matches; fill the response | limits and number conversion at their boundaries; never throw out of `dispatch` |
| Typed headers (typed_headers.cpp) | a tag and a flag, or a string | `ETag::parse`, `value`; constants | `header::set` | `parse` inverts `value`; what it makes a tag of had two quotes (a header with one shows that it does not see to that) |
| Beast's `async_read` (`http/impl/read.ipp`, `basic_parser.ipp`) | the parser's state, `skip_`, flags, what is left of the body | `put` and its states, `put_eof` | the listener's buffer and socket, the message | takes exactly one message and makes of it what was sent, wherever reads cut it; never waits for more than it needs |
| Beast's `flat_static_buffer` | an array, `in`, `out`, `last` | `prepare`, `commit`, `consume`, `data` | filled by reads, emptied by the parser | a queue of bytes |
| Beast's `multi_buffer` | a list of elements and five positions | the same | the body of every message | a queue of bytes |
| Beast's `fields` | a multiset and a list of the same elements | `insert`, `set`, `erase`, `clear`, copy, `find`, `count`, `equal_range` | the header of every message | set and list agree; duplicates stay together; `set` replaces them all |
| Beast's message framing (`message.ipp`, `fields.ipp`) | the framing fields | `chunked`, `content_length`, `keep_alive`, `prepare_payload` | called before a message is sent | one framing, the right one, whatever was set before |
| Beast's serializer and writes (`serializer.ipp`, `write.ipp`) | where in the message, what is left of the view; the operation under way | `next`, `consume`; `async_write_some`, `async_write_header`, `async_write` | the body's reader, the socket, the io_service | every octet once and in order; the handler is called once and told the truth |
| `format`, `config` | none | logging, constants | used by the server | |

What is hard here: completions of several listeners interleave; a request
arrives in any number of pieces, and a parser resumes in the middle of any of
them; a client half-closes, resets or goes silent at any point; one object
(`read_buffer`, `request`, `response`) serves connection after connection; a
write takes as much as it likes, fails and is called again; two containers of
the same elements must stay in step; positions run over the boundaries of
elements; an exception inside a `noexcept` function ends everything.
`PROJECT.json` lists each of these hazards at its line.

## Modules

**`RequestParser`** (constants and operators, no state): what one asynchronous
read makes of the bytes in the buffer. Bytes are *chunks*, pairs of a
connection and a position in what its client sends, cut wherever the network or
the parser ever cuts, so that both always move whole chunks. What a client
sends is a sequence of pieces, each `part`, `end` or `bad`. `Parsed` is the set
of results a call of the parser can have: it pauses and leaves a part
unconsumed, it finishes a request having consumed exactly the message, it
rejects, or it overflows. Where the bytes are one client's message from its
beginning the verdict is determined; where they are the tail of a message or
bytes of two clients glued together (`Garbled`) any verdict is allowed. That is
the only nondeterminism besides how much of an unfinished message Beast has
consumed, and how early it sees a mistake in a header that comes in several
reads (`maybe_need_more` waits for the end of the header).

**`HttpListener`** (extends it): the state machine. One variable per member of
the class, plus `step[l]`, the operation that listener `l` waits for, and
`posted[l]`, the result of a read that Beast found in leftover bytes and posted
to the io_service instead of calling the handler at once. The environment has
the connections' phases, the acceptor's backlog, what each socket learns of its
peer (`link`), and counters of pieces sent and received. Actions:

| Action | Code |
|---|---|
| `Accept` | the handler of `async_accept` without error, `read_request`, and the parse of leftover bytes that `async_read` begins with |
| `AcceptFails` | the handler of `async_accept` with an error |
| `Receive` | `async_read_some` delivers; parse; on a result the whole handler of `async_read`, through `handle_request`, `dispatch` and the start of the write |
| `ReceiveError` | end of stream, partial message or reset; `send_error_response` |
| `Upcall` | the posted handler of `async_read` |
| `WriteDone` | the handler of `async_write`: shutdown, close, `accept` |
| `Connect`, `Send`, `Finish`, `Reset` | clients, kernel and network |

A handler that throws is `Terminate`: `Router::dispatch` is `noexcept`. Which
request goes to which handler is part of the client's stream (`Targets`);
`Router` models how it is decided. `from`, in outcomes and responses, records
whose bytes led to an answer; the code has no such field, and no action reads it
except to pass it on.

**`HttpService`**: the abstract promise to clients that send one request each:
wait, be served by one of `Capacity` listeners, be closed with the one answer
that the request calls for, unless a throwing handler stops the service.
`HttpListener` instantiates it as `Service`.

**`Router`**: the seven tables, filled by `AddRoute`; `Answer` is what
`handle_request` gets from `is_method_used` and `dispatch`, both `const`. Paths
and targets are sequences of the elements between slashes; an element accepts a
set of texts and may capture. `match`'s loop over `keys[idx - 1]` is `Bind`,
with the out-of-bounds read as the outcome `"undefined"`. The history variable
`added` is the list of all calls, which no table holds.

**`Gomibako`** (extends `Router`): the program around the router. `Setup` adds
main.cpp's five routes; `HandleRequest` is `handle_request` from the verdict of
`is_method_used` to the response that `prepare_response` has finished, with the
whole handler in between. A text that denotes a number is a model value with its
sign and magnitude (`Numeral`); `Convert` is what `lexical_cast` does with it: a
magnitude that does not fit is refused, a negative number that fits is accepted
and wraps modulo the width. Header names are the paths that `ptree::put` makes
of them at their dots; `Expressible` is what `write_json` can write. The
property `AsTheListenerHasIt` ties this module to `HttpListener`, whose streams
name the kind of each request's target: it says that the kinds are decided by
method, target and headers as the listener's model takes for granted.

**`ETag`**: `parse` with the positions of `std::string`, among them `npos` and
`size_t` arithmetic modulo its width, and `value`; one side makes a tag of any
header, the other sends it again.

**`DynamicBuffer`**: the abstract queue of bytes: prepare, commit, consume.
**`FlatBuffer`** is `flat_static_buffer`: an array and three places, with the
`memmove` of `prepare`. **`MultiBuffer`** is `multi_buffer`: a list of elements
with `in_pos`, `out`, `out_pos`, `out_end`. Each instantiates `DynamicBuffer` by
its readable bytes and implements it. Where `consume` erases the last element
and then asks for `list_.back()` of the empty list, the model follows
boost::intrusive, whose answer is the list's end.

**`MessageRead`**: `read_some_op` and `read_msg_op` around the states of
`basic_parser::put`, one action per turn of its loop: `PutStartLine`,
`PutFields`, `PutBody`, `PutChunkHeader`; then `Parsed`, and the socket's
`Received` and `Eof`. A byte is a symbol: the method, the target and each field
name are one symbol, while CR, LF, blanks, digits and the `;` of extensions are
bytes of their own, as the parser's places depend on them; a value is any number of symbols. What a call of `put`
scans is written by places: `Least` of the places where the loop of the code stops
(`FieldValue`, `ToEol`, `RunEnd`, `Extensions`), or a function from the place where
it resumes (`FindEom`, whose strides are those of the code) or of the number of
turns (`Fields`). `RequestGrammar` is the reference, with no parser in it: which
parts of a sequence of symbols are a field, a chunk line, an extension, and the
chains of places at which one part ends and the next begins (`Chains`), so that
`RequestsIn(s, n)` is the set of requests that the first `n` bytes begin with and
what each of them says. Neither has a recursive operator, nor a bound on the length
of anything. A value is what its lines hold between their blanks, which stay within
a line (`Unfolded`), so that `2 SP 0` is no number. Of chunk extensions there are all
forms: blanks around `;` and `=`, values, and strings in quotes, in which a CR LF does
not end the line (`Part` is the scanner's place, byte by byte, for grammar and
parser). Both use `Unfolded` and `Parts` for what their characters decide; where a
value or an extension ends is said twice. `BOOST_ASSERT(n >= 5)` of
`parse_chunk_header` may end the program (`Abort`, the phase `"aborted"`) or, in a
build without assertions, be passed over; `HttpListener` models the second build.

**`MessageWrite`**: the serializer as a record (`s`, `split`, `header_done`,
`more`, the rest of the view), `next` and `consume` as functions on it
(`Advanced`, `Consumed`), and the composed operations `write_some_op` and
`write_op`: a call shows a view (`"sending"`), the socket takes any part of it
(`Sent`), or the write fails (`SendFails`), or a result is posted to the
io_service (`Posted`). Any call may follow any other, whatever became of it. A body
is a sequence of piece sizes; `tells` says whether its reader knows which piece is
the last, `lacks` with which error it may answer instead of a piece: `need_buffer`,
as `buffer_body`'s does, or `need_more`, after which the header goes alone. No
reader of Beast's answers that; `serializer::next` asks for it, so the model has it.
`limit_` is subsumed by a socket that takes what it likes. `Orderly` names the
executions in which the serializer keeps its promises: no `async_write` has
overtaken a header that goes alone (`overtaken`, a history variable), no chunk is
empty, no reader answers `need_more`. `CompleteIsAll` says the same as `DoneIsAll`
without that condition, and fails.

**`HeaderFields`**: the abstract list of fields. **`Fields`**: `set_` and
`list_`, which hold the same elements. Names are numbers, as `set_` orders them.
**`MessageFields`**: the values of `Connection`, `Transfer-Encoding` and
`Content-Length` as sequences of tokens, and what the message's functions do to
them; `KeptAlive` is `keep_alive_impl` with its cases by version.

**`MCListener`**, **`MCRouter`**, **`MCGomibako`**, **`MCETag`**,
**`MCMessageRead`**, **`MCMessageWrite`**: the streams, paths, texts and messages of
the runs. **`MCBuffers`**: `FlatBuffer` and `MultiBuffer` side by side.
**`MCMessage`**: these, `Fields`, `MessageFields` and `ETag`, of which each behaviour
uses one. The modules that it brings together name their specifications apart:
`FieldsSpec`, `FramingSpec`, `TagSpec`, `Spec` (`FlatBuffer`) and `Multi!Spec`.

**`Selection`**: what a loop over a sequence keeps of it, by places. It is what
`SelectSeq` computes, written as a function so that it can be proved about;
`Fields`, `HeaderFields`, `MessageFields` and `Router` use it.

The theorems are in **`HttpListener_proofs`**, **`Gomibako_proofs`** (the router
and the program around it), **`Headers_proofs`** (`Fields` and `ETag`),
**`Buffers_proofs`** (both buffers), **`MessageFields_proofs`**,
**`MessageRead_proofs`**, **`MessageWrite_proofs`** and **`Selection_proofs`**, which
has the lemmas about sequences that the others share.

Operators whose comment begins "Wrong:" are faulty variants of the definition
after them; no specification uses them. Each shows that a property would notice
that fault.

## Runs

| Run | Instance | Shows |
|---|---|---|
| `listener_any` | 2 listeners, 3 clients, two of which may stop, half-close or reset at any point; the first sends a request and then rubbish | types; `RoomToRead`; `ReadInOrder`: no byte lost, doubled or reordered between socket and request; `CleanHandover`, `OwnReply`, `RightReply`: as long as every connection that ended was read completely or not at all, listeners hand over an empty buffer and each answer is the client's own and the right one; `NoSilentClose`; `SocketOwnership`; `AnswerOnce` |
| `idle_client` | 2 listeners, 2 clients, one that pipelines and may idle for ever, one that shuts its side at last | `EveryConnectionEnds` under fairness: the other one is served to the end, also when leftover bytes garble its request |
| `service` | 2 listeners, 3 clients with one request each, one of them throws | `ImplementsService` (refinement of `HttpService`), `EveryRequestAnswered` |
| `finding_leftover` | 1 listener, a client that goes away after half a request, then one that behaves | `AnswersItsOwnClient` fails |
| `finding_override` | any two routes of the other user of `gomibako` | `RoutesCanBeOverridden` fails |
| `finding_etag` | the headers of `message_parts` | `HeadersAreCorrect` fails |
| `finding_body` | as `message_write`, with the readers that `Orderly` asks for | `CompleteIsAll` fails |
| `finding_five` | as `message_read` | `NeverAborts` fails |
| `gomibako` | two users of the router. Main: main.cpp's routes; 47 targets with numbers around 0, 999, 4096 and both ends of a 12 and a 16 bit type; requests with clashing, repeated and empty headers. Another one: any two routes of 7 paths, 2 methods with a table, 2 callbacks; 4 verbs | `OldestServes` (the seven tables answer as one list in the order of the calls: with the handler of the oldest route that serves the target, or else with the reason why none does), `GetsItsKeys`, `NeverTakenOver`; `NumbersAsAsked`: the answer is the number asked for or 400; `Framed`: the declared length is the body's, after any earlier answer; `HeadersShown`; `AsTheListenerHasIt` |
| `message_parts` | fields: 3 names, 2 values, at most 4 fields, any calls | `Agree`, `LookupAgrees`, `IsHeaderFields` (refinement) |
| | framing: requests and responses of both versions, any three fields inserted by hand, any calls | `PayloadIsFramed`, `KeepAliveSticks`, `ChunkedSticks` |
| | a typed header: every one of up to 6 characters of 4 kinds | `SurvivesTheWire` (`parse` inverts `value`, for tags with quotes in them too), `TagIsAPiece` (what a header with two quotes or with none is taken for) |
| | buffers: a flat or a multi buffer of 4 bytes, elements of 2 or more, any calls | `Layout`; `IsQueue` (refinement of `DynamicBuffer`): a prepare is refused only when the bytes in use leave too little room, wherever they lie; `DebugCheck` (the source's own assertions), `MultiIsQueue` |
| `message_read` | 7 requests of every framing, one of them with extended chunk lines, each also with any byte missing or replaced by one of twelve, or another request behind it; 5 with blanks within values; a header that just fits its limit, a request that just fits the buffer, bodies at and above their limit; reads cut anywhere | `ReadsWhatWasSent`, `RefusesNone`, `NoNeedlessWait` |
| `message_write` | messages of up to three pieces, chunked or not, kept or closed, also with empty pieces and with a reader that answers `need_more`; all three calls in any order; two failures | in the executions that are `Orderly`, `WireIsMessage`: no octet twice, out of order or left out; `DoneIsAll`; in all, `CountsOctets` (but for `end_of_stream`), `EndIsSaid` (its second half if `Orderly`), `EveryCallIsAnswered`, and in the `Orderly` ones `AllIsSent`, both under fairness |

Two runs have several users or parts in one specification. They share no
state that the properties relate, so a behaviour of `message_parts` uses one part
and leaves the others as they were made, and one of `gomibako` has one user: the
sum of their states is explored and not the product. What is in the bytes of a
buffer never decides anything, so `message_parts` may take `a` for `b`
(`ByteSymmetry`).

### Findings

Each is a run whose property is what the repository says, and a trace of the code
against it.

| Run | What is said | What the code does |
|---|---|---|
| `finding_leftover` | server.cpp:133, "Reads Client's request" | `read_buffer` is a member that nothing empties between connections: half a request of one client is parsed as the beginning of the next one's. The only finding that reaches clients of this program |
| `finding_override` | router.hpp:130, "Routes can be overridden." | `add_route` appends and `dispatch` takes the first match: an overriding route is never called. main.cpp adds no path twice. `OldestServes` and `NeverTakenOver` state what the code does instead |
| `finding_etag` | typed_headers.hpp:14, "It provides guarantees of headers correctness" | of a header with one quote, `right - left - 1` wraps to `npos` (typed_headers.cpp:25), and what follows the quote is the tag. `TagIsAPiece` says nothing of these headers. Nothing in the program calls `parse` |
| `finding_body` | serializer.hpp:289, "The operation is complete when all octets [...] have been successfully retrieved" | an `async_write_header` that fails in the header, then `async_write`: serializer.ipp:314 finds `split_` cleared and takes the message for complete; the body is never sent and no error told. With chunks (:375) header and last chunk go out. The program never writes a header alone |
| `finding_five` | basic_parser.ipp:764, `BOOST_ASSERT(n >= 5)` | an empty chunked body that is cut one byte behind its `0 CR LF` comes back with four bytes. A default build stops there; one without assertions waits for the rest. `RefusesNone` says that it stops over no other request |

### Noted while modelling

What else the models brought up, each reproduced by a run before its property was
set aside:

- `Router::dispatch` is `noexcept`, so a handler that throws ends the process,
  although server.cpp:79 has it that the loop goes on for ever. The models have
  it (`Terminate`, `Crash`, the targets `clash` and `peer`).
- router.hpp:85 says that a path can be a regular expression; a capture group of
  its own shifts the groups against `keys`, and `match` reads `keys` out of
  bounds (router.cpp:34). `Router` gives such a request the outcome
  `"undefined"` (`OldestServes` says when), and no other property speaks of it.
- write.hpp:405 says that the handler is told "the number of bytes written to the
  stream". The last write on a connection that will close ends with
  `end_of_stream`, and write.ipp:277 does not add its octets. `CountsOctets` leaves
  that outcome out; the program ignores the number.
- serializer.hpp:35 says that the serializer will "automatically perform chunk
  encoding". For a piece of no bytes, which is what an empty `string_body` has,
  serializer.ipp:164 writes a chunk of size zero: that ends the message, and what
  follows belongs to none. `OddReader` leaves such chunks out of what is said of the
  wire; the program's answers have a length.
- flat_static_buffer.hpp:99 says that what `data()` returned stays valid across
  calls of `prepare`; `prepare` moves the bytes. The program is not affected:
  `read_some_op` uses what `data()` returned before the next `prepare`.
- basic_parser.hpp:407 gives the header limit for the whole header;
  basic_parser.ipp:205 applies it to what is left to parse in one call, so a
  header whose fields arrive one by one may be longer.

### Bounds

The buffer holds two chunks and streams have one or two pieces: enough for a
message that fits exactly, one that arrives in two reads, a full buffer with an
unfinished garbled message, and a pipelined second message in the buffer. Three
clients give a connection with a predecessor and a successor on the same
listener; two listeners give every race for the acceptor. Two routes give every
case of shadowing, as only the order of pairs matters to a first match
(`SomebodyElse` adds no more; main's five are `MaxRoutes`). Connections are finite, so every behaviour of the
listeners is. In `listener_any` the third client, whose turn can also be the
first or the second, is one that neither stops nor resets.

The widths of the number types in `gomibako` are 12 and 16 bits instead of 32
and 64: both are above the limits 999 and 4096 of the handlers, which are the
program's, so every case (below the limit, between limit and width, beyond the
width, negative) happens. The typed headers have six characters (`W/"x"x`) and
`size_t` of 6 bits, whose `npos` is larger than any of their lengths. Buffers of
four bytes give every relation of places, rooms and requests: empty, full, bytes
in the middle, one to three elements, a prepare that spans elements, one that
moves, one that is refused. The limits of `message_read` are those at which its
requests just fit: a header of 14 bytes, 31 bytes besides the body, a body of 3.
The streams of `message_read` are cut at every
place, which reaches every value of `skip_`; a chunked body has two chunks, an
extension and a trailer. Messages to be written have up to three pieces: first, middle, last.
Four fields of three names give duplicates between others; `MaxFields` and
`MaxOwn` bound the calls of `insert` in the two field modules; `MaxFailures` bounds failing
writes.

### Deadlock

The listener runs switch deadlock checking off: after `Terminate` the process
is gone, and clients that have all been served are a legitimate end. So do
`gomibako` (the process may be gone, or two routes added), `message_parts` (`parse` may have refused) and the
runs of `MessageRead`, which ends when the handler was called.

### Fairness

`Fairness` asks that each listener's ready completion runs: there is one
io_service and a thread in `run`, which starves no ready handler. For `Accept`
it also says that accepts do not fail for ever; the code retries at once and has
no other remedy. `WriteDone` is fair because answers are smaller than a socket's
send buffer. Steady clients send what they have; the others, except `Idlers`,
shut their side at last (the code has no timeout, so without that assumption one
silent client stops a single listener for good: this is the point of
`idle_client`). Connecting, aborting and the failing accept are not fair.

`MessageWrite` has weak fairness of `Handler`: a posted result is run, and a
socket that was asked to write takes something at last. Calls and failures are
not fair. The other modules state no liveness: what they do is done in the call.

## Proofs

`HttpListener_proofs` proves for every set of listeners and clients, every
stream and every buffer size, from the assumptions named in the modules
(`StreamAssumption`, `BufferMaxAssumption`, `NoneAssumption`):

- `InvInductive`: `Inv == TypeOK /\ SocketOwnership` is inductive. Neither
  half is inductive alone: `Receive` reads the counters of `socket[l]`, which
  are defined only if a reading listener holds a connection, and that is
  ownership; ownership in turn needs the types of the backlog.
- `TypeCorrect` (`Spec => []TypeOK`) and `OwnershipHolds`
  (`Spec => []SocketOwnership`).
- `RoomHolds` (`Spec => []RoomToRead`). The parser either consumes something, or
  asks for more with room left, or fails (`ParsedLeavesRoom`); a handler that
  leaves its listener where it was has ended the process, and only a request
  does that, never a failed read (`ReadDoneStep`).
- `AnsweredOnce` (`Spec => AnswerOnce`): an action property, from `Inv`, as the
  socket of a write is open and the head of the backlog is queued.
- `NeverSilent` (`Spec => []NoSilentClose`), strengthened by `AnswerReady`: the
  response of a listener that writes is an answer.

The argument goes action by action. `ParsedType` says that the parser only ever
takes chunks off the front; `ReadDoneEffect` that the handler of a read starts a
write on the same socket or ends the process; `HeadLeaves` what is known of the
backlog when its head leaves it; `ReceivedBytes` what a read parses.

Its second part proves `ReadsInOrder` (`Spec => []ReadInOrder`). The property
is not inductive: it is silent about a listener that accepts, while the next
connection finds the buffer that this listener has. `Ordered` adds that all
bytes there are of connections that are over, and that nothing has been received
from a connection that waits. The parser only moves bytes from the buffer to the
request (`ParsedKeepsAll`), the network appends what comes next
(`DeliveriesJoin`), and what one listener does leaves the others' bytes alone
(`OthersUntouched`, which needs `HeldOnce`).

Its third part proves `HandoverClean`, `RepliesOwn` and `RepliesRight`
(`Spec => []CleanHandover`, `[]OwnReply`, `[]RightReply`). The condition of all
three, `Undisturbed`, can only become false, never true again (`DisturbedStays`),
so that an invariant may rest on it. `Separate` is that invariant: a listener that
accepts has an empty buffer; one that reads has in memory what its client sent
and nothing else, and that is not a whole request, or the parser would have
ended the read; one that writes has the right response, and an empty buffer if
the request was whole. That the parser leaves nothing is `ParsedOwn`: the
beginning of one request has no end but its last chunk (`OneRequestSeen`), so a
parser that finishes has consumed all of it. `ReceiveError` answers 500 before
the request is whole, which is why `RightReply` has that case only for a client
of whom nothing was read.

Its last part proves `ServiceImplemented` (`Spec => ImplementsService`) where
`OneRequestClients` holds (every client is steady and sends one request that
fits the buffer) and the set of listeners is finite. `Unbroken` adds to the above
that no link fails and that a connection is written to, or closed, only with its
whole request read. Then `Accept` is `Start`, where fewer connections are open
than there are listeners because each is held by one that does not accept
(`RoomToServe`, with `FS_Injection`); `WriteDone` is `Answer`, as the kernel has no
reason to lose the answer; a handler that throws is `Crash` by the request of its
own client (`TerminateIsCrash`); `Connect` is `Arrive`; everything else stutters.

`Buffers_proofs` begins with the flat buffer. It proves, for every `MaxSize` and
every set of bytes,
`TypeCorrect` (`Spec => []TypeOK`), `LaidOut` (`Spec => []Layout`) and the
refinement `ImplementsQueue` (`Spec => IsQueue`). `IInv == TypeOK /\ Layout` is
inductive (`PlacesHold`): a commit stays in the array only because what is lent
lies behind `out`, and `prepare` keeps that when it moves the bytes. For the
refinement each call is a call of `DynamicBuffer` or a stutter; the lemmas say
what `Contents` is after a move, after a commit and after a consume.

Then it proves of the multi buffer, for every `MaxSize`, every `Growth` and every
set of bytes, `MultiBufferSound` (`Multi!Spec => []DebugCheck`) and the refinement
`MultiImplementsQueue` (`Multi!Spec => MultiIsQueue`). What the source asserts in
`debug_check` is not inductive. `MultiInv` (`Sound`) adds three things:

- what was lent is the distance from `out_pos` to `out_end`, over the elements
  between: without it a commit could run past the end of what was prepared;
- the elements together are at most `MaxSize` bytes larger than `in_pos`, which is
  `WithinMax` said of the whole list, so that it survives when `out` moves;
- each element has at least one and at most `MaxSize` bytes. When all was read and
  nothing is prepared, `consume` sets `in_pos` back to 0 and keeps the one element
  that may be left: the bound above then holds only because of this one.

The positions of a list are handled as distances from its first byte: `SizeOf` is
the distance of the end of element `k`, `Start` that of the room. `Spells(l, lo, hi,
c)` says that `c` is what stands in `l` between two distances, which determines it
(`SpellsOnce`), and `Contents` is what the list spells from `in_pos` to `Start`
(`ContentsSpelled`). Each call then is a statement about distances: `prepare`
keeps the elements up to `Start` (`NeededIs`, `KeptSound`, `NewSound`,
`SameContents`); `commit` writes behind `Start` and moves it by what was written
(`WriteIntoIs`, `MoveOutIs`); `consume` takes elements off the front, which moves
every distance by their size (`SpellsRest`, `PartSound`, `WholeSound`).

`Gomibako_proofs` begins with the router: for all sets of paths, targets, verbs
and callbacks and any number of routes, `OldestAlwaysServes`
(`Spec => []OldestServes`), `NeverTaken` (`Spec => NeverTakenOver`) and
`KeysAlwaysFound` (`Spec => []GetsItsKeys`). The invariant says that the table of
a method is the subsequence of `added` of that method, with the places as an
increasing function (`Inv`); the first match of the table is then the first
match of the list. Well-founded induction on places finds the least one. That its
handler is called, and the loop over `keys` stays in bounds, is said of just the paths
without a group of their author's (`OwnGroupIsOut`).
`NeverTaken` follows: a table only ever grows at its end (`AddKeeps`).
`KeysAlwaysFound` counts on both sides: where every capture group belongs to an
element with a key, the groups and the keys before an element are equally many,
so that `keys[idx - 1]` is the key of the group's own element. Its assumption
(`KeysAssumption`: an element with a key captures) is what the constructor of
`Route` does, which puts a group in the place of every `:key` that it finds.

The second part is the running program: `NumbersTaken`, `EveryAnswerFramed`,
`HeadersAreShown` and `ListenerHasIt` (`GSpec => []NumbersAsAsked`, `[]Framed`,
`[]HeadersShown`, `AsTheListenerHasIt`). The invariant is `GInv`
(`RoutesOfMain`): the router's, and that the calls of `add_route` so far are
main's, in their order. Nothing in it speaks of the last answer: `HandleRequest` makes
every answer anew, so that each property is proved of the step, from `GInv`
before it, whatever the response held. The lemmas go along the code: the route
that answers (`AnswerIs` and its cases), what each handler sends, or that it throws
(`StatusResult`, `HeadersResult`, ...), and what `prepare_response` makes of it
(`FineIs`). `ConvertIs` says that `Convert` succeeds exactly where the text
denotes a number of that width and then returns it: that this is unique is the
arithmetic of residues (`ModOnce`), and that the limits 999 and 4096 are numbers of
the width is `WidthAssumption`. For `/headers` the tree
after `n` fields has, at each path, the value of the last of these fields with
that path, and a field can be put exactly where no other is above or below it.
`ListenerHasIt` is what lets `HttpListener` speak of kinds of targets: `"clash"` is
a request whose headers cannot stand in one tree, and no other `/headers` throws.

`Selection_proofs` has the lemmas about `Kept` and `Dropped` that the next two
need (the places that are kept as an increasing function, and what is kept of a
sequence with one element more), and what `FlattenSeq` makes of a sequence with one
element more at either end, for `MessageWrite_proofs` and `Buffers_proofs`.

`Headers_proofs` begins with the fields. It proves, for all names, values and numbers of fields,
`ContainersAgree`, `LookupsAgree` and the refinement `ImplementsHeaderFields`
(`FieldsSpec => []Agree`, `[]LookupAgrees`, `IsHeaderFields`). `Agree` alone is not
inductive: `insert` looks for its place in the list through the multiset, so it
keeps the list together only if both orders agree. `Inv` (`Stored`) says that
`set_` is `list_` sorted by name with equal names in the list's order, and that
equal names are neighbours in the list. `InsertedSet` and `InsertedList` say where
an element goes; `erase` and `set` drop the same elements from both, which
leaves the order of the rest alone; the copy inserts the elements of the other
one after the other, and each goes to the end, because they were together
(`CopyOne`). For the refinement each call is the abstract call on the list of
pairs; of `erase` it has to be shown that the elements of one name are the
contiguous part of `list_` that the code's two iterators mark.

Its second part proves `TagsSurvive` (`TagSpec => SurvivesTheWire`) and `TagsArePieces`
(`TagSpec => []TagIsAPiece`, which leaves out the headers with one quote, see
`finding_etag`) for headers of every length that a `std::string` can have
(`RawAssumption`: far below `npos`). `FindIs` says which places `find` and `rfind`
return, `ParseIs` what `parse` takes: what is between the first quote and the last. If
they are the same one the length is -1, which wraps to `npos`, and `substr` takes
all that follows; this is the only subtraction that wraps, and `npos` is no place of
any text. `ValueParsed` says that `value` puts its quotes where `parse` looks for
them, also around a tag with quotes in it. The invariant (`TagInv`) is that a header
either arrived, and the object is what `parse` makes of it, or is the `value` of
an object that it still stands for; a `parse` that throws is thereby excluded too.

`MessageFields_proofs` proves, for all options, codings and lengths,
`PayloadFramed`, `KeepAliveStays` and `ChunkedStays` (`FramingSpec => PayloadIsFramed`,
`KeepAliveSticks`, `ChunkedSticks`), each a property of single calls that depends
on what was inserted before. `chunked(false)` takes one coding away, so the
value that is left must not end in `chunked` again: `Inv` is that no
`Transfer-Encoding` does so twice, assumed of the values that a caller inserts by
hand (`CodingsAssumption`; a list that names a coding twice is listed under what is
not modelled) and proved of everything that the functions make of them.
`KeepAliveStays` rests on what `token_list` functions do to a sequence of tokens,
for both versions and both values.

`MessageWrite_proofs` proves, for every message, every header, any calls and any
number of failures, `WireInOrder`, `DoneHasAll`, `CountIsRight` and `EndIsRight`
(`Spec => []WireIsMessage`, `[]DoneIsAll`, `[]CountsOctets`, `[]EndIsSaid`). What
they say of the octets on the wire holds where the execution is `Orderly`, a
condition in the properties, not a restriction of the calls; `finding_body` and the
empty chunk (noted above) show that it cannot go. The invariant is an equation: what is on the wire, the view, and the encoding of what comes after
the view make up the message (`Fits`). `next` keeps it, because the encoding of
the pieces that are left is that of the first, then that of the others
(`EncodedFirst`, from `FlattenFirst`); `consume` keeps it, because a view is what
was taken of it and what was not (`Cut`), and the next state has the rest to
show (`ConsumedKeeps`). The equation needs `Consistent`: that the reader has no
piece left where the state says so, and that a header which was to be sent alone
is not taken for a message without a body. An `async_write` while `HeaderOwed` breaks
just this, so the invariant says `Fits` only while it has not happened and the reader
never answers `need_more` (`Even`), which can become false and never true again.
An empty chunk does not disturb the equation: the serializer sends what it encodes,
but that is the message (`WholeIs`) only without such a chunk. `Runs` and `Heard`
count the octets of an operation, whatever the program does.

`MessageRead_proofs` proves, for every set of streams (`StreamsAssumption`: finite
sequences of symbols, of any length and with any mistakes in them), wherever the
reads cut them, and for all three limits (`SizesAssumption`), `MessageIsRequest`,
`NoRequestRefused` and `WaitsOnlyForMore` (`Spec => []ReadsWhatWasSent`,
`[]RefusesNone`, `[]NoNeedlessWait`). None of the three is inductive: the first
speaks of a message that is complete, the second of one that was refused, the
third of one that is waited for. `Inv` (`InvAlways`) says what the parser knows at
every turn between them:

- `Told`: for each state, which chain of the grammar leads from the start line to
  the place where the parser is, and that the fields, flags, length, body and room
  are what that chain says. The chain of fields is one of *closed* fields
  (`ClosedIn`), which no blank follows: `parse_fields` looks one byte behind the
  end of a field for that, and without it a field could still grow when the next
  read arrives.
- `Skips` and, for the lines of chunks and the trailer, `LineSkip` and `EndSkip`:
  the bytes that a resumed search leaves out have no end in them. For the header
  the search resumes three bytes back, which is what `maybe_need_more` subtracts.
- `Waits`: a parser that asked for more has reason to.
- `Refused`: where it gave up, no request within the limits begins the stream. What
  a chunk's line takes from the room before an extension is found to be wrong stays
  taken (`RoomLeft`).
- That the program was stopped by the assertion only over an empty chunked body
  whose fifth byte was still to come (`AbortKeeps`).

The proof has three layers. The first is about the grammar alone: chains can be
made longer at their end and cut there (`LeadsOn`, `LeadsBack`, `GrownLead`), and
where each place has one way on there is one chain (`OneWay`). A stream
therefore has at most one header (`HeaderOnce`), line after line of chunks
(`LineOnce`, `ChunkOnce`), and trailer; `RequestsAre` takes `RequestsIn` apart into
requests without a body, counted and chunked ones. The second says of each scanner
of the parser what it finds in the grammar's terms: `FindEomIs` (its strides skip no
end), `FieldValueIs` (a field, the proof that there is none, or not enough bytes to
tell), `FieldsAre` (the turns of `parse_fields` follow the chain, or it dead-ends),
`ToEolIs`, `DigitsEndIs`, `ExtensionsAre`, `ChunkLineIs`. That the parts of an
extension are the same in the buffer and in the stream is `PartsAlike`. The third has a lemma for
each action (`PutStartLineKeeps`, `PutFieldsKeeps`, `PutBodyKeeps`,
`PutChunkHeaderKeeps`, with `TrailerKeeps` and `ChunkLineKeeps` for its branches,
`ParsedKeeps`, `ReceivedKeeps`, `EofKeeps`). Two facts carry the limits: what the
chunks hold grows along their chain (`DataGrows`), so a body that has outgrown
its room is too long in every request that the stream can still become
(`BodyTooLong`, `ChunkTooLong`), and what is in the buffer besides the body is
no more than `Within` counts (`Overhead`, `Overflows`).

Every induction here is an argument about the least number that is an exception
(`LeastExists` of `Selection_proofs`). Thus a theorem of induction with an operator
as its parameter is not needed, and a function that is defined by itself, as those
of `Chains`, `Number`, `Fields`, `FindEom` and `FlattenSeq` are, is known to be what
its definition says (`GrowingExists`, `CountingExists`, `TurningExists`,
`EomStepsExist`, `FlattenIs`).

## Only model-checked

- Liveness: `EveryConnectionEnds` and `EveryRequestAnswered` of the listeners,
  `EveryCallIsAnswered` and `AllIsSent` of `MessageWrite`. The prover does not
  handle fairness or `ENABLED`.
- `AnswersItsOwnClient` fails, as `finding_leftover` shows.

## Not modelled, and why

- The two hundred vendored headers are mostly code that this program never
  calls: WebSocket and zlib (some 11000 lines), file and string bodies, parsing
  of responses, base64, SHA-1, test streams, and the type traits that make up
  most of `core`. They have no behaviour in this program, so most of the
  repository's lines are in no module: what is modelled is the program itself,
  whole, and the parts of Beast that its requests and answers go through.
- `MessageRead`: the characters of methods, targets, versions and names (one symbol
  each); characters that no token, value or quoted string may have; tabs, which are
  blanks as spaces are. The 4096 byte limit on folded values (the buffer,
  `STATIC_BUFFER_MAX`, holds no more) and the overflow of chunk sizes. Commas: of a
  list, `Transfer-Encoding` has the first item only (`TellsChunked`), so `chunked`
  behind another coding does not occur. `c`, a hexadecimal digit, begins the symbol
  `chunked`: right behind a size it is no digit here, and the line is refused either
  way, though perhaps with another error. `Connection` and `Upgrade`; bodies until the end of the stream,
  which requests do not have; parsers that are not eager; buffer sequences.
- `MultiBuffer`: copy, move and swap of whole buffers, `shrink_to_fit`, `reset`.
- `MessageWrite`: the synchronous writes; they run the same serializer without an
  io_service and, unlike the asynchronous ones, add the octets of a write also
  when it ends in an error.
- `Fields`: allocators, swap, the strings of the start line, lengths above 64 KB.
- `MessageFields`: the constructors and `need_eof`; lists that name a token twice
  (`chunked, chunked` keeps one of them after `content_length`); `keep_alive()`
  asks the first `Connection` field only, and so does the model.
- Texts: bodies, error messages and log lines are names with a size.
- A `:` inside an element of a path, and regular expressions that match across
  slashes: the routes of main.cpp have none.
- `ETag`'s constructor: its default is `weak=false` (typed_headers.cpp:11, and
  visible there only), while typed_headers.hpp:51 says "Default is weak"; no
  behaviour depends on it, as nothing in the program constructs one.
- `format.cpp` and `config.hpp`: logging and constants.

## How the modules fit together

`HttpListener` takes a request's fate from two operators: which bytes a read
takes and with which verdict (`RequestParser`), and which kind of target it has
(`Targets`). `MessageRead` is the detailed account of the first: its reads end
with exactly one message's bytes taken (`ReadsWhatWasSent`), never wait when the
message is there (`NoNeedlessWait`) and refuse nothing that is one
(`RefusesNone`), which is what `RequestParser` grants a message that is not
garbled. `Gomibako` is the account of the second (`AsTheListenerHasIt`). Its
buffer is a queue by `FlatBuffer`, its bodies are by `MultiBuffer`, its answers
are framed by `MessageFields` and sent by `MessageWrite`.
