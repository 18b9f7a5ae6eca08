# TLA+ models of isaac

isaac is a header-only C++11 network library: TCP and UDP servers on epoll with
pools of worker threads, HTTP and a packed binary protocol on top, clients, a
Redis client, an asynchronous log, and small tools (queues, locks, timers,
buffers, digests).  This directory models it, checks it with TLC and proves the safety
properties of its servers, clients, queues, locks and log with TLAPS.  The models follow
the Linux build.

## 1. The system

| Part | State it keeps | Operations | What is hard |
|---|---|---|---|
| `YS_ThQueue` (`tool/ys_thread_queue.hpp`) | deque, `_size`, `_lockId`, condition variable | push/pop/swap/wait/clear/notifyT, blocking or not, with and without notification | lost wake-ups, timeouts racing notifications, `_lockId` read without the mutex |
| `YS_SharedMutex`, `YS_RLock`, `YS_WLock` (`tool/ys_shared_lock.hpp`) | `_isWrite`, `_readCount`, condition variable | read/write lock, try, unlock, scoped guards | one condition variable for readers and writers |
| `YS_NetTh`, `YS_ProcThread`, `YS_NetBufQueue` (`ys_thread_asyn.h`) | event loop, idle and busy buffer queues | onEpollIn, onEpollErr, clearTimeOut, clearClosed, handle, regSock | buffers and table entries shared as bare pointers by the network thread and the workers; edge-triggered events |
| `YS_ConnList`, `YS_EpData` (`ys_conn_list.h`, `ys_epoller.h`) | fd -> entry with attached buffer and timer | add, del, getData, getAll... | entries deleted while workers look them up |
| `YS_BusiPool`, `YS_TcpServer`, `YS_Accepter` | pool of network threads, limit | accept loop, admission, placement | sizes that change while they are added up; accepts that fail |
| `YS_TcpClient` (`ys_tcp_client.h`, `ys_tcp.h`, `ys_socket.h`) | socket, epoll entry, last event, buffer | connect, reconnected, send, recvSyn, recvPkt, closeSock | partial writes, late answers, failed reconnections |
| HTTP (`ys_http_parser_ex.h`, `ys_http_parser.h`, `ys_http_server.h`, `ys_http_mount.h`) | automaton, marks, lengths; collected URL, headers, body | http_parser_execute, callbacks, httpParse, handle | messages cut anywhere, contexts reused, who answers |
| Pack protocol (`tool/ys_pack.hpp`, `ys_pack_proto.h`) | receive buffers, dispatch table | isFullPkt, done, sendReq, recvResp | packets cut and glued by the stream, headers told by two bytes, answers written in parts |
| `YS_Log` (`ys_log.h`) | queue, open files, their sizes, numbers and days | logging, rotation, start, destructor | rotation across midnight, restarts and faults |
| `YS_RdsPool`, `YS_RdsConn` (`ys_redis.hpp`) | queue of connections | pop, push, connect, auth, query | connections that break around a command, servers that stay silent |
| `YS_Buf`, digests, `YS_Base64`, `YS_PackArgs`, `fmtPathEx` | sizes and bytes | sequential | unsigned arithmetic, block boundaries, lengths found in data |

How they interact: the accepting thread (`YS_Accepter::start`) gives a socket to
`YS_TcpServer::onAccept`, which picks a `YS_NetTh` and calls its `addConn`.  The
network thread reads packets into buffers taken from its idle queue, asks the
driver (HTTP, pack, or the application's) whether a packet is complete, and pushes
complete ones to its busy queue; its workers pop them, run the driver's handler,
answer and push the buffer back.  Both queues are `YS_ThQueue`s.  Every 200 ms
without events the network thread takes back the buffers of packets that did not
complete in 3 s and drops connections that handlers marked with `closeWait()` or
(UDP) that were silent for 30 s.  `YS_Log` and `YS_RdsPool` are built on
`YS_ThQueue`, the HTTP and pack clients on `YS_TcpClient`.

What makes each part correct: the queue loses, duplicates and reorders nothing and
never leaves a consumer asleep beside data; the lock excludes and wakes whoever can
go on; every buffer has one owner, every event points to a live entry, every packet
is a run of bytes of one connection; dead connections are dropped; the admission
limit holds and admitted connections are placed; a caller gets the answer to its own
request; what is parsed does not depend on how TCP cut it; a log entry is in the
right file or in a known set of losses; a Redis connection has one user at a time;
what is encoded is decoded to itself.

## 2. The modules

`ThQueue` - `YS_ThQueue`.  Each critical section of `_mutex` is one step.  A blocking
call is `Call` (the unlocked read of `_lockId`), `Enter` (first critical section),
then `Resume`/`Expired` after a wake-up or a timeout; `Timeout` and `Spurious` are the
condition variable's.  `FinishPop`, `FinishSwap`, `FinishWait` are the tails of the
three calls.  Values are numbered by push; `taken` and `dropped` are history.

`SharedMutex`, `RWLock` - the lock and its guards, and what a readers-writer lock
promises.  `readLock`/`writeLock` start a call, `Attempt` evaluates its condition under
the mutex (`Grant` or `FallAsleep`).  `dtorWLock` is the destructor of `YS_WLock` as
written: it calls `writeLock()`.  `RWLock` has no counter, flag or waiting; the
refinement maps what each thread holds to `inside`.

`NetTh` - one network thread, its workers, its connection table and its buffers.
Steps end where another thread can see a difference: each queue operation, each
critical section of `YS_ConnList`, each `epoll_ctl`.  `onEpollIn` is split into the
choice of the buffer, `popIdle` (or its 200 ms timeout) and the receive, one action
per outcome in the order of the code's tests (`recvFail`, `recvNothing`, `recvBad`,
`recvFull`, `recvMore`, `recvWhole`).  `YS_ProcThread::handle` is `popTask`, `handle`,
`regSock`, `regSockAdd`, `clearAndPushIdle`.  Housekeeping is `getAllTimeOutBuf`,
`clearTimeOut`, `getAllClosedSock`, `clearClosed`, `getAllTimeOutSock`,
`clearTimeOutSock`.  Abstractions: a stream is a sequence of numbered chunks and
`Cap` chunks fill a buffer; the verdict of `isFullPkt` is free, since any driver may be
plugged in; a timer is off, running, past 3 s or past the connection timeout; a
`YS_PktCtx` is the set of connections whose bytes it has parsed, with `None` added
once a packet has been thrown away; answers are not represented; the order in which
the buffers of timed-out packets are pushed is free (the code uses fd order).  The
callbacks `onConn` and `onDisConn` are empty in the library and left out.  A socket is
accepted once: an fd number is reused only after the last reference to its
`YS_Socket` has gone.  A worker that uses a null or deleted `YS_EpData` sets `fault` and
stops.  `onEpollErr` always uses memory it has just freed: `YS_ConnList::del` erases the
map's node and reads the entry's pointer from it, and `onEpollErr` goes on with the deleted
entry.  `UseAfterErase` has both outcomes: nobody has reused the memory and all goes well,
or the network thread is lost (`npc = "lost"`) and stays so.

`TcpServer` - the accepting thread: `fireOnce`, the accept loop, `connNum` one network
thread at a time, the limit, the scan of `addConn`.  A network thread is the size of
its table, which `Leave` lowers at any moment.  `YS_Tcp::accept` returns the same null for
an empty backlog (`acceptNull`) and for a failure (`acceptError`): any errno of `::accept`,
which may leave the request where it is, or a TLS handshake.  Both end the loop; `cut`
remembers the second.

`TcpClient` - one thread making synchronous calls.  A byte is a pair of request and
position, so a wrong byte is visible; `wire` is every byte written to the connection.
`writeSome` takes the branch of `send` for TLS or for a plain socket, with `Chunk` the
bytes each hands to the kernel.  The peer answers, closes or resets at any step, and a
connection attempt may be refused; timers may run out whenever the code waits.  `data`
records whether `_data` is null, live or freed, `ev` what the last wait left in
`_pevs[0]`.

`HttpParser` - `http_parser_execute` as operators on a parser record, one operator per
group of states of the automaton (`MethodState`, `UrlState`, `FieldState`, `ValueChar`,
`HeadersAlmostDone`, `ChunkState`, ...).  An input symbol stands for a run of characters
the automaton treats alike; marks, callbacks, `nread`, `content_length` with its
overflow, the flags, chunked bodies, upgrades and keep-alive are kept.  The letter-by-letter
recognition of method, version and header names is one symbol each; fragments are left out.
`Turn` is the loop's body for one symbol, with its runs of REEXECUTE, `Feed` the loop,
`Begin` and `AtEnd` what `http_parser_execute` does before and after it.  `head` is
history: how many header fields came before the first body.

`HttpServer` - one receive buffer under `YS_NetTh::onEpollIn` with
`YS_HttpParser::httpParse`, and the two drivers' `handle`.  `whole` is a second parser,
given the current packet without interruption; `CutIndependent` says that the parser in
the buffer equals it, in every field, once what is marked has been handed over.  `spoiled`
is set when a packet has been discarded from this buffer: the code then keeps the parser's
context.  The handler is looked up by, and sees, `getPath` of the URL (decoded, then cut at
the query, and empty if what is left is no path or has a colon); the context's fields by
then include the `Connection: keep-alive` that `getConnection` inserts.  What has been sent
when a handler returns is `sendFile`, what the driver remembers of it `hasResped`.

`Log` - callers, queue, writer thread, files.  A file is its level, day and number with
the entries in it; files outlive the process.  Faults: a write that fails, a file taken
away, a crash at any step.

`Buf` - `YS_Buf` with the cells of its memory, sizes of `Mod` values, and a limit on what
`new` can provide.  An append is one step for the call, one per turn of its loop
(`appendGrow`) and one for the copy (`appendCopy`).  `appendText` is the overload that is
told a length and measures the text itself.  `said` is what the caller believes to have put
in, `misled` and `short` say whether a text was of another length and whether an append met
too little room.

`Digest`, `Base64`, `Pack`, `Path` - the other sequential helpers, as operators or, for the
digests, as actions on a state of their own; `Codecs` feeds each of them its inputs.  A
character that is none of Base64's is `Foreign`, and decoding one throws (`Thrown`).
Lengths in packed data are those that encode wrote.  References are independent definitions: RFC 4648 by numbers (`Reference`), the
padding of the standards (`Padded`), the walk through a directory tree (`Walk`).  A digest
lists the blocks given to the compression function; `fed` is the message so far.

`PackProto` - client, stream, framing, workers and answers.  Byte `k` of packet `id` is
`<<id, k>>`; the stream delivers pieces of any length in `Pieces` or all there is.  Only two
bytes tell a header, so whatever else lies in the place of one is, as TLC or the proof
likes, no header or a header that claims any of the lengths in `Claims`: the rest of a
packet that was thrown away may be framed, handed to a worker and answered.  Workers write
their answers in parts (`write`), each beginning with the first byte of the answer, and
between each other's parts.  A request is written in one piece and without TLS; `TcpClient`
has both.  `alone` are the requests that met no other on the way, `hurt` those the framing
is known to lose, `torn` those of which a part was thrown away or handed on while the rest
was still to come.  `skew` says that an answer was written in parts, or bytes of one thrown
away, since a request was last sent with nothing on the way.

`RdsPool` - threads, the queue of connections, and connections that are up, broken
(hiredis reports I/O error or EOF, which the code answers by reconnecting), dead (any
other error) or mute (open, but the server says nothing more).  The server may run a
command and the connection break or go mute before the reply (`queryCut`).

`MC*` modules only define the finite sets, inputs and symmetries for TLC.  Definitions
whose comment begins with "Mutant of" are deliberately wrong versions of the definition
that follows; no specification uses them, they document which error each property
would reveal (`PROJECT.json`, `mutants`).

## 3. The runs

| Run | Shows |
|---|---|
| `ThQueueFull` | two callers, every operation, pushes without notification, swaps with a container that holds data, 3 values: `Inv` (types, `_size`, conservation of values); nobody sleeps through `notifyT` |
| `ThQueueWakeup` | three consumers as the library uses the queue, fair scheduling: FIFO order, no lost wake-up, `notifyT` releases everybody |
| `SharedMutexSafe` | four threads, one with the write guard: `SharedMutex` implements `RWLock`, no forgotten sleeper, progress |
| `NetThSafe` | all features at once: `Inv` (no dangling event, drained idle buffers, exclusive blocking handlers), ownership of buffers, contiguous packets in stream order, one connection per parser context, workers' pointers valid unless the server side closes |
| `NetThLive` | buffers come back, dead and closing connections leave, big-packet connections return to epoll |
| `TcpServerAdmit` | `Inv` (limit, balance), placement; the backlog is served unless an accept failed |
| `TcpClientCalls` | `Inv` (a request is written whole, carried out once, not in the clear), a whole answer is one's own, pointers stay valid unless a reconnection failed, calls return |
| `HttpStream` | `Inv` (the parser's assertions, the end of REEXECUTE, bounds, one length, one answer, truthful `Connection`), independence of cuts, fidelity of the path, fields and body a handler sees, good messages served |
| `LogFiles` | `Inv` (queue limit, own file, order over crashes and restarts, size), every entry accounted for, the queue drains and the destructor returns |
| `CodecsAll` | every operation of `YS_Buf`: contents and bounds, and that an append that meets too little room does not return; padding of digests, Base64 and Pack round trips, foreign characters and truncation, paths |
| `PackStream` | `Inv` (workers get whole packets, once, or the rest of torn ones), lone packets served, answers whole and for a request handled |
| `RdsPoolCalls` | one user per connection, none lost, no more than threads; commands run once and authenticated unless the connection failed; calls return unless their server is mute |

Bounds.  `ThQueueFull`: 3 values and 2 callers let a batch, a single push, a swap that
puts data back and a `notifyT` meet; 2 callers are interchangeable (symmetry).
`ThQueueWakeup`: 3 callers are what a lost wake-up needs (one woken, one late, one
asleep).  `NetThSafe`: `Cap = 2`, 3 chunks in all give a partial packet, a full one, data
left in the socket behind it, and packets of both connections competing for 2 buffers and
2 workers; connections, buffers and workers are symmetric. `NetThLive`: 1 buffer for 2
connections so that waiting for a buffer and its timeout happen; no symmetry, as liveness
requires.  `TcpServerAdmit`: 3 threads, limit 4, 6 requests, so that the limit is met and
departures interleave with the sums. `TcpClientCalls`: packets of two bytes and a kernel
buffer of three, so that a second request is written in parts; four calls over three
connections, so that a late answer, a failed and a successful reconnection follow each
other.  `HttpStream`: conversations of one to three messages (every combination of line,
fields and body, malformed ones, pipelined ones, fields behind a chunked body, and the
forms of URL), cut in pieces of one, of three, or not at all; a buffer that some messages
fill; `U = 99` so that lengths overflow.  `LogFiles`: two levels, two days, files of two
entries, one number per full file, two starts, two faults.  `CodecsAll`: messages of five
blocks with words of 7 bits (`Words = 128`), so that the count passes a word; structures
of three fields; paths of seven parts; for the buffer blocks of four bytes, sizes around a block, memory for
three blocks, a word of eight.  `PackStream`: headers of two bytes and a buffer of five into
which two small packets fit, with false headers that claim three or four bytes, in two
instances of the module: three requests in pieces of two bytes or whole, so that two workers
have answers to write while a third request is on its way, and two requests byte by byte,
which cuts headers, with a packet that fills the buffer.  `RdsPoolCalls`: two threads, three connections, four calls, two faults. A model that stops
when its inputs are used up says `CHECK_DEADLOCK FALSE`.

Fairness.  `WF` on the steps of each thread: the operating system runs threads that
can run, and the network thread can always run because `epoll_wait` and `popIdle` have
timeouts of 200 ms.  `WF` on the clock.  For the lock, holders release.  The client's
call is fair because each wait in it has a timeout, the log's writer because it is a
thread of its own.  In a Redis call only connecting has a
timeout; a server that is not mute answers, one that is mute need never do, nor need its
connection break, and `CallReturns` excuses the thread that waits for it (`Waiting`).
Nothing is assumed of peers, producers or callers.  `BuffersReturn` and `Reaped` hold because traffic is finite
in the model: the code looks after these buffers only when epoll was silent for 200 ms,
so under traffic that never pauses nothing is promised.  `CallReturns` of `RdsPool`
depends on the bound on faults too: `query` repeats itself as long as the connection breaks
and can be opened again.  Liveness ends where the program used an invalid pointer
(`Crashed`, `crashed`).

## 4. Defects met while modelling

The models have these behaviours; the properties say what still holds beside them.

- `~YS_WLock` calls `writeLock()` and blocks for ever on its own lock
  (`ys_shared_lock.hpp:65`); `LockProgress` excuses whoever waits behind it (`Stuck`).
- `wait()` returns true with an empty queue after `notifyT`, against its comment
  (`ys_thread_queue.hpp:468`, comment at 122).
- A dropped packet's buffer keeps its parser context (`ys_thread_asyn.h:252`, also 235 and
  `ys_conn_list.h:71-87`): another connection's bytes are parsed with it, and its
  position may lie behind the data received.  `ParsedOneConn`, `GoodServedUnlessSpoiled`
  and `InBoundsUnlessSpoiled` hold up to there.
- `getAllClosedSock` deletes the buffer of a partial packet: the pool shrinks
  (`ys_conn_list.h:99`); `regSock` may use a null or deleted entry when a handler has
  called `closeWait` (`ys_thread_asyn.h:195`).  `WorkersSafeUnlessClosing` holds otherwise.
- Every hang-up of a peer uses freed memory: `YS_ConnList::del` erases the map's node and
  then reads the pointer it deletes from it (`ys_conn_list.h:154-155`), and `onEpollErr`
  passes `pData->sock` of the deleted entry to `onDisConn` (`ys_thread_asyn.h:313-315`).  A
  hang-up is harmless only as long as nobody has reused the memory in between.
- Any failure of `accept` ends the accept loop of an edge-triggered socket: a handshake, or
  an errno such as `EMFILE`, `ECONNABORTED` or `EINTR` (`ys_tcp.h:104-107`,
  `ys_accepter.h:63-66`); the requests behind it wait for the next one to arrive.
- A plain `send` taken in parts by the kernel repeats the start of the data
  (`ys_socket.h:242`); an answer that arrives after its call's timeout is read by the
  next call; `recvPkt` reports success with an incomplete packet after two seconds
  (`ys_tcp_client.h:230-266`); a failed reconnection leaves `_data` dangling (`:149`).
- `YS_Buf::append` of more than there is room for asks `alloc` for `leftSize() - len`, which
  wraps (`ys_buffer.hpp:123`): it rounds to no block, or takes blocks away, so the append
  goes round for ever, or until `new` throws or the contents overrun the smaller memory
  (`ShortNeverReturns`).  The header says "only append extends automatically" (`:10`).
  `append(const char *, len)` ignores `len` (`:71`).
- `decode` of a vector of structures reads from the start of the data
  (`ys_pack.hpp:492`); a `char*` is measured before the length test (`:440`).  A nested
  structure with `YS_PACK_NULL` is encoded as nothing and decoded as `sizeof` bytes (`:450`,
  `:540-548`).
- `YS_Base64::decode` returns 0 for a string when it meets a foreign character, which throws
  (`ys_base64.hpp:125-134`).
- `fmtPathEx` turns a relative path that returns to its start into the empty path or,
  with a separator at its end, into the root.
- Pack: a first piece shorter than the header, a second packet behind the first in one
  read, and a packet as long as the buffer are lost; `sendErr` sets no length, so errors
  are not sent (`ys_pack_proto.h:137-145`); the answer is written into the buffer without
  a test of its size (`:233`).  Only two bytes tell a header (`ys_pack.hpp:574`): what is left
  of a packet thrown away may be taken for another one, by the server and by the client.
  Workers answer on one socket without a lock, and a `send` taken in parts repeats the start
  of the answer (`ys_socket.h:242`).
- HTTP: pipelined requests that arrive together are merged, fields and all: the handler
  may then see a `Content-Length` and a `Transfer-Encoding`, each from a request of its own.
  A trailer may name a length too.  `OneLength` therefore speaks of the fields before the
  first body (preparing its proof showed that it is false of all fields).  The last trailer
  field is dropped; the mount
  sends nothing for a method it does not allow and two answers for files of 5 MB and
  more (`ys_http_mount.h:221-260`); a response that ends with the connection never
  completes.  The path is cut at the query after decoding, so `%3F` begins one and `+` becomes
  a space; an absolute URL, or a path with a colon, has an empty path (`ys_url.h:211-227`),
  for which the mount serves the root's page.  Asking a request for its `Connection` inserts
  the field (`ys_http_parser.h:201`), before the handler runs.
- Log: refused nodes are not deleted (`ys_log.h:401`); a failed `fopen` hands `fwrite` a
  null pointer (`:378`); the size is not tested when a file is opened (`:346`).
- Redis: a refused connection is read through a null pointer (`ys_redis.hpp:239`); a
  reconnection does not authenticate again (`:316`) and repeats a command the server may
  have run (`:318`); a connection with any other error stays in the pool; a command has no
  timeout (`:228`, `:312`), so a server that stays silent keeps the caller for ever.

## 5. Proofs

Each theorem holds for every value of the constants that satisfies the `ASSUME` of its
module.  The assumptions say no more than the code needs to run at all: sets of threads,
connections and buffers are finite, bounds are natural numbers, `None` is not a socket or
a buffer (`ThQueueAssumption`, `SharedMutexAssumption`, `NetThAssumption`,
`RdsPoolAssumption`); there is a network thread (`TcpServerAssumption`); a packet has a
byte and fits the client's buffer (`TcpClientAssumption`); a header has a byte and is
shorter than the buffer, and there is a worker (`PackProtoAssumption`): which bytes look like
a header is left open; there is a day to log on and lengths are
natural numbers (`LogAssumption`); a word holds whole blocks and twice the largest
capacity (`BufAssumption`); a digest's block has room for the padding, and the number of
values of a length word is a multiple of the bits of a block, as 2^32 is of 512
(`DigestAssumption`); `ULLONG_MAX` is more than a hexadecimal digit
(`HttpParserAssumption`) and a conversation is a sequence of messages
(`HttpServerAssumption`).  Nothing is assumed of schedules, peers, drivers or faults.
Each theorem but the refinement of `RWLock` has the shape `Spec => []P` and comes from an
inductive invariant that the initial states satisfy and every action keeps.

| Module | Theorem | Shows for all constants |
|---|---|---|
| `ToolProofs` | `TypeCorrect`, `SizeCorrect`, `ContentsCorrect` | `Inv`: types, `_size`, no value lost or doubled |
| | `SleepersCurrent`, `NoWakeupLost`, `OrderKept` | `SleepersAreCurrent`, `NoLostWakeup`, `FifoOrder` |
| | `LockTypeCorrect`, `MutualExclusion`, `NoSleeperForgotten` | types, `Exclusion`, `SleepersBlocked` |
| | `Refinement` | `ImplementsRWLock` |
| | `BufferKeeps`, `PaddingIsStandard` | `BufKeeps`, `DigestPadding` |
| `NetThProofs` | `OwnershipCorrect`, `NetThreadCorrect` | `BufferOwnership`, `Inv` |
| | `StreamsInOrder`, `WorkersSafe`, `ParserOneConnection` | `StreamOrder`, `WorkersSafeUnlessClosing`, `ParsedOneConn` |
| `TcpServerProofs` | `AdmissionCorrect`, `PlacementCorrect` | `Inv`, `AdmittedPlaced` |
| `TcpClientProofs` | `RequestsCorrect`, `AnswersCorrect`, `DataUsedAlive` | `Inv`, `OwnAnswer`, `SafeUnlessLost` |
| `LogProofs` | `LogCorrect`, `EntriesAccounted` | `Inv`, `Accounted` |
| `PackProtoProofs` | `WorkersGetWholePackets`, `LoneRequestServed`, `AnswerIsOwn` | `Inv`, `AloneServed`, `OwnAnswer` |
| `RdsPoolProofs` | `ConnectionsKept`, `CommandsCorrect` | `ConnsKept`, `CommandsRight` |
| `HttpProofs` | `HttpInvariant`, `CuttingMakesNoDifference` | `Inv`, `CutIndependent` |

`ToolProofs`, the queue.  The invariant `IInv` joins the type, `SizeIsLength`,
`SleepersAreCurrent`, `NoLostWakeup` and `CallInv`.  `_size` and `_queue` are only
comparable together with the types.  `NoLostWakeup` says that while a thread sleeps, there
are as many awake threads entitled to take a value as there are values (`Entitled`).  It
needs `SleepersAreCurrent`, because a sleeper whose `_lockId` were out of date would be
entitled to nothing, and `CallInv`, because a swap that puts data back would add a value
without a notification; it is proved for consumers that follow the library's discipline
(`Disciplined`: pushes notify, nobody calls `wait()`, swaps bring an empty container).  A
push adds one value and wakes one sleeper, or wakes all; a consumer that leaves takes a
value along (`FinishStep`); a thread goes to sleep only when the queue is empty
(`SleepStep`).  Conservation is a second argument on top of the types: `Place` says that
the values pushed are shared out between the queue, the callers' containers, what was
taken and what was dropped, and that no sequence holds one twice; `Moves` reduces every
step of the module to one of seven moves of values between these places.  `OrderKept` adds
`Ordered` for pushes at the back: the queue is increasing, and whatever has left it is
older than all that is in it.

`ToolProofs`, the lock.  `LockIInv` adds to the two properties that a thread asking for a lock
does not hold it for reading (`AskInv`), which the count of readers needs when the lock is
granted; the write guard's destructor, which asks while holding the write lock, is
covered.  `Refinement` shows that the mutex implements `RWLock`: `GrantEnters` says that
whoever is granted a lock finds the abstract one free for it, which follows from
`Exclusion` (the fields `_isWrite` and `_readCount` tell who is inside); releasing is
`Leave`, and everything else is a stutter.

`ToolProofs`, the buffer.  `Sound`: as long as nothing was thrown or overrun no size has
wrapped, the capacity is a number of whole blocks, the memory holds what was said, and an
append has met too little room (`short`) exactly if it still has.  The last is why it never
returns: what it asks of `alloc` wraps, and since a word and the capacity are both whole
blocks, the sum wraps back to the old capacity or to less, or is more than there is memory
for.  So the room never grows, and the copy, which waits for room, is never reached.  An
append that meets enough room copies at once.

`ToolProofs`, the digests.  `Given`: the message so far is a part `s` whose blocks (`Cut`)
are those compressed, followed by less than a block, which the buffer starts with
(`Holds`).  `Sm3OK` adds that `_nblocks` counts the blocks, `Md5OK` that `_nl` and `_nh` are
the two words of the number of bits.  `update` keeps them: what fills the buffer and the
whole blocks behind it extend `s` by whole blocks, and cutting distributes over a
concatenation behind whole blocks (`CutConcat`); that MD5 finds the carry by comparing the
new low word with the old one is `Carry`.  `final` needs `ZerosNeeded`, which derives
the two cases of the code (one block or two) from the remainder in `Padded`.  Only the
steps of `update` are an induction, so none over the message is needed; the arithmetic
rests on the uniqueness of quotient and remainder, proved first.

`NetThProofs`.  `BufferOwnership` speaks of six places: the two queues, connections
(`epbuf`), the network thread's hand, workers (`wbuf`), deleted buffers.  It is not
inductive: whether the buffer in `nbuf` also hangs on the connection decides whether
`recvMore` duplicates it or `Dispatch` leaks it.  `Hands` says what the program counters
imply: between `popIdle` and the end of the receive the connection has no buffer or the
one in hand, the vector of `clearTimeOut` is empty elsewhere, a worker has a buffer unless
it waits for one.  The proof first shows what pushing, popping and changing pointers do to
the contents of a place (`PushFacts`, `PopFacts`, `HeldSet`, `HeldDrop`), then, per
action, that one buffer, or one set of them, leaves one place and enters another; `Split`
says that the six places stay a partition of `Bufs`.  Initially the idle queue is any
order of all buffers (`InitQueue`, by counting).

The other theorems of `NetThProofs` rest on `FullInv`, which adds four layers to that one.
`RefInv`: only a buffer that is a task, queued or in a worker's hand, refers to a
connection.  `TableInv`: the vector of sockets to drop is empty outside the round that
drops them (`LoopInv`), a connection that `addConn` has put into the table and not yet into
epoll is known to nobody else, so nothing can drop it in between (`JoinInv`), and
`NoDanglingEvent` itself.  `BlockInv`: a packet that filled its buffer has its connection
for itself, and as long as nothing closes on the server's side that connection's entry
stays in the table; this gives `ExclusiveBlock` and `WorkersSafeUnlessClosing`.  The latter is about
the pointers workers hold; what `onEpollErr` does with its own after freeing it changes
nothing in these layers but the program counter, which stays `"lost"`.
`FlowInv`: every buffer is empty (idle) or holds a run of chunks of one connection, an
attached one the run that ends where the unread data begins, and the tasks of a
connection lie in the busy queue in the order of their runs; this gives `StreamOrder` and
`ParsedOneConn`, which speaks of drivers with a parser context (`UseCtx`).

`TcpServerProofs`.  Only the accepting thread adds connections, so what it has counted can
only shrink while it goes on counting (`Summed`): a total below the limit leaves room in
the tables (`Room`), the total `addConn` compares with is not too small either
(`Average`), and one of the threads has no more than the average (`Fits`, by comparing
the sum over all threads with `N` times the average).  The sums are cardinalities of sets
of pairs of thread and position (`Count`), which the prover can reason about by adding one
thread at a time.

`TcpClientProofs`.  `Types` ties the position in a packet to the program counter;
`HupInv` says when the descriptor is in epoll and that one outside it was lost by a failed
reconnection; `OnceInv` that the bytes of a request lie less than a packet apart and
nobody writes those of a request that has been served, so that it cannot be served again;
`WireInv` that the end of the wire is what was written of the request; `FlowInv` where
the bytes of a request and of its answer are while the connection is in order (`taint`
is false); `MemInv` that `_data` is freed only by a lost reconnection.

`LogProofs`.  `Ages`: entries in the files are older than the one in the writer's hand,
which is older than the queued ones.  `Disk`: each file holds entries of its own level and
day in order, no two files share one, and, as long as no file has been taken away, the
numbers of a day's files have no gap and follow the entries' order; once a file has gone
a rename may close the gap, and nothing is claimed about the order.  `OpenFiles` relates
`_nowSz` to the file, `Target` is the file the entry in hand goes to, with the bound on its
size, which grows by an entry with every opening because the size is not tested then.
`Shares` divides the entries made so far between seven places; every step moves entries
from one place to another.  `Size` is a cardinality for the same reason as `Count`.

`PackProtoProofs`.  `InStream`: what is on the way to the server (receive buffer, socket
and wire together) is a series of packets, all of them whole but perhaps the first
(`Framed`), each byte behind its predecessor (`Linked`), none twice (`Rising`); and if the
first is not whole it is one of `torn` (`Headed`).  This is what survives any loss, also one
of another packet's beginning because something in front of it claimed too much.  `Served`:
each buffer queued or handled begins with a whole packet, or with the rest of a torn one
(`Given`).  One that begins with a packet shares it with no other buffer, nor with the stream
(`Taken`, `Apart`, `Past`); none begins with a part of a packet that is still to begin
(`Over`).  `HeaderFirst` and `HeaderStarts` are where the two bytes matter: a real header at
the front of a framed stream announces what follows, whatever the false ones claim.
`OutStream` says of the answers that each is written for a request handled (`Made`), and
that the stream back is framed unless `skew`; what a client takes off it without `skew` is
then one packet (`AcceptedWhole`).  `OnlyOne` and `OnItsWay` follow a request that met no
other: it is handled, queued, or all of it is under way.

`RdsPoolProofs`.  "No more connections than threads" is not inductive: nothing in it stops
a thread from connecting while the queue is full.  `RoomToConnect` counts a thread that
found the queue empty as the owner of the connection it is about to open.  `RunInv` and
`AuthInv` give `CommandsRight`: until it is answered a call has run nothing unless its
connection failed, and connections that wait are as good as those in use.

`HttpProofs`.  Three arguments about the parser, each for one symbol in any state, then
for a piece, then for the server.

- `Run` is the parser's invariant inside a piece, `Calm` the one between pieces.
  `MarkOK`: which mark may be set in which state.  `LenOK`: where the code takes
  `content_length` for a length, it is one (not zero, not `ULLONG_MAX`), and chunks are
  read only under the flag `CHUNKED`; `Grow` keeps it, because its test refuses the digit
  that would wrap.  `HeadOK`: up to the end of the first header the flags know of every
  length that was given, also while its name or value is half read; this is what makes the
  test of the flags at the end of the header enough for `OneLength`.  `View` is the context
  as it would be if what is marked were handed over now, so that a name cut in two is seen
  as one.  `SwitchSound` joins the lemmas about the groups of states.
- Two parsers are `Alike` if they differ only in how much of the marked data has been
  handed over already.  `SwitchAlike`: alike parsers stay alike.  Handing over early is what
  a cut does (`AtEnd`, then `Begin` marks the next piece from its start), so a parser that
  was cut is alike to one that was not, and at the end of a piece both are the same
  (`EndFacts`, `ExecuteLinked`).  It needs `LastOK`: a name or a value goes on in the next
  piece only if the callbacks still know which of the two they were collecting.
- `Rank` of a state bounds how often REEXECUTE may follow; every REEXECUTE goes to a state
  of smaller rank (`SwitchDown`), so after at most three the symbol has been dealt with
  (`TurnEnds`).

The loop over a piece is a recursive function; `FeedFacts` shows that it exists for every
piece, `FeedPair` carries the facts along it.  Both use `UpTo`: a set that contains 0 and
with each number the next one contains them all, from the well-founded order of the
numbers, since the induction rules of the library are out of reach.  The server's `IInv`
says that the buffer's parser is calm, that `_pos` is the length as long as nothing was
discarded (`InBoundsUnlessSpoiled` is not inductive without it), that the parser is then
`Linked` with `whole`, and what each handled request was answered.  The symbols are any
strings: the theorems hold for every alphabet of inputs, not only the one of the runs.

## 6. Limits

Only model-checked:

- the liveness properties of all runs: fairness and `ENABLED` are out of the prover's
  reach;
- `RequestFaithful` and `GoodServedUnlessSpoiled` of `HttpServer`: they compare what the
  parser collected with what a well-formed message says, and need an induction over the
  grammar of messages;
- `RoundTrip` and `PathKept` of the codecs: what an encoder or a path function computes for
  every input is an induction over the input, and `Pack` is written with recursive
  operators, which the prover does not accept.

Not modelled:

- vendored code: fmt, rapidjson and xpack, hiredis, wepoll, mINI, argh, validator, scope
  guard, QR codes.  It makes up about three quarters of the 52 000 lines under `src/`, so
  the lines covered by the models stay a small share of the tree although most of the
  library's own stateful code is modelled.  http-parser is the exception: the library's
  copy is a header of its own and its states decide what a handler sees.
- `YS_UdpServerLite`: visibly unfinished (handled nodes never return to the idle queue,
  `ys_udp_server_lite.h:112`; `delRecv` is called under the opposite condition, `:101`).
  `YS_UdpListener` and the UDP client are thin; the network thread behind them is `NetTh`
  with `ConnTmout`.
- start and stop: `YS_Thread` (a `start()` after `stop()` while the old thread still runs
  gives two threads), the shutdown of the pools, which destroys the connection table
  before the workers are joined.  The library's servers start once.
- `YS_CondVar`, used only by the test harness and a process helper; its `waitFor` does not
  re-test its flag after a wake-up.
- SM4, the random number generator and the compression functions of the digests
  (straight-line arithmetic on words, better served by test vectors), prayer times
  (floating point), file, process, string and shell helpers (stateless wrappers of system
  calls), the TLS wrapper (its failures are outcomes in `TcpServer` and `TcpClient`), the
  formatting of HTTP packets and JSON, the unfinished proxy and publish servers.
- of the modelled parts: `front()` on an empty queue, level-triggered epoll, the
  answers to pipelined requests, what the mount reads from disk, a length in a `YS_UstrRef`
  that no encode wrote (64 bits, which may wrap in the test of `ys_pack.hpp:423`), requests of
  the pack protocol written in parts or over TLS.

## 7. Plan

1. Done: `ThQueue`, `SharedMutex` with `RWLock`, `NetTh`, `TcpServer`, `TcpClient`,
   `HttpParser` and `HttpServer`, `Log`, the codecs, `PackProto`, `RdsPool`.
2. Done: proofs of every safety property of `ThQueue`, `SharedMutex`, `NetTh`,
   `TcpServer`, `TcpClient`, `Log`, `PackProto`, `RdsPool`, `Buf` and `Digest`, and of those
   of `HttpServer` that do not need the grammar of messages.
3. Proofs left: `RoundTrip` for Base64, whose groups of three bytes could be taken one at a
   time with `UpTo` of `HttpProofs`; the grammar of well-formed HTTP messages as a module
   of its own, for `RequestFaithful`.
4. Later: shutdown of `YS_NetTh` and `YS_BusiPool` composed with `NetTh`, and the UDP
   server once its node life cycle is finished.
