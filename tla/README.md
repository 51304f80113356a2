# Verification of DsLuaGame

DsLuaGame is a game gateway in C: it accepts TCP connections, cuts what they
send into messages, hands the messages to Lua scripts, runs timers, and logs.
This directory holds TLA+ modules for its own core (`DsLuaGame/DsLuaGame/`), the
TLC configurations that check them, and the proofs of theorems about them.
Paths below are relative to `src/DsLuaGame/DsLuaGame/` unless they start with
`src/` or `example/`.

## 1. The system

### Threads

| Thread | Function | Locks it holds while it calls out |
|---|---|---|
| main, and every script it runs | `main.c`, Lua | none |
| network | `network_thread_run`, core/network.c | `g_net_server->lock`, for a batch of epoll events |
| timer | `timer_thread_run`, core/timer.c | `timermgr->lock`, while callbacks run |
| queue consumer | `netmsgqueue_thread_run`, core/netmsgqueue.c | none |
| clock | `datetime_thread_run`, utils/datetime.c | none |
| log writer | `async_output`, logger/elog_async.c | the output lock, while it takes bytes out |

All locks but the log's two are recursive mutexes (utils/lightlock.c). Memory
comes from one pool (core/mempool.c) with a free list per size, last in first out:
a freed address is what the next allocation of the same size gets. That is why
stale pointers matter in this program, and why the models have addresses.

### Components

For each: what it keeps, what it does, what makes it right. `PROJECT.json` lists
the same components with their source files and status.

* **Message queue** (core/netmsgqueue.c, core/netmsgblock.c). A linked list with
  head, tail and size under one lock; `pushback` by the decoding threads, `gethead`
  by the consumer, which polls without pause. Right when blocks come out once and
  in order, and no node is used after it went back to the pool.
* **Network event loop and sessions** (core/network.c, core/session.c). The map
  `_handleMap` from descriptors to sessions, the sessions, the epoll set. Accept,
  read, remove; connect and send for scripts. `remove_socket` runs in the network
  thread and, as the first-pack timer's callback, in the timer thread. Right when
  the tables agree, nobody works on a freed session, Lua hears of each connection
  in order, silent connections time out, and the two threads do not block each other.
* **Input stream** (core/inputstream.c, core/protocol.h). A 10 KB buffer per
  session with a read and a write index. Right when frames arrive whole, in order
  and all of them, wherever `recv` cuts the stream, and when the analysis returns.
* **Timer** (core/timer.c, tolua/timertolua.c). A list of tasks sorted by due time.
  Right when it stays sorted, each task is in one place, timers fire when due, once
  if they are to fire once, and not after they were cancelled.
* **Asynchronous log** (logger/elog_async.c). A ring of bytes with two indices and
  two flags, a semaphore, a writer thread. Right when the bytes come out once and in
  order, and all of them do.
* **Log lines and files** (logger/elog.c, elog_buf.c, elog_file.c, elog_file_port.c).
  Formatting under the output lock; rotation by size and a new file per day under a
  System V semaphore.
* **Memory pool** (core/mempool.c). Free lists per size and a chunk. Right when no
  byte is given out twice and none is lost.
* **Object pool and byte streams** (objectpool/, core/bytestream.c and bindings). A
  stack of free streams; the consumer, scripts and Lua's collector all give streams
  back or destroy them. Right when each stream has one owner, and when what is
  unpacked is what was packed, but for what the conversions cannot keep.
* **Red-black tree** (utils/rbtree.c): the map behind `_handleMap`. Right when it is a
  map, iterates in order and stays balanced.
* **MySQL pool** (database/mysqlconn.c): an array of connections with `in_use` flags
  under a lock, which grows. Right when a connection has one user and every slot
  comes back.
* **Sending** (`socket_data`, `socket_send_data` in core/network.c): frames go out by the
  number of a descriptor, from any thread, for up to three seconds each.
* **Shared memory** (sharemem/): a configuration file in memory that several processes map.
* **Server start and stop** (server.c, main.c, `init_network`, `fina_network`, `timer_init`,
  `timer_destroy`): who creates and frees the managers, threads and pools. Right when no
  thread reaches for what is gone, and a stop ends and closes what is open, once.
* **Date and time, event, byte order** (utils/), **Lua bindings** (tolua/), and the example application and client (`src/example`).
* Lua, LuaSocket, lua-protobuf, protobuf-c and cjson are vendored and left aside. They
  are some 50,000 of the repository's 61,000 lines of C.

### How they interact

`read_socket` appends to the input stream, which pushes blocks that hold the address
of the session; the consumer reads the descriptor out of that session and calls Lua's
`onNetworkMsg`. `accept_socket` and `remove_socket` call Lua's `onNetworkAccept` and
`onNetworkError` from the network and the timer thread. A session and its timer
task point at each other (`timer_ev`, `arg`). The network thread calls the timer with
`g_net_server->lock` held; the timer calls the network with `timermgr->lock` held.

### What is hard

Two locks taken in both orders; addresses that are reused while somebody still has
them; descriptors the kernel reuses; lists changed by the callbacks their owner calls;
streams cut anywhere; a clock that can be read half written; renames and deaths between
two steps; arrays that move while they are used; wrap-around; notices that might be
lost. `PROJECT.json` lists 40 hazards, each at its line, with the properties that cover
it or the reason why none does.

## 2. The modules

| Module | What it is |
|---|---|
| `RecursiveLock` | a recursive mutex as a value: owner and depth |
| `MsgChannel` | what the message queue promises: a FIFO channel |
| `NetMsgQueue` | the linked list, pointer by pointer; refines `MsgChannel` |
| `NetMsgQueue_proofs` | its inductive invariant and the refinement, proved |
| `Gateway` | network, timer, consumer and main thread around the sessions; uses `MsgChannel` for the queue |
| `Gateway_proofs` | its inductive invariant and what follows for tables, sessions and notices, proved |
| `SocketSend` | what peers get of frames sent by several threads |
| `InputStream` | the framing of what a peer sends |
| `Timer` | the timer list, the timer thread, the scripts and the clock |
| `Timer_proofs` | its inductive invariant, what fires when, and the bounds on time, proved |
| `AsyncLog` | the log's ring buffer |
| `Buffers_proofs` | the inductive invariants of `AsyncLog` and `InputStream`, proved |
| `LogLine` | the buffer a line of the log is put together in |
| `LogFile` | the log's files: rotation, midnight, restarts |
| `KeyMap` | what the red-black tree promises: a map |
| `RbTree` | the tree, pass by pass; refines `KeyMap` |
| `RbTree_proofs` | its inductive invariant, the order of the iteration, the colours and the refinement, proved |
| `MemPool` | the allocator: free lists, chunk, refill |
| `StreamPool` | who owns a byte stream: pool, C threads, scripts, collector |
| `ByteStream` | one byte stream: growth, packing, unpacking |
| `CStrings` | strings that end at their first 0, for `ByteStream` and `ShareMem` |
| `MysqlPool` | the connection pool and its users |
| `Pools_proofs` | the inductive invariants of `StreamPool`, `MemPool`, `ByteStream` and `MysqlPool`, proved |
| `ShareMem` | the configuration in shared memory |
| `Lifecycle` | the server's start and stop around its threads, locks and descriptors |
| `Lifecycle_proofs` | its inductive invariant, proved |
| `Parts_proofs` | the inductive invariants of `ShareMem`, `LogLine`, `LogFile` and `SocketSend`, proved |
| `MCMessages`, `MCBackground`, `MCGateway`, `MCThreads`, `MCParts`, `MCTimer`, `MCInputStream` | instances for TLC |

`Gateway` composes `RecursiveLock` (two locks) and `MsgChannel`; that it may use the
abstract channel in place of the list is what `ImplementsChannel` shows, by TLC and by
proof. It takes `_handleMap` for a function, which is what `ImplementsMap` shows of the
tree, by TLC and by proof, and addresses for what the pool gives out once at a time, which is what
`MemoryPartitioned` shows of the allocator, by TLC and by proof.

Operators named "Faulty variant" are wrong versions of the action that follows them.
No specification uses them; they are there to try the properties: with the
variant in the action's place TLC finds the property violated (`mutants` in
`PROJECT.json`).

Several modules have a history variable for the first step after which a promise no
longer holds: `gone` and `lost` (Gateway), `spoiled` (SocketSend), `dropped` (InputStream),
`skipped` (RbTree), `single` (MemPool), `strayed` and `twice` (StreamPool), `odd`
(ByteStream), `undone` (MysqlPool), `failed` and `ruined` (LogFile), `torn` (ShareMem), `unprinted` (LogLine).
The step is in the behaviours of the model, as it is in those of the code; the property
says what holds up to it, and its comment says which step it is.

### NetMsgQueue

`lock`, `head`, `tail`, `next`, `block`, `size` are the fields of the queue and its
nodes, `free` is the pool. `pushback` is split at every access to shared state:
`PushLock`, `PushAlloc` or `PushFail`, `PushTest`, `PushBehind` or `PushFirst`,
`PushUnlock`; `gethead` into `GetLock`, `GetNothing` or `GetNode`, `GetUnlink`,
`GetUnlock`; `Deliver` is the rest of the consumer's loop. So mutual exclusion is a
result and not an assumption. `chain`, `accepted`, `handed` are histories.

### Gateway

One action per piece of code that runs without another thread being able to notice:
`NetPoll` is `epoll_wait`, outside the lock; `NetLock` to `NetUnlock` is the batch, with
`NetDispatch` for the lookup, `AcceptOne`, `AcceptNone` and `TimerSchedule` for
`accept_socket`, `ReadData`, `ReadTouch`, `ReadEnd`, `ReadStop` for `read_socket`, and
`NetHup` for the hang-up branch. `RemoveLock`, `RemoveClose`, `RemoveCancel`,
`RemoveFree` are `remove_socket` and `delete_session`, for either thread.
`ConnectServer`, `ConnectInsert`, `ConnectArm`, `ConnectNote` are `connect_server`, where
the other threads can come in between any two. A session or a task is
an address with what it holds now, so that a stale pointer shows what the code would
read: `ConnectNote` writes to whatever the address holds by then, `ConnectInsert` shows
it under the descriptor `connect_server` remembers (`newSock`), and a thread that goes
on with a freed session, its own or one it finds in the map, stops ("undefined"). `gone` says that
another thread has removed the session `connect_server` was working on, `lost` that it did so before
the session was in the map. Abstracted: the content of messages (a
message is a chunk with one frame), when a timer is due (any time), EPOLLOUT
(`write_socket` does nothing), the 10 KB buffers, failed allocations, `EINTR`.

### SocketSend

`Begin` puts head and data together, `Send` is one `send` that takes some of the bytes,
`GiveUp` the timeout or an error, `Close` and `Reuse` what the network thread and the
kernel do to the descriptor meanwhile.

### InputStream

`buff` is the memory from `_pbuff` to `_wtag`, `rtag` the distance of `_rtag`. `Receive`
is `recv` and `input_stream_write`; `AnalyseWait`, `AnalyseFrame`, `FindHead` and
`FindNoHead` are the branches of one round of `input_stream_analyse_data`. The bytes
are real: a payload may hold what a head begins with. The four bytes of the size are one.

### Timer

`tasks` is the list; `arg` tells which timer a task address is for. `Create` is
`lua_timer_task_create` up to the lock, with the clock read there; `Schedule` is the
critical section of `timer_schedule`. Cancelling from Lua takes the lock twice,
`CancelFind` and `Cancel`, as the code does. `TimerLook`, `TimerWake`, `TimerFire`,
`TimerFree` or `TimerRepeat`, `TimerUnlock` are the thread; between `TimerFire` and what
follows the callback runs and may create and cancel timers. Time is a counter of
milliseconds; a second has `Second` of them. The clock thread overwrites the global date
without a lock, first with year 0: whoever reads it (`Readings`) can find the time or a
moment `AgesAgo` before 1970.

### AsyncLog, LogLine, LogFile

`ring`, the indices and the flags are the static variables of elog_async.c. `Log` is
`async_put_log` under the output lock, `Notice` the `sem_post` that follows, `Wait`,
`Get` or `GetNothing`, and `Write` the writer. The bytes are numbered in the order in
which they went in.

`LogLine` has one action, `Output`, built of `elog_strcpy` (`Copied`), `vsnprintf`
(`Printed`, or `PrintFailed` when it returns a negative number and the whole buffer counts as
the line) and the places kept for the end of the colour and the newline (`Reserved`);
its state is `log_buf`, which keeps what the line before has left.

`LogFile` splits `elog_file_write` at the semaphore, at each `rename` of the rotation and
at the closing and opening of the file; the process may die between any two and start
again, and the day may end. The semaphore is not recursive: a writer that changes the
file at midnight with it in hand waits for itself.

### RbTree

`tree` is the root and the nodes with their links and colours, `op` and `at` the loop of
`fix_insert` or `fix_delete` and the node it has come to, so that each pass is a step.
`Rotate` is both rotations. A pass of `fix_delete` is up to three of them: the red sibling goes up
(`SiblingUp`), the red inner nephew goes out (`NephewOut`), the parent comes down (`ParentDown`). A NULL that is followed is an outcome ("crash"), which
`TreeLinked`, a part of `IsRedBlack`, excludes.

### MemPool

Memory is a line of bytes; `free_list`, `start_free`, `end_free`, `heap_size` are the
fields of the pool. `Take` is an allocation from a list, the `Refill` actions are
`mempool_s_refill` with `mempool_s_chunk_alloc`: from the chunk, from `malloc`, from a
larger list; `Give` is `mempool_deallocate`.

### StreamPool and ByteStream

`StreamPool` follows addresses: `pool` is the stack, `mine` the stream of each C thread,
`handle` the userdata scripts hold. `ByteStream` has one stream with its two positions
and its capacity; scripts pack scalars, strings and arrays, and unpack them in order.
`Stored` and `Pushed` are what the bindings make of a number: `luaL_checknumber` gives the
nearest of the numbers a double can be (`Doubles`), the cast to `float` the nearest of `Floats`, and
`lua_pushnumber` a double again. `CString` is what `strlen` and `lua_pushstring` see of a string, and
`nil`, which is no sequence of bytes, is what Lua gets where `bytestream_readstring` or
`bytestream_readbytearray` return NULL. `Receive` is `createfrombuffer`, whose stream points into a string that
nothing keeps: after `CollectString` whoever reads it reads freed memory ("undefined"), and so
does a script that makes a large one writable and clears it, which frees Lua's memory.

### MysqlPool

`connections` is the array of slots. Taking a connection is split where the lock is
released and the slot is read again; `undone` marks what the code does not survive: the
array has moved in between, a slot without a connection (the server has refused it when the
pool was opened) is lent, or the pool is closed while something of it is lent. Nothing opens a
connection again: one that is lost stays in its slot. `InitPool` is one step; what a
second call of `init_connection_pool`, or a query, finds while the first is still at work is
not modelled (section 6).

### ShareMem

`LoadRead`, `LoadCreate`, `LoadHead`, `LoadData` are `load_json_to_shm`; `ReadMap`,
`ReadCheck`, `ReadCopy` are `get_json_config` and the copy Lua makes. `SharedJSON` ends in
`json_data[1]`, so that a load copies `sizeof(SharedJSON) + file_size` bytes, one more than head and
text: the last byte of the buffer from `malloc`, which nothing has written. `LoadData(l, stray)` puts it
behind the text, whatever it is (`Stray`), and `Room` counts it. `windows` chooses
between the two branches of the source: on Linux `mmap` refuses the length 0 it is
given, the result is compared with NULL instead of `MAP_FAILED`, and the reader crashes.

### Lifecycle

`pc` tells where the script (`Main`), the network, the timer and the consumer thread are.
`InitNetwork` to `InsertHandle` are `init_server` and `create_socket`; `TimerStop` to
`PoolFree` are `fina_server` in its order: the timer's flag, `pthread_join`, what it frees,
the network's flag, `pthread_join`, the descriptors by the map's keys (`CloseNext`) and again
by its values (`DestroyNext`), the pool. The threads do what touches these: the network
accepts, reads and hangs up, with the timer's lock taken for each; the timer thread removes a session; the
consumer takes and gives back a stream and enters Lua. Nothing stops the consumer. A thread that follows
a manager or a pool that is gone stops ("undefined"). `fds` is what the kernel has open
under each number, `log` the number the log's writer believes to be its file's, which
it closes and opens at any time. What a session is, and the rest of the work, is
in `Gateway`.

## 3. The runs

The passing runs take between half a minute and two and a half minutes with two workers.
They choose in the first state which one of several modules moves (`gateway` and
`gateway_live`: `Gateway` or `Lifecycle`). The modules in such a run share no state, so that
their product would only multiply states; the variables of the others keep their initial
values. Each property is about one of the modules.

| Run | Question | Bounds |
|---|---|---|
| `messages` | does the list implement the channel, and does every block reach Lua? do frames arrive whole, in order, and all of them? | 2 pushing threads, 3 nodes, 2 blocks, 4 pushes; 2 frames of payload 0 to 2, 2 bytes of noise, head 3, buffer 7 |
| `background` | does the ring keep its bytes? is the timer list right under callbacks and other threads? | ring 4, writer's buffer 2, lines of 1, 3, 5, 7 bytes in all before the last line; 2 threads, 2 tasks, 2 timers, 3 instants, a second of 2 |
| `gateway` | are the tables, timers and notices consistent whoever removes a session? who is lost when the server stops? | 2 peers and 1 `connect_server`, 2 descriptors, 2 sessions, 3 tasks, 1 message, `max_reads` 1; 2 starts, 4 descriptors, 2 things to do in a batch, 1 block |
| `gateway_live` | does Lua hear of every end? does a stop end? | 2 peers, 1 message, `max_reads` 1; 1 start, 4 descriptors, 1 thing to do in a batch, 1 block; no symmetry |
| `parts` | do the other components keep their promises? | 5 keys; sizes 1, 4, 6 in 34 bytes; 3 streams, 2 handles; 2 values in a stream, with numbers no double and no float is equal to, and texts that are empty or hold a 0; 2 scripts, 3 connections, a pool of 1; 4 lines, 2 days, 2 copies; 3 frames of 3 bytes, 2 senders, 2 peers; 2 loaders, 1 reader, 2 files, texts of 1 and 3 bytes, one with a 0 in it, a stray byte that is 0 or not; a line of 7 bytes |

Why the bounds are enough. Three nodes for four pushes reuse a node, and empty and
refill the list. Three connections on two descriptors reuse a descriptor, a session address
and a task address while older events, timers and blocks are still about; two
descriptors let one batch hold events for both; one call of `connect_server` can be
overtaken by the end of its connection and by an accept that gets its memory. With
`max_reads` 1 a connection's end is left for the next batch. Two frames with noise cover
a frame that follows another in one chunk, one cut in head and payload, noise before and
between, and a buffer too full for a chunk. Two timers on two task addresses, one of
them freed and reused, cover the two halves of a cancellation. Lines of 1, 3 and 5 bytes
in a ring of 4 fit, fill and overflow it at every position. Five keys make a tree in
which each case of the two repairs happens (TLC's coverage names each); the loop of `fix_delete`
is reached only in a tree an earlier deletion has left unbalanced. 34 bytes of memory
let the chunk run out, be cut up for smaller sizes and be refilled from a larger list. A
pool of one connection grows twice. Two copies and four lines rotate the oldest copy away. A
line of 7 bytes is filled exactly, short by one and overflown by the messages there are. With
doubles that leave out an integer and floats that leave out a double, a number is changed by
neither conversion, by both, or by the second alone. A long text and a short one after it, with a stray byte
that is not 0, leave the end of the first behind the second. (No file is longer than the limit of 10 MB,
which is 3 bytes here: the guard is in the model, and only the proof has it refuse something.) The four
descriptors of `Lifecycle` are the log's file, the epoll descriptor, the listening socket and a connection; in
the second start, when the first epoll descriptor is still open, a connection comes in
while the log has its file closed. Symmetry
is used for the addresses in the safety runs of `Gateway` and for loaders and
files in `parts`; no liveness property is checked with it.

In `messages` the peer's noise is a byte that cannot begin a head but shares its upper
half with one, and heads have no status bits; `input_status` is what happens otherwise.
Noise that equals a magic byte is taken for a head, as the protocol has no other mark.

### What the properties say

* `messages`: `NodesOwnedOnce` and `NothingLost` (the list and the histories); `IInv`, the
  inductive invariant, of which `TypeOK` is a part; `ImplementsChannel`; `EveryBlockHandedOut`;
  `InputTypeOK`, `FramesArriveWhole`, `EveryFrameArrives`, `AnalyseReturns`.
* `background`: `RingHolds`, `BytesInOrder`, `EveryByteWritten`, `TypeOK`; `Sorted`,
  `TasksOwnedOnce`, `FiresAsAsked`, `DueTimersFire` (up to a late periodic task, see
  below), `TimerTypeOK`.
* `gateway`: `TablesAgree` (descriptors, `_handleMap` and sessions, whenever the lock
  is free), `NoDangling` (neither thread works on a freed session, no first-pack timer is
  armed for one), `LuaKnowsWhoIsHere`, `NoticesInOrder`. `TypeOK` includes how deeply the
  locks are taken. `FindsWhatItNeeds`: the script and the timer thread never reach for what is
  gone; the network thread does only between the end of the timer thread and its own, the
  consumer only after the pool or Lua has been taken from it, the log only after the sockets
  have been closed for the second time; and the script and the network thread are in the map
  together only when the network thread has initialised the lock the script held.
* `gateway_live`: `EndedIsNoticed` and `StopEnds`, both up to crossed locks.
* `parts`: `IsRedBlack` (links, colours, balance), `IterationInOrder`, `ImplementsMap` (the tree); `MemoryPartitioned`; `OwnBytesOnly`; `BufferHolds`, `RoundTrip` (a script that unpacks
  gets what is due for each item: the number as near as a double and its kind come to it, a string up to
  its first 0, nil for an empty one, and nothing of another item); `LentOnce`, `SlotsComeBack` (the connections); `LinesInOrder`,
  `OnlyOldestLost` (the files, also after deaths); `WholeFrames`; `ConfigWhole` (a script's
  configuration begins with the whole text of its file, and no string is longer than the longest text and the stray
  byte); `LineWhole` (no earlier line's bytes unless `vsnprintf` failed, and always the right end).

### Disagreements the runs show

Seven runs expect a violation; `findings` in `PROJECT.json` quotes the lines.

1. `gateway_locks`: the network and the timer thread wait for each other's lock for ever.
2. `gateway_idle`: a stale `timer_ev` cancels another session's first-pack timer, and a
   silent connection stays for ever.
3. `gateway_sender`: the consumer reads the descriptor out of a freed or reused session.
4. `input_status`: a head with a status bit makes the analysis loop for ever.
5. `timer_late`: a late periodic task is put back to 1970 and runs without end.
6. `timer_clock`: a timer created while the clock is being overwritten fires at once.
7. `streams`: the collector's handler frees a stream twice.

`gateway_locks`, `gateway_idle` and `gateway_sender` use the instance of `gateway` with a
third peer in place of the call; the two of the timer have a longer time and three timers.

Also in the models' behaviours, with no text in the repository that says otherwise,
hence no run: a chunk that does not fit in the buffer is dropped whole; a hang-up of an
old connection removes the one that got its number; a cancellation hits the timer that
got the task's address; a periodic timer cannot cancel itself in its callback; a session
that ends while `connect_server` is still at work is written to after it was freed, which
can take the timer from another session and send the timer thread after freed memory;
`fix_delete` gets NULL where a black node without children is deleted, and the tree is
unbalanced from then on; a refill that gets a single object puts memory behind the
chunk on a list; on Linux the log's writer waits for itself at midnight; a send that gives
up, or two at a time, breaks the frames of a connection; `get_json_config` crashes on Linux;
a connection accepted while the server stops is given a timer of a manager that is gone; messages
still in the queue after a stop are decoded into a pool that is freed, and handed to a Lua
state that is closed; a stop closes each descriptor twice, by the map's keys and by its
values, and the second time the number can be that of the file the log has just opened; each stop leaves the epoll descriptor open and the sessions allocated.
The parameters of the MySQL pool are passed in another order than they are declared, so
that the number of connections it may grow to is the timeout; a script that packs
64-bit numbers through `lua_Number` loses digits, and `RoundTrip` says that it loses no more than these; an empty
string or array of bytes reads back as nil, and a string with a 0 in it is cut there; a stream over a string
that has been collected reads freed memory; a configuration has a byte behind its text that nobody
wrote, and can have the end of an earlier one behind that; a line whose `vsnprintf` fails holds bytes of
an earlier one.

## 4. Fairness

* Threads that run keep running: weak fairness of the steps that need no contended lock.
* `SF(GetLock)` in `NetMsgQueue`: the consumer tries without pause, while the
  network thread sleeps ten milliseconds a round (core/network.c:252), so one of the
  tries finds the lock free.
* `SF(NetStep)` and `SF(TmrStep)` in `Gateway`: each thread waits for a lock the other one
  holds for a moment between sleeps of ten milliseconds and more. Two crossed locks
  disable both for good, and no fairness helps there: hence `LocksCrossed` in
  `EndedIsNoticed`. Peers, the consumer and `connect_server` have no fairness.
* `WF(TmrStep)` in `Timer`: callbacks return. `SF(TimerLookRight)`: the clock holds year 0
  for a few instructions of each round of its thread, so that one of the timer's looks
  finds the time. Scripts have no fairness.
* `WF(Receive)` and `WF(Analyse)` in `InputStream`: the network thread goes on. A peer
  need not send.
* `WF(MainStop)`, `SF(NetNext)` and `SF(TmrNext)` in `Lifecycle`: the script waits for
  `fina_server`, and the two threads go on as in `Gateway`, up to crossed locks (`Crossed`). Nobody
  need start or stop the server, and the log and the consumer have no fairness.
* `WF(Notice)` and `SF(WriterStep)` in `AsyncLog`: a thread that has put a line in posts
  the notice, and the writer gets the output lock, which loggers hold for one line at a time.

The other modules state safety only. Deadlock is checked in `messages`, where neither the
queue's consumer nor the analysis of the input may stop; in the other runs the system stops when
the bounded environment has done what it may (or, in `Gateway`, by crossed locks, which
has a run of its own).

## 5. What is proved

Each theorem holds for every value of the constants that satisfies the module's named
assumption, which TLC evaluates in the runs. What the assumptions say:

* `QueueAssumption`, `MysqlAssumption`, `GatewayAssumption`, `StreamPoolAssumption`,
  `ShareAssumption`, `LifecycleAssumption`: threads, addresses, descriptors and null are told apart,
  bounds are numbers, sizes are not 0 where the code divides by them.
* `MemAssumption`: _MAX_BYTES is a multiple of _ALIGN, a refill asks for two objects at least,
  and requests are not empty and not larger than _MAX_BYTES.
* `TreeAssumption`: keys are integers, and NULL is neither a key nor a value.
* `LogAssumption`, `LogFileAssumption`, `SendAssumption`: sizes and bounds are numbers.
* `ByteStreamAssumption`: a byte has at least two values, a new buffer at least two bytes
  (with one its growth would not end), an int holds the length of every text, to which the code
  casts it, every number has a nearest double and every double a nearest float (there are finitely many of
  both), floats are doubles, and nil is no string. Of the texts nothing is assumed but that they are bytes, 0 among them.
* `LineAssumption`: heads, texts and colours are strings, without a NUL in them.
* `TimerAssumption`: times and periods are numbers, and the program starts before it ends.
* `StreamAssumption`: a payload is bytes, and its length fits the field of the head that holds it.
  `PeerAssumption`: a peer begins a frame with one of the two types, whatever the
  status bits, and its noise is neither.

**NetMsgQueue_proofs.** `QueueInvariant` is `Spec => []IInv`. `NothingLost` alone is not
inductive: that linking behind `tail` appends to the list needs that `tail` is the last
node reachable from `head` (`ListShape`); that this stays true while a node is being filled
in needs that a node in a thread's hands is not linked (`NodesOwnedOnce`); and both need
that only the owner of the lock is inside (`OneInside`) and what its local variables
hold at each step (`LocalsMeanThis`). `IInv` is the conjunction; each action has a
lemma that it preserves it, `NextIInv` collects them. `QueueTypeOK`,
`QueueNodesOwnedOnce`, `QueueNothingLost` follow. `QueueImplementsChannel` adds
`StepRefines`: a step that links a node is `Accept`, `Deliver` is `HandOut` (by
`NothingLost`, the block in hand is the next one), every other step stutters.

**Buffers_proofs.** For `AsyncLog`, `LogInvariant` is `Spec => []IInv` with
`IInv == TypeOK /\ RingHolds /\ BytesInOrder`. The two flags are what makes `Used` a
function of the indices, so `TypeOK` carries that they are set exactly when the indices
meet. The lemmas about `Advanced` and `Offset` (going around the buffer is addition,
is injective over one turn, and the two are inverse) replace modular arithmetic, which
the SMT solver does not reason about well.

For `InputStream`, `InputInvariant` is `InputSpec => []InputIInv`. `FramesArriveWhole` says only what
has come out and is not inductive. The invariant says what is still to come: the bytes between
`rtag` and `wtag` followed by the bytes that are still under way are the frames not yet decoded,
with noise between them, and `rtag` is at the beginning of one of them or in noise. It says so with a
list of places (`LaidOut`), one per frame, because a payload may hold what a head begins with: only
the place, not the content, tells a head from a payload. Each branch of the analysis moves along
that list (`PlaceMoves`, `PlacesInFrame`), and a chunk that is dropped ends the promise (`dropped`).

**Timer_proofs.** `TimerInvariant` is `TimerSpec => []TimerIInv`. `Sorted` is kept by itself:
inserting behind the last node that is not later (`Inserted`) splits a sorted list in
two sorted halves around the new node, and taking a node out keeps what is left sorted. That a
task is in one place (`EachInOnePlace`, `TasksOwnedOnce` said in a form that is inductive) needs who
is inside the lock (`LockIsHeld`), since a thread that is about to insert a node and
one that cancels must not meet, and that the number a timer gets is new
(`NumbersAreNew`). `FiresAsAsked` needs what a node has kept of the request it
was made from (`KeptFromRequest`): due not before it was asked, once only if it was to fire
once, and nothing of a timer that was cancelled. `TimerTypeCorrect` adds the bounds on
time: that what the list holds and what a script has computed stays in `DueTimes` needs that
the node being run was due before the time the thread has read, since the period is added
to the due time.

**Gateway_proofs.** `GatewayInvariant` is `Spec => []GatewayIInv`. Another thread may remove
the session `connect_server` is still working on (`gone`), after which the code writes to freed
memory; the invariant has three layers, for what survives that and what does not.
`Ever` holds always: who holds the locks and how often (`LocksHeld`), what each thread has in
hand at each step (`InWork`), that a session and a descriptor have one another only (`OneEach`),
and how what Lua has been told relates to what is open (`Heard`).
`Tables` holds until a session is removed before it is inserted (`lost`). `TablesAgree` speaks of the
moments at which the lock is free, and is not inductive; `Tables` says it of every moment,
with the two kinds of session that are between the tables: one whose remover has taken it out of the
map and not yet freed it (`Left`), and one `connect_server` has not yet inserted (`Hidden`).
It cannot hold after `lost`, which the proof showed and TLC confirmed with two calls: the first call
spoils a timer, the timer goes off for the session of the second, and a freed session is
put in the map. `Linked` holds until `gone`: every session in hand is in use, and a
first-pack timer and its session point at each other, and at nobody else, without which
`session_removetimer` could cancel another session's timer. Each action has one lemma
for the three layers. `GatewayLuaKnows`, `GatewayNotices` and `GatewayTypeCorrect` follow from
`Ever`, and so hold in every behaviour; `GatewayTablesAgree` and `GatewayNoDangling` follow from the layer
that has the property's own limit. `LowestIsFree` (the kernel gives out a free
descriptor) rests on the well-foundedness of the numbers.

**Lifecycle_proofs.** `LifeInvariant` is `LifeSpec => []LifeIInv`. `FindsWhatItNeeds` speaks of the
threads that are lost; the invariant says what is there at each place the script has come to
(`Order`: the timer thread lives only between `timer_init` and the join, the network thread ends
before the first descriptor is closed), that nobody has a client before the server listens
(`NoClients`), who holds which lock (`LocksHeld`), and that up to the second closing of the sockets of the
first stop whatever a thread is about to close is a socket (`OwnSockets`). The last one is
what shows that the log's file is closed by the log alone until then.

**Pools_proofs.** `StreamPoolInvariant` is `PoolSpec => []PoolIInv`: up to the first stream that is
given back twice, written to after it was given back, or collected (`Careful`), a pooled stream is usable and empty
(`PooledIsClean`), and the C threads and the scripts hold streams that are not pooled and
nobody else's (`BorrowedApart`, `HeldApart`). `OwnBytesOnly` does not say that what is in
the pool is empty, and is not inductive without it. `MemInvariant` is `MemSpec => []MemIInv`:
until a refill gets a single object, each byte is in one held object, at one place of one list, or in
the chunk, and in one of them just when malloc has handed it out (`OnePlaceEach`); what is left of the chunk is a
number of smallest objects (`ChunkFits`), without which `mempool_s_chunk_alloc` could not put it on a list; and malloc's next
block lies behind all others (`HeapCounted`). An operation is a series of moves, each with a lemma
of its own: to a holder (`PlaceTaken`) and back (`PlaceGiven`), the chunk to a list (`PlaceShelved`), an
object made the chunk (`PlaceOpened`), a new block (`PlaceFromHeap`), and a chunk cut up (`PlaceCarved`).
`BytesInvariant` is `ByteSpec => []ByteIInv`: while the program runs and no `odd` call has been made, the
items lie one after the other in the buffer and fill it, and the place to read from is the
end of what has been read (`Aligned`, with a witness `ends`). `ItemIs` says of every kind of item that the
reader gets what is due for it (`Due`) from its bytes. For the digits this is `NumberBack`, since their sum is
the number less its last quotient (`SumOfDigits`), which is 0 or, of a negative number, -1. What was stored
is a double or a kind that a double holds, so that handing it back loses nothing more (`StoredIs`); and a
string that was cut at its first 0 is not cut again (`CStringIs`). The
library's induction theorems cannot be used (they take an operator), so `UpTo` and
`Recursion` say the same of sets and of sequences of functions, and what each recursive function of
`ByteStream` yields is a lemma (`PowerIs`, `SumIs`, `GrownIs`, `UptoIs`). `BytesBufferHolds` needs of the growing
loop that each round adds at least one byte, which is why it spins on a buffer of one.

Of the connection pool, `MysqlInvariant` is `MysqlSpec => []MysqlIInv`, where `MysqlIInv` is the
type invariant and, as long as nothing undefined has happened (`undone`), three facts: a script
between its two critical sections still finds its slot (`SlotsFound`), a closed pool is
empty (`ClosedIsEmpty`), and `Good`, which says of the array, the open connections and
the hands they are in what `LentOnce` and `SlotsComeBack` say together. `Good` is a
statement about values, so that `GoodTake`, `GoodMove`, `GoodRelease` and `GoodGrow` can say what
taking, handing on, giving back and growing do to it; each action has a lemma that
uses one of them. `LentOnce` alone is not inductive: that a slot which is not in use
holds a connection nobody has is what taking it needs.

**RbTree_proofs.** `TreeInvariant` is `TreeSpec => []TreeIInv`. What the properties say is about walks: a
search, the way to the least key, the next key of the iterator, the black nodes on the way down. The
invariant says what makes each walk right, node by node, with two witnesses:

* `Sound`: each node can be given the set of the keys below it, so that this set is the node and the
  sets of its two children, the left one with smaller keys and the right one with larger, and the
  links go both ways. Cycles, two parents and a key out of its order are then excluded by the node and its
  children alone, and a rotation changes only two of these sets (`RotatedShape`).
* `Placed` and `Coloured`: where the loops are, and where two red nodes may meet while they run: at the
  node `fix_insert` has come to, and at a red node `fix_delete` has come to, which it paints black.
* `Even`: until `fix_delete` has been given NULL (`skipped`), each node has a black height, which both its
  children agree on when the node `fix_delete` has come to counts one black node more than it
  has. This is why `IsRedBlack` is not inductive: while a deletion is repaired the
  heights do not agree, and which node the difference is at has to be carried along.

Every operation on the links is described field by field (`TransplantIs`, `RotateIs`, `PaintedIs`), and
what a rotation keeps of the shape, the red pairs and the heights is said once for both sides
(`RotatedShape`, `TurnedPairs`, `TurnedBalance`); each case of `fix_insert`, `fix_delete` and `map_delete`
is put together from these. That the rotations of the two repairs never find a NULL is part of it: a
red node that is not the root has a parent, and a node that lacks a black one has a sibling, or the loop is left.
Walks are bounded functions, followed by the set of the steps at which they are right (`UpTo`);
what holds below a node is proved by the number of keys there, which falls with each step down (`Descent`).
From `TreeIInv` follow `IteratesInOrder`, `StaysRedBlack` and, from what each action does to
the values of the keys (`EntriesStep`), `TreeIsMap`.

**Parts_proofs.** Four small components. `ShareInvariant`: what a loader has written before each of
its steps, that a loader or a reader that met no other is alone (`LoadAlone`, `ReadAlone`), and
that between loads the memory holds the last one (`Settled`), and that whatever ran at the same time all
behind the longest text and the stray byte is 0 (`ZerosBehind`). Where the first 0 is, which is where Lua's copy
ends, is `StrLenIs`; that bytes which begin with a text are a C string that begins with it is
`StringBegins`. `LineWholeAlways`: `LogLine` has one step,
and the proof follows the places kept for the end of the line through `elog_strcpy` and
`vsnprintf`, whatever the line before has left in the buffer and whether or not `vsnprintf` fails. `FileInvariant`: the lines of a
day are cut at non-increasing places, one piece per file (`InOrder`, with a witness `cut`), so that a
rename moves a piece and a death between two renames leaves one empty; while a rotation is
under way no other writer is in the file (`RotatesAlone`, `OneInside`), and what was measured is still the
size (`Measured`). `FileLinesInOrder` and `FileOnlyOldestLost` follow by adding up the pieces. `SendInvariant`:
a frame has one thread (`OneFrameEach`), what is on its way to an unspoiled connection is
the last that was begun for it (`LastServed`), and the stream of a connection is the frames that
have gone, built up one by one, and the part of that one (`Delivery`); from this `SendWholeFrames`
follows, since `FlattenSeq` of what has gone is what was built up.

**Only model-checked:**

* every liveness property (the prover has no rules for fairness and ENABLED that would carry them) and
  all violations.

Every invariant and every action property of the passing runs, and both refinements, are theorems.

## 6. Not modelled

* Of the start and the stop: `wait_stop` and `exit`, `fina_server` called from within a
  callback (it would wait for its own thread), the errors of `socket`, `bind` and `listen`, that
  `lightevent_destroy` is given a pointer into the manager, SIGPIPE, which only the network thread
  blocks; `elog_async_deinit` and the other `..._destroy` functions, which nothing calls. The
  modules other than `Lifecycle` begin where their component has been created and
  end with the program.
* Steps that the models take at once and the code does not: `init_connection_pool`, which sets
  `g_conn_pool` before its lock and its slots are ready and looks for another pool before it does so, so that
  two first calls at a time open two pools and a query in between finds a lock that is none (nothing in the
  repository calls it; the model's one script opens the pool while nobody uses it); and the
  frees of `timer_destroy`, which can find the network thread inside of `timer_schedule`. `FindsWhatItNeeds`
  excepts that thread from the moment the timers are gone.
* In byte streams, numbers their kind cannot hold (the cast of such a double to an integer is
  undefined; negative ones are refused for `uint64_t`, and nothing is written). In shared memory, names
  of 255 bytes and more, reads of a file that come short, and failed allocations.
* The Lua interpreter. Four threads enter one `lua_State`, and the lock for it is never taken:
  undefined inside Lua, a hazard without a property. A call into Lua is one step here.
* Lua bindings beyond those named above, which convert arguments; utils/endian.c and
  utils/lightevent.c, which convert a value and wait; the calendar functions of
  utils/datetime.c, which only the log's time stamp uses.
* What nothing calls: `mempool_reallocate`, `map_traverse`, `elog_raw_output`,
  `elog_hexdump`, elog_buf.c, the filters of the log by level and tag, and the C writers of
  arrays of bool, short, int and float, whose names the table of methods binds to the readers.
* The Windows branches (`select` in place of `epoll`), except in `ShareMem`.
* The gateway application in Lua and the client of `src/example`: what they hear and send is
  in `Gateway` and `InputStream`.
* Vendored code. It is most of the lines of the repository, so that the share of all lines that
  is modelled stays small; of the program's own code it is about a third.
