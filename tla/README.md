# Verification of libtousb-device-mgr

TLA+ models of libtousb-device-mgr, a C++ library through which test programs
talk to the *device manager*, the server that owns the USB boards. The modules
are translated from the source; paths below are relative to the repository.

## 1. Inventory

```
 user threads            network side
 ------------            ------------
 usb_xxx / DIG_xxx  (libusb/lib_interface.cpp)
      |
 mgr_session::call_xxx  (libusb/mgr_session.cpp)
      |
 xsession::call_xxx  <---- semaphore ----  xsession::handle_xxx_response
      |  send                                   ^ on_recv
 mgr_network::send_to_adapter          mgr_network::on_tcp_cli_msg
      |  serial_to_bin                          ^ parse_from_bin
 xtcp_client::send_data                usbadapter_bin_unpacker::unpack_data
      |                                         ^ recv_handler (asio threads)
      +------------------- TCP -----------------+
```

| Component | State | Operations | What makes it correct |
|---|---|---|---|
| **xsession** (`libusb/xsession.cpp`) | `m_map_semaphore`: session id -> semaphore with `m_errcode`, `m_att_data`, ...; a shared mutex | twelve blocking `call_xxx`, one notify, twelve `handle_xxx_response` | each call returns; what it returns came from an answer to its own id; nothing is left in the map; an answer that comes in time is not lost |
| **session ids** (`usbadapter_package.cpp`, `serial_to_bin`) | static `s_req_id`, a lock per package | take an id, increment, wrap around at 65535 | ids of calls in progress differ |
| **unpacker** (`usbadapter_bin_unpacker`) | `m_raw_buff`, `m_data_len`, `m_signed_len` | `unpack_data`, `prepare_buff`, `reset_data` | the packets handed up are those the server sent, promptly |
| **TCP client** (`xbasicasio.hpp`) | `m_connect_stat`, `m_send_buff`, `m_is_sending`, `m_tm_last_recv`, the asio operations under way | connect, disconnect, send, handlers | packets leave in order, once; one write at a time; a dead connection is replaced |
| **mgr_network** | `m_init_ok`, `m_init_semph` | `work` every 500 ms (reconnect, heartbeat, drop), `start_work`, `stop_work`, callbacks | a live server is reached and stays reached; `usb_init` tells the truth |
| **xmgr_basic** (`xbasicmgr.hpp`) | `m_work_sign`, a thread | start, stop, the worker loop | one worker at a time, stop ends it |
| **mgr_session** | the one `xsession` | forwards calls, answers and sends | (no state of its own to get wrong) |
| **packages** (`usbadapter_package.cpp`, bodies) | none | a serialiser and a parser for each command | what is read is what was written, or it is refused |
| **mgr_log, SafeQueue** (`mgr_log.cpp`, `queue.h`) | the list, `m_isFirst`, the file, the line count, backups | `write_log`, the log thread, rotation, start, stop | a queued message is written, a written line stays on disk |
| **lib_interface, xconvert** | none but the singletons | `usb_init`, `usb_uninit`, about eighty queries and commands | the board that was named is asked; a success means an answer; what is reported was measured; the caller's arrays are not overrun |
| **mgr_shm** | a System V segment holding one `asic_msg` | attach, initialise, write, read | the answer is to one's own request |
| **main.cpp** | a static counter, the upgrade under way | the commands: upgrades, `read_real`, register access, queries | commands end; an upgrade is closed at the device |
| xconfig, xbasic, the UDP and server classes, cJSON, scripts | | | see section 7 |

Threads: any number of user threads inside `call_xxx`; the worker threads of
`mgr_network` (500 ms), `mgr_session` (20 ms, idle) and `mgr_log`; and the asio
pool, two threads per core. A connection has one read outstanding, so its
receive handlers do not overlap each other, but nothing keeps the handlers of an
old connection from running beside those of the new one, or beside the worker.

The hard behaviours are: concurrent calls sharing the id counter and the map;
an answer racing the registration, the timeout and the erasure of its call;
late answers meeting reused ids; the byte stream cut anywhere and connections
breaking in the middle of a packet; heartbeat and reconnection racing asio's
handlers; sends racing the writes of a connection that is being reset; a list
that is pushed to without the lock under which it is popped; programs that share
one mailbox. `PROJECT.json` lists each as a hazard, at its line.

## 2. Modules

| Module | Models | Notes |
|---|---|---|
| `XSession` | `xsession.cpp`, the id block of `serial_to_bin` | one action per access to shared state |
| `SyncCall` | what the session layer promises | abstract; `XSession` implements it |
| `XSessionProofs` | | theorems about `XSession`, among them that it implements `SyncCall` |
| `MCSession` | | symmetry for TLC |
| `XBasic` | `read_littleendian` of four bytes | pure operator, used by all that read a package |
| `BinUnpacker` | `usbadapter_bin_unpacker` in the receive loop of `xtcp_socket` | a byte is its place in its packet |
| `BinUnpackerProofs` | | theorems about `BinUnpacker` |
| `TcpClient` | the connection of `xtcp_client`: its state, the socket, the asio handlers | what a read brings is left to `BinUnpacker` |
| `TcpClientProofs` | | theorems about `TcpClient` |
| `MgrNetwork` | `mgr_network`, its worker (`xmgr_basic`), `usb_init` and `usb_uninit` | composes with `TcpClient`: `Cli == INSTANCE TcpClient` |
| `MgrNetworkProofs` | | theorems about `MgrNetwork`, the one about its heartbeat from those of `TcpClientProofs` |
| `TcpSendQueue` | the send queue of `xtcp_socket` | connects and resets by any threads, at any time |
| `TcpSendQueueProofs` | | theorems about `TcpSendQueue` |
| `Package` | `usbadapter_package.cpp`: every serialiser and parser | pure operators |
| `Converters` | `xconvert.hpp` and the find and parse functions of `lib_interface.cpp` | pure operators |
| `LibCall` | a call of the C API: asked, on the wire, answered, read, returned | extends `Package` and `Converters` |
| `LibInterface`, `LibBoards`, `LibApi` | the functions of `lib_interface.cpp`, an action each | three parts of one specification, `LibApi` is the whole |
| `LibApiProofs` | | theorems about `LibApi` |
| `MCApi` | | arguments and answers for TLC |
| `SafeQueue` | `queue.h`: the list and the steps of `Push` | a ring of nodes |
| `MgrLog` | `mgr_log.cpp` over `SafeQueue` | the disk survives a kill |
| `MgrLogProofs` | | theorems about `MgrLog` |
| `CommandLine` | the commands of `main.cpp`, the mailbox of `mgr_shm.cpp` | the device and the service are external |
| `CommandLineProofs` | | theorems about `CommandLine` |

### XBasic

`write_littleendian` writes an int byte by byte. `read_littleendian` of four bytes masks the
second of them with `0xFF` after moving it up by eight bits (`xbasic.hpp:169`), so bits 8 to
15 are always read as 0: `read_littleendian(v, 256)` is `v` without that byte. The branches
for two and three bytes are right, and so are the reads of long integers and floats. The
modules that read a package (`XSession`, `BinUnpacker`, `Package`) read it so; `Byte`, the
number of values a byte has, is a constant where TLC needs it small.

### XSession

A *thread* is a user thread or the `mgr_network` worker (`Beater`), which takes
session ids for its heartbeats. `pc[t]` walks through a `call_xxx`:

```
idle -TakeId-> load -LoadId-> store -StoreId-> test -TestId-> (wrap -WrapId->)
 send -Send-> insert -Insert-> wait -Wake-> errcode -CopyErrcode-> attdata
                                |                                     |CopyAttData
                                +-----------Timeout-----------> erase <+   -Erase-> idle
```

* `TakeId .. WrapId` are `m_session = s_req_id; if(++s_req_id >= 65535)
  s_req_id = 1;` access by access. The lock around them is a member of the
  package, and each call makes its own package, so it excludes nobody;
  `build.sh` builds with `CMAKE_BUILD_TYPE=DEBUG`, where the increment is a
  load and a store and the test loads again. Other orders an optimiser may
  choose are a subset of these interleavings, except that a register may be
  tested instead of the variable.
* `Send` is the whole send path. It may fail, or serialise nothing, and the
  callers ignore its result. A notify and a heartbeat end here.
* `Insert` and `Erase` hold the write lock, which waits for the handler
  (`handler = HandlerIdle`); `unordered_map::insert` keeps an existing entry.
* `Wake`/`Timeout` are the two outcomes of `timed_wait`. Time is abstracted: a
  wait may run out at any step at which the semaphore is not posted.
* `CopyErrcode`, `CopyAttData` read the semaphore under no lock.
* `HandleResponse`, `HandlerAttData`, `HandlerPost` are a `handle_xxx_response`
  under the read lock: look up, fill field by field, post.

The map is the set of requests whose semaphore is registered; `Under(id)` is the entry found
under an id. The device manager puts the id of a request into the answer, and `Heard(r)` is what
is read of it there; should the device manager read with the same function, the result is the
same, since what is lost once is not lost again. Payloads are the numbers of the requests they
answer, so a mixed or misdirected result is visible. `answer` and `raced` are history variables
that only properties read. All kinds of data a semaphore can carry (`m_att_data`, `m_rw_data`,
`m_ids`, `m_juncts`) are one field.

### BinUnpacker

`m_raw_buff` holds the first `m_data_len` bytes of the buffer. A byte is the
pair of its packet and its offset, so "the packet handed up is the packet sent"
can be said without contents. The mark is two bytes, the length field one. The
loop of `unpack_data` runs at most twice (take out the packet whose length was
known; read the next header and break), which `Recv` says directly. `prepare_buff`
runs at the end of every read and at `Connected`, as `do_recv_data` does. A byte
that stands where a length should and is none may be read as any length. `Said(p)` is the
length that is read in the header of packet `p`: a body of 256 bytes or more is taken to be
shorter, and its rest to be the next header. `LengthsAssumption` says of the constants what
the code's 14, 16384, 40960 and the 1024 of `prepare_buff` (`Slack`) satisfy: a header fits into
the buffer, and with the slack into the longest message. (The test with 512 in `unpack_data`,
`usbadapter_package.cpp:77`, holds only of the mark for no length, -1, so that its limit decides
nothing.)

### TcpClient

`m_connect_stat` is the code's variable. `sock` is what the descriptor is:
`none`, `opening`, `up`, or `down` when the peer has gone and nobody has closed
it. `jobs[s]` counts the handlers, queued or running, that are at step `s`:

```
connected_handler   ok -> start -> begin -> async -> .              err -> .
                               \-> again -> (do_recv_data)
recv_handler        data -> dispatch -> again -> (do_recv_data)
                                     \-> bad -> badset -> badclose -> again
                    fail -> failset -> failclose -> .
caller              idle -> start -> begin -> async -> idle         (start_connect)
                                  \-> read -> idle
                    idle -> set -> close -> idle                    (disconnect)
```

Handlers have no identity: which connection a handler belongs to is nothing
the code could ask either, since it has one `xtcp_client` and one buffer. They, and the
caller, are cut between each test of the state, each assignment to it and each call that
follows: `reset_socket` tests it, sets it and then calls `close_socket`, which waits for
`m_recv_mutex` (held at `dispatch`); `connected_handler` sets it and then calls `start_work`;
`start_connect` tests it (`StartConnect`) and then calls `start_work`, which tests it again
(`CallStartWork`), sets CONNECTING and connects. By the second test the state may be any: a
connection that came up in between makes the caller read beside `connected_handler`
(`CallRead`). `caller` is the thread inside `start_connect` or `disconnect`, of which
`MgrNetwork` shows that there is one at most.

asio itself is modelled by what the code relies on: `async_connect` on a socket
in use reports failure, `async_read_some` on a closed one too, `close` makes every
operation under way complete with an error, later. The address is taken as
valid, and the pool as running (see section 5).

### MgrNetwork

All calls of the client are the actions of `TcpClient`, conjoined with what the
caller does. `pc.worker` and `pc.user` are the next steps of the two threads:

```
worker   none -Spawn-> loop -> sleep -Work-> connect -> connecting -> loop
                        ^                 \-> beat ---------------------^
                        |                 \-> drop -> dropping ---------^
user     idle -UsbInit-> connect -> connecting -> spawn -> wait -> assign -> settle -> idle
         idle -UsbUninit-> join -> drop -> dropping -> idle
```

* `Work` decides from what it reads; the call it decides on is a later step, so
  handlers may change the state in between.
* `Dispatch` is `on_tcp_cli_msg` inside `sync_dispatch_data`: it sets `m_init_ok` if
  it is false, and owes a token, which `Dispatched` posts.
* `WaitInit`, `AssignInitOk`, `InitReturns` are `m_init_ok =
  m_init_semph.timed_wait(60)`, cut between the wait and the assignment, and the
  `is_init_ok()` that `usb_init` returns by after its `sleep(5)`.
* `age` is the whole seconds since `m_tm_last_recv`, as far as `work()` has looked. The
  variable is never initialised: the first age is any. `work()` runs every 500 ms, so each run
  finds the age it last found or one second more; when the worker is started anew it finds any
  age that is not less.
* `SendHeartbeat` is the call of `send_heartbeat`, in whatever state the client is by then. It
  changes nothing that anyone sees: `send_data` never queues the package (`TcpSendQueue`,
  `send_dropped`), so no heartbeat leaves. `unprobed` is the history of the *call*: a packet came
  on the open socket since the worker started, and `send_heartbeat` was not called since.
* `usb_init` is modelled from the point where it has an address; the errors of
  its configuration file return before any state changes. Its result is that of the last call,
  until the next call of `usb_init` or `usb_uninit`.
* `unprobed` and `spoke` are history.

### TcpSendQueue

Each function that holds `m_send_mutex` is a step; `send_native_data` is two
(`FindRoom`, `send_native_data`), since it reads the size before it takes the lock, and a reset
is four (`reset_socket`, its assignment `Unconnect`, `reset_buff`, `close_socket`). `jobs[s]`
counts the threads at a step: any number of them may be in a reset (up to `MaxClosers` for TLC),
and each may be as late as it likes, so that a `reset_buff` or a close may come when the next
connection is up. When a connect begins, and when one is reported failed, is `TcpClient`'s
concern; here `start_work` and `ConnectFails` may come at any time, which is more than
the client does. `do_send_data` is an operator on the queue, the
flag and the writes it finds, so that its callers (`send_data`, `send_native_data`,
`send_pack_in_buff`, `send_handler`) are the actions. A write is a record of its package and
its connection; it ends (`WriteDone`, `WriteFails`) before its handler runs.

`m_is_sending` says of one connection what is true of another after two events, which `crossed`
records: the handler of a write runs when there is another socket, and `reset_buff` clears the
flag while the client says CONNECTED on an open socket (or it says so anew, in
`connected_handler`, between a `reset_buff` and its close). Nothing in the source calls
`send_native_data`, so in the program the queue is always empty and `send_data` drops every
package: `AcceptedIsQueued` is the run that shows it. The other properties are of the queue as
it is written, and would be those of the program if `send_pack_in_buff` pushed.

### Package, Converters, LibCall, LibApi

A *buffer* is its length, the integers written at their `<<offset, width>>`, and the items of
the variable part. To read what was not written there with that width gives `Torn`: a serialiser
and a parser that disagree by a byte, an order or a width disagree in the model. The serialisers
of the requests for values, power and frequency are copies of their readers, take members out of
a buffer that nobody gave them and write nothing (`usbadapter_package.cpp:1006-1064`); those of
the registers are empty or missing. They give `NoBin`, and `Unwritten` names their commands.
Contents are numbers; what the code does to them (a byte taken of an int, two nibbles of
another) is done. `parse_from_bin` and `serial_to_bin` dispatch as the code does, so that a
command without a serialiser gives `NoBin`.

`At` is what stands in a buffer, `Int4` what `read_littleendian` reads of it; members that are
enums are small and read with `At`. `Delivered` is what the unpacker hands up of a buffer:
as many bytes as the length in the header says when it is read. Records and buffers are put
together with `++`.

A *value* of the device manager is a sequence of items (readings `id:val`, counts, malformed
pieces, ...); `Converters` says what each parser and each search loop makes of it, with its
tests in the order of the code, its inclusive and exclusive ends and its early exits. `Sends`
says which values a board of a type sends for what it is asked.

A call walks `idle -Enter-> called -AskFor-> sent -Answer/Timeout/Notified-> called ...
-Return/Throw-> done`. `asked` and `got` are the packages sent and what `call_xxx` gave back, so
a function that makes several requests (`DIG_GetBoardInfo`, `DIG_GetDsaID`, the register
intervals) is at the request `Len(got) + 1`. `Answer` lets the device manager read what is
delivered of the wire (`Understood`), chooses an answer among all errors, values and
truncations, and reads it back through `parse_from_bin`. `Fails`, `OneCall`, `Value` are the
three ways almost every function begins; a function that departs from them has its own
disjuncts.

As the code stands, nothing is on the wire for a request of values, power or frequency, and
nearly all `DIG_xxx` functions time out (`Timeout`). What they make of an answer is most of
`lib_interface.cpp`, and is looked at under an assumption about the outside: `Understood` says
that the device manager knows these three requests as they were made. It is marked external, no
property of requests uses it, and `Timeout` remains possible for each. The registers of one chip
have no reader either, and are never answered.

### SafeQueue and MgrLog

`nxt`, `prv` are the ring of `std::list`. `push_back` is cut into the three stores of the
library's `_M_hook` and the count; a pop is one step, since the only popper is the log
thread, but a push without the lock falls between its parts. `fate[m]` is where a message
is. The log thread tests the queue, decides to wait, waits, and is woken by a notification
or by the timeout. `write_log` tests `m_isFirst`, and then rotates and clears it in a second
step (`write_log`, `First`). Files are inodes: `log` is the name `libusb.log`, `backup[s]`
the name of the backup of second `s`, `m_log_file` the inode that is open. `Restart` is a
kill (the list and the flags are lost, the disk is not) and a new process. `unsafe` records
the races after which a property no longer holds.

### CommandLine

A program (`pc[p]`) enters commands one after the other. An upgrade is
`init, start, (loop, sleep)*, end, uninit`; the tests of `main.cpp` are the same with another
`Target`, another reason to stop, another end. What a library call tells its caller is
nondeterministic: `Start`, `Query`, `End` may fail at the device or only in the answer
(`unclear` remembers the latter). The register commands are `clear, fill, offer, poll, withdraw` on
`req` and `resp`, one record for each kind of request; `Take` and `Answer` are the service.
`Kill` is possible everywhere; the mailbox outlives the program.

## 3. Runs

| Run | Result | What it shows |
|---|---|---|
| `session` (`XSession.cfg`) | pass | the safety of the session layer, see below |
| `session_live` (`XSessionLive.cfg`) | pass | every call returns; `XSession` implements `SyncCall` |
| `session_shared_id` (`XSessionShared.cfg`) | violation | two calls in progress with one id: the lock of `usbadapter_package.cpp:227` is per package |
| `unpacker` (`BinUnpacker.cfg`) | pass | the stream is conserved on a connection that starts clean, and nothing is held back beyond the next read |
| `tcp_client` (`TcpClient.cfg`) | pass | the client is never stuck in CONNECTING, never overlooks a loss, has one reader unless connections crossed, and gives up a broken socket |
| `network` (`MgrNetwork.cfg`) | pass | one caller, bounded tokens, an honest first `usb_init`, the heartbeat stage before a drop, `usb_init` and `usb_uninit` return |
| `network_init` (`MgrNetworkInit.cfg`) | violation | a later `usb_init` fails although the server was heard while it waited (`mgr_network.cpp:66,96`) |
| `send_queue` (`TcpSendQueue.cfg`) | pass | the queue's bound, one write at a time and order but for a late handler or reset, nothing vanishes, nothing waits for ever |
| `send_dropped` (`TcpSendDropped.cfg`) | violation | `send_data` accepts packages that are never queued (`xbasicasio.hpp:184`) |
| `api` (`MCApi`, `LibApi.cfg`) | pass | every function of the C API against every kind of answer |
| `log` (`MgrLog.cfg`) | pass | no queued message and no written line vanishes but for the races named; the queue drains |
| `command_line` (`CommandLine.cfg`) | pass | upgrades are closed, register commands print their own answers, commands end |

Properties of the session layer: `NoDanglingSemaphore` (entries belong to calls in progress, one
per id, and a handler's semaphore stays registered while it is filled), `OutputBearsOwnSession`
(what a call gives back was brought by answers whose id, as it is read, is its own, although not
necessarily by the answer to *it*, and not necessarily by one answer), `DistinctInWindow` (the
lock's purpose where it holds), `LostOnlyWhenShared` (an answer that arrives during the wait is
lost only through a shared id or one that is misread), `EveryCallReturns`, `ImplementsSyncCall`.
An answer that is handled before its call has registered (`xsession.cpp:436-440`) is dropped and
the call waits for its whole timeout; `LostOnlyWhenShared` speaks of the answers after that.

Properties of the receive path: `StreamConserved` holds on a connection that starts with an
empty buffer and whose body lengths are read back as they were written. One that does not
(nothing calls `reset_data` when a connection is lost, `xbasicasio.hpp:152`) may complete the
rest of an older packet with its own first bytes. `HeldUntilNextRead` bounds how long a packet
that is whole may be kept (`usbadapter_package.cpp:75`), whatever was in the buffer when the
connection began.

Properties of the connection: `ConnectingHasOutcome` and `ConnectedIsRead` relate the unlocked
state variable to the handlers that can still change it. `OneReader` and `BrokenIsGivenUp` hold
but for one event each, which a history variable records: a connect that began while a handler
of an older connection ran, or came up between the test of `start_connect` and that of
`start_work` (`crossed`), and the report of a failed connect that was handled when there was a
newer one already (`mixed`, in which case the client says UNCONNECT above an open socket, and
when the peer of that goes, no handler is left to close it: each further `start_connect` fails
on it, unless a disconnect comes while the client says CONNECTING). Both come from asio handlers
that outlive the connection they belong to.

Properties of the manager: `OneCaller` is the condition under which `TcpClient` is right;
`TokensBounded` and `FirstInitIsTrue` relate the semaphore, `m_init_ok` and the packets that
came; `TriedBeforeDropped` says that `work()` cannot jump over its heartbeat stage on a live
connection once a packet was heard on it. It is about the decision of `work()`, and not about
the wire: that nothing leaves is the finding of `send_dropped`, and so a silent connection is in
fact dropped although it was never probed. (Before a packet was heard the stage can be jumped:
`m_tm_last_recv` is not set when a connection is made, so one that is made after a long silence
may be dropped by the next `work()`, `mgr_network.cpp:39`.) `UsbCallsReturn` covers the join of
the worker, `m_recv_mutex` and the semaphore.

Properties of the send queue: `QueueBound` is the limit and one package for each thread that
found room before the others pushed. `OneWrite` and `OrderKept` hold unless `m_is_sending` is
cleared for another connection than its own (`crossed`): by the handler of an older one's write,
or by a thread that is late with `reset_buff`. `Drains` holds even then.

Properties of the C API: `RequestArrivesIntact` and `AnswerArrivesIntact` relate serialisers to
parsers, through all functions and truncated buffers, for loads below 256 bytes and as far as
`read_littleendian` reads them; the former speaks only of the requests that are written
(upgrades, calibration files, real-time data, the lists). `BoardAsked` relates the address in
the package to the arguments, and the address that is read on the wire where the package is
written; `SuccessMeansAnswered` the return code to what every request got, with three functions
named that make do with less. `ReportsMeasured` relates the output to the value that was read,
however the board encoded it: each reading is one of its readings, with its number.
`IntervalComplete` says that an interval is reported whole: there is an increasing choice of
places in the value that has every reading inside the interval, and the array holds these and no
more. `FitsArray` relates the output to the caller's array. It carries an exception that the
code has: the searches of an interval fill the struct without a look at its size
(`lib_interface.cpp:1161`), so that a device that sends one number of the interval twice makes
them write behind it; `MCApi` has such values, and without the exception TLC refutes the
property. `OwnBoardOnly` relates each text of `DIG_GetBoardInfo` to the board it stands beside.

Properties of the log: `NothingVanishes` is two promises, `QueuedIsReachable` and
`WrittenIsKept`, and names the races after which they fail; that nothing is lost in any other
way, through rotations, failed writes, removed files, kills and restarts, is what it shows. Two
pushes that overlap lose a message. A pop between two stores of a push leaves the ring such that
later messages hang behind a freed node, and the log is silent from then on. Two threads that
find `m_isFirst` set, or a process started in the second of its last rotation, put one backup
over another. `QueueDrains` needs the timeout of the wait, since a notification may come between
the test of the queue and the wait.

Properties of the command line: `UpgradeClosed` and `OwnAnswer` carry what the code cannot avoid
(a lost end request, a kill, a second program that initialises the mailbox) as explicit
exceptions. `CommandEnds` excludes what the code lets run for ever: the tests that ignore a
failing query, `read_real` with no number, a second `read_real` whose number its static counter
has passed (`main.cpp:1087`, which no property covers), and a register command whose request
another one wiped.

Bounds. Three requests by two callers and the heartbeat thread, with ids that wrap after two:
three threads race in the id block, an id is reused while its first owner still waits, a late
answer meets the new owner, and an ignored insert is followed by an erase of the other's entry,
which need three requests. `Byte` is 2, so that of the ids 1, 2 and 3 the second is read as 0
and the third as 1: one is lost, one is taken for another. `MaxReq = 2` for the temporal
properties. Callers are interchangeable (`CallerSymmetry`, only used for invariants); the
heartbeat thread is not one of them. The unpacker has headers of 3 bytes, a buffer of 7 and a
limit of 9, so that bodies of 0, 2, 5, 9 and 10 bytes give an empty packet, one that fits twice,
one that is misread (5 as 2, with `Byte` 3), one longer than the buffer and one above the limit;
four packets and two connections let a whole packet be held behind another and a remainder meet
a new connection.

`TcpClient` runs with `MaxJobs = 1`: a connect succeeds only with at most one handler or read
of older connections left, a call of `start_connect` begins with at most one handler beside
those that receive; that is enough for an old handler to meet a new connection
at each of its steps, and for a connect to come up under a call of `start_connect` (46 433
states). `MgrNetwork` runs with `MaxInit = 2` (a second `usb_init`
after `usb_uninit`, or without it), the thresholds 0 and 1 for 5 s and 15 s (every
age the code can tell apart: none due, heartbeat due, drop due), and
`MaxJobs = 0`, since the overlap of connections is the concern of the run before (733 814
states). For the safety properties what the bounds cut off is
proved: the theorems of section 4 hold for any of them.

`TcpSendQueue` has two senders, `MAX_MSG_NUM = 0`, three packages, two sockets and two threads
that reset: the queue holds one within the limit and one for each thread, an old write meets a
new connection, a late reset meets it with the other thread anywhere in its own reset, and three
packages show an order (1 235 732 states). `send_dropped` has `MAX_MSG_NUM = 1` and four
packages. `MCApi` gives every function one to about twenty arguments, at, below and above each
limit, and every type of value an empty, a short, a long and a malformed instance, some of them
beyond 255 bytes, and an error code that is misread; the arrays of the caller have one or two
places, so that each answer can be too long. A call is made from `idle` with nothing left of an
earlier one, so calls do not need to be composed. `MgrLog` has two threads, two messages, a file
that is rotated after every line, and two processes: a rotation at the first message and one at
the second, in the same second or not, and both races. One message more would only add a third
push to a ring that two have already torn. `CommandLine` has two programs, three commands, an
upgrade of two steps (so that `test2` cancels at one half) and `read_real` with 0 and 2: a
second register command meets the rest of the first, by the same program or by another, and a
second `read_real` a counter that has passed.

Fairness. `FairSpec` asks that a thread inside a call is scheduled and that a
handler that has begun finishes, which the operating system's scheduler gives.
A waiting thread moves because `timed_wait` has a deadline (50 s; one hour for
calibration files). The writer's steps compete with handlers: weak fairness
suffices as answers are finite in a run and `boost::shared_mutex` does not let
readers overtake a waiting writer for ever. Nothing is asked of the device
manager.

The `FairSpec`s of `TcpClient` and `MgrNetwork` ask that queued handlers are run by
the pool, that a thread inside a call goes on, and, strongly, that `m_recv_mutex`
is handed in the end to a thread that keeps asking for it (a handler that closes, and the caller
inside `disconnect`). `TcpClient` also asks that
a connect has an outcome (the system's timeout) and that `start_connect` is called
again and again while it is allowed, which is what the worker does. The user may
stop calling: `MgrNetwork.cfg` has `CHECK_DEADLOCK FALSE`, because after the last
`usb_uninit` there may be nothing left to do.

`TcpSendQueue` asks that the system ends a write and that the pool runs the handlers of
writes and connects; nothing is asked of the senders or of the connection. `MgrLog` asks
only that the log thread runs; its wait has a timeout (500 ms), which is a step of it.
`CommandLine` asks that a program runs on, that the device gets on with an upgrade it has
begun, and that the service takes requests and answers them; a query may fail as often as it
likes. These three, and `MgrNetwork`, stop when nothing is sent, logged or entered any more,
and say `CHECK_DEADLOCK FALSE`.

## 4. Proofs

`XSessionProofs` proves, for every set of callers, `MaxId > 1` and number of
requests, `TypeCorrect`, `NothingDangles`, `OutputsBearOwnSession` and
`OnlySharedAreLost`. The four properties are not inductive. The strengthening
`SessionInv` adds to `TypeInv`:

* `RequestsInv`: a thread has a request exactly while it is inside a call, and no
  two threads have the same one;
* `IssuedInv`: requests above `nreq` are untouched, everything that is in the
  map, answered or sent has been issued;
* `AnswersInv`: a semaphore and the outputs only hold answers that were found
  under the same id, as it is read, and a posted semaphore has an error code;
* `WaitersInv`: registered entries belong to waiting calls with distinct ids, the
  handler's semaphore is registered, and a waiting call without an entry has
  a partner with its id.

It was checked with TLC before it was proved. Each action preserves each part
in a step of its own; the theorems follow with `PTL`.

In the same module, `IdsDistinctInWindow`. Its invariant `IdsInv` speaks of the
states where the race on `s_req_id` has not happened: at most one thread is in
the id block (`Alone`); the counter is where that thread's label says it is
(`CounterInv`); and two requests `d < MaxId - 1` apart have ids that differ by
`d` or by `d - (MaxId - 1)` (`ApartInv`). Neither difference is 0, which is the
property. The distance form is what makes it inductive: the distance of a new
request to all the earlier ones follows from that of the last one.

And `SessionImplementsSyncCall`: under the mapping of
`XSession` (`phase`, `answered`, `result`) the initial states are initial
states of `SyncCall`, `TakeId` is its opening of a request, `HandleResponse` its
answer, the returns from a call its closing, and every other step stutters. It
rests on `SessionInv`.

`TcpClientProofs` proves `ClientTypeCorrect`, `NeverStuckConnecting`, `LossIsNoticed`
and `OnlyCrossedAreTwo` for any number of handlers (`MaxJobs` is any number). The
invariant `ClientInv` adds what ties the state variable, the socket and the
handlers together: `NoIdleReads` (no read without a connection), `OneReaderInv` (a connect under
way and a handler of one that has succeeded count as readers to come) and `CallInv` (the caller
reads, or is about to, only if a connection came up under its `start_connect`). Each action has
a lemma of its own.

`MgrNetworkProofs` proves first `ManagerUsesClient`, `Spec => Cli!Spec`: the manager
calls the client only as `TcpClient` allows, so that what is proved of the client
holds of the whole. Then, from the inductive `MgrInv`, for any thresholds and any
number of calls, `NetworkTypeCorrect`, `OneCallerAtATime`, `TokensDoNotPileUp` and
`FirstInitTellsTheTruth`. `MgrInv` consists of the types; `CallerInv` (while the
user is in a call of the client no worker runs); `TokenInv` (the tokens, the one
that is owed, the one that a false `m_init_ok` still allows, and the one that an
assignment to come allows, are together no more than the calls of `usb_init`, and
one); and `FirstInv` (before the first `usb_init` nothing is connected; during it only
a packet can have announced anything).

It also proves `NoDropUntried`, the action property `TriedBeforeDropped`, for
any thresholds with `BeatAfter < DropAfter` (the one theorem that needs their order: with
equal thresholds it fails). `BeatInv` takes `MgrInv`, the invariant `ClientInv` of
`TcpClientProofs`, which is carried over to the whole, and adds `HeardIsNewest` (what was heard
came on the socket that is open and, unless connections were crossed, no other waits for its
handler: whoever hands a packet up is the only reader) and `BeatInTime` (on a heard and silent
connection the silence is no longer than `BeatAfter`, or it is one second more and the worker is
about to call `send_heartbeat`). Both were checked with TLC first.

`TcpSendQueueProofs` proves all the safety properties of the send queue for any set of
senders, limit, number of packages, of connections and of threads that reset. `QueueInv` is: the
types; `LinkInv` (an open socket has a number); `RoomInv` (what waits and the threads that found
room are together no more than the limit and the threads, which is what makes the bound
inductive); `OrderInv` (what waits is sorted and younger than all that is written or being
written); `AloneInv` (unless writes crossed, one write on this connection, known by
`m_is_sending` unless the socket is `Shutting`, that is, a thread is before its close and the
client does not say CONNECTED, and younger than everything written); `PastWrites`;
`EndedWrites`. The lemma `SendKeeps` says what `do_send_data` preserves, once for its four
callers.

`CommandLineProofs` proves `UpgradesAreClosed` and `AnswersAreOwn` for any programs,
commands and number of them. `CommandInv` adds where each command can be (`Placed`), that an
open upgrade has its program in the loop (`OpenInv`), and, unless register commands
overlapped, that there is one at a time (`Lonely`) and the mailbox holds nothing but its
request and its answer (`Mail`). Steps of a program that is at no register command go
through one lemma, `AsideKeepsMail`.

`BinUnpackerProofs` proves all three properties of the unpacker, for any header, buffer and
limit with `HeaderLen <= MaxMsgLen - Slack`, any number of packets of any lengths and any
number of connections. `BuffInv` says of the buffer that the length is known exactly when a
header is in it, and is the one read there (`Types`, `Measured`); with `ReadLength` (what is
read is no more than what was written) it is enough for `UnpackerTypes` and `HeldIsHandedUp`.
`StreamInv` adds `StreamConserved`: what was handed up, put one after the
other, the buffer and the wire are the packets of the connection, whole and in order. Each
step moves bytes from one of the three to the next, and the proofs are about `FlattenSeq` of
what was handed up. `FlattenSeq` is a recursive function; what is needed of it (its value at
the empty sequence and after an `Append`) is proved by taking the least natural number where
it would fail (`SmallestNat`), which needs no induction theorem with an operator parameter.

`MgrLogProofs` proves `NothingVanishes` and its two parts for any writers, messages, processes
and lines of a file, with the queue without a limit (`capacity_` 0), as `mgr_log` makes it.
`CoreInv` holds whatever races have happened: `WritersInv` (each writer has a message of its
own, unknown until it is linked), `LinksInv` (a message hangs behind one node and was taken by
nobody), `HandInv`, and `BoundInv` (inodes and seconds are no more than the messages that are
done with, so that there is always one left). `FilesInv` is `FirstInv` (until the block of the
first message has run the list is empty and this second has no backup), `FileInv` (the open file
is `libusb.log`; there is no backup of a second to come) and, while neither race on the files
has happened, `Kept`. `ListInv` says that while pushes did not overlap the list is a ring: there
is a sequence of nodes without repetition, each linked to the next and back (`Ring`), which
holds the queued messages, and whose last node is what a push has read (`Holds`). A push makes
it longer by one, a pop shorter. `Chain`, the nodes that `nxt` leads to, is a recursive
function, which exists and is one by the least element again; that the ring is no longer than
the number of nodes is the pigeonhole principle.

`LibApiProofs` proves, for any set of calls, values and error codes, that answers, and the
requests that are written, are read as they were made (`RequestIntact`, `AnswerIntact`), that a
request is for the board that was named (`RightBoard`), that a success had an answer to each
request (`SuccessIsAnswered`), and that `DIG_GetBoardInfo` reports a text only for its board
(`OwnTextsOnly`). The assumptions are what a caller of C can pass (`CallsAssumption`: a type of
board is a byte, numbers are ints, a name a sequence), what a value is (`ValuesAssumption`) and
that error codes are ints (`ErrCodesAssumption`). `MisreadFacts` says what is left of an
integer: the sign, the lowest byte, everything when it is below 256, and reading twice is
reading once. On it rest the round trips: a lemma for each kind of request that is written
(`Arrives`) and of answer (`Faithful`, and `Whole` if short), from `ReadsAsDelivered`, which
says once what is read of any buffer that was written. Lists need `EndOfGrows`: items end one
behind the other, so a list that was cut is refused. The invariant `CallInv` is `FlowInv`
(asked, given and got are in step), `AskedInv` and `RepliesInv` (what the round trips say of
each request and answer of the call), `AddressInv`, `OneRequestInv`, `DsaInv` and `InfoInv` (how
the two functions that ask several times are to ask), and the two properties. `FunctionStep` is
what it asks of a function: each request is `Asking`, each return `Honest`. Every function of
the API is shown to take such steps, most of them through a lemma about the kind of function it
is; `StepKept` is then the one step of the induction.

The same module proves what the functions that read sensors report: `ReportedIsMeasured`,
`IntervalIsComplete` and `ArraysFit`. They rest on two things.

* `SourceInv`, inductive beside `CallInv`, says where a value comes from: all that such a
  function asked for is the value it reads (`ValueOf`), of the board it was given, and what
  was given in answer is a value of that type as a board of that type sends it; the registers
  of one chip are asked for in vain. It rests on `Understood`: that the device manager knows
  the request for a value as it was made is assumed, since the code does not write it. What
  the function is handed is a beginning of that value (`HeardBegins`: a length that loses a
  byte never grows), and a beginning is still of its encoding (`ValueEncoded`).
* What a loop collects. `Chosen(v, places)`, which the search loops are written with, is a
  recursive function; `ChosenInOrder` and `ChosenCounts` say of every value and every set of
  places that it holds the items at these places, each once and in order, as many as there are
  places. They are proved by the least number of items where it would fail. With distinct
  numbers there are no more places inside an interval than numbers in it, and these fit.

Every function then has a lemma (`TempReads` .. `OneUtpReads`), from one lemma for each kind
(`OneReads`, `BinaryReads`, `TextReads`, `AllReads`, `ChipsReads`, `UtpReads`). The assumptions
are those above, the numbers of an interval and the length of an array being ints
(`CallsAssumption`), and `SendsAssumption`: a value is in the encoding its reader takes it to be
in (pairs of number and reading, a count and readings, chips), malformed pieces among them or
not. The parsers check sizes and counts, but no tag in a binary tells one encoding from another,
and the functions choose by the type of the board; so the code relies on this too. Nothing is
assumed of how a board numbers its readings.

All invariants were checked with TLC on the runs before they were proved.

Only model-checked: liveness (the prover has no fairness). Every safety property that a passing
run checks is a theorem.

## 5. What the source does not say

Several lines do not compile as they stand and are read by their evident intent:
`0xFFAS` for `0xFFA5` (`usbadapter_package.cpp:264`), `m_lib_session.Reset(new
xsession())` (`mgr_session.cpp:24`), `set_packer_unpacker` for `set_packer`
(`mgr_network.cpp:11`), `CBKTCPMSG` against `CBKTCMSG`, `send_pack_in_buff()`
without its argument (`xbasicasio.hpp:548`), `start_work` declared `bool` and
overridden as `void`, `set_proxy_send` called on `mgr_network`. None of them
changes what the modules say. The mask of `read_littleendian` (`xbasic.hpp:169`) is not one of
them: it compiles, and is modelled as it stands.

Further names are undefined or misspelt and taken as their context says: `BOARDTYPE_DIG`,
`BOARDTYPE_CP_PPS`, `COMMAND_TYPE_UPT40_PS_CONTROL`, `POWER_SWITCH_SLAVER_SWITCH_OFF`,
`xconvert::parse_ad9528_lckdata`, `errcode` in `DIG_GetMutiSerdesState`. `DIG_GetDsaID`
closes its loop too early (`lib_interface.cpp:2869`); what uses `i` behind it is taken to
belong inside. `main.cpp` ends in the middle of its commands, has no `main`, and does not
dispatch its register commands; `CommandLine` takes `debug_cmd_exe` to run each command the
file defines.

What the models carry over from the code without judging it: `errcode < 0` is the test
everywhere, so the device manager's `ME_FAILED` (1) counts as success; `parse_pwm_check`
advances twice; the first nibbles of a DSA slot may overflow; the requests for values,
power and frequency (`usbadapter_package.cpp:1006-1064`, copies of their readers that use an
undeclared `pack_len`) and for UTP registers serialise to nothing, so that nearly every `DIG_xxx`
function times out as the code stands (`LibCall` looks at what they do with an answer under the
assumption `Understood`); nothing empties `m_raw_buff` once it is full, so that every later read
has no room and fails, although the comments at `usbadapter_package.cpp:101` and `:122` intend a
reset before it overflows; no heartbeat leaves, so that each silent connection is dropped after
15 s; the name of a file is left behind
when its type is no calibration type; `DIG_GetAsicSlot` and `DIG_GetPpsSlot` return 0 with
no slots when the query failed; an upgrade is completed after a failed query, although
`docs/flowchart.md` 3.2 draws it otherwise; `LOG_MSG` before `start_log` clears `m_isFirst`
without a file name, so that the old log is never rotated; `Pop_Wait` with `wait_infinite`
waits for `numeric_limits<int>::infinity()`, which is 0.

The mask of `read_littleendian` costs most of all: `docs/architecture.md:110` says that an
answer wakes its caller, matched by session id, but from the 256th request of a process on an
answer finds its caller only when the second byte of its id is 0 (`Heard` in `XSession`; without
its second exception TLC refutes `LostOnlyWhenShared`), and a body of 256 bytes or more is cut
short (`Said` in `BinUnpacker`). No run is kept for it: the properties name it where they
allow for it.

Two more things show in the models and are not findings, because no text in the
repository promises otherwise. `xtcp_client::start_serve`, which starts the io
threads, is called nowhere for the client (`xbasicasio.hpp:418`); the models
take the pool as running. And `connected_handler` calls `start_work`, which
connects again when `disconnect` came in between, so that the client may be
connected after `usb_uninit` has returned (`StartWork` in state UNCONNECT).

## 6. Plan

1. *(done)* `XSession`, `SyncCall`, their runs and first theorems.
2. *(done)* `BinUnpacker`: the receive path.
3. *(done)* `TcpClient`, and `MgrNetwork` composed with it: the connection, the
   heartbeat, `usb_init` and `usb_uninit`, and their theorems.
4. *(done)* `TcpSendQueue` and its theorems.
5. *(done)* `Package`, `Converters`, `LibCall` .. `LibApi`: every function of the C API.
6. *(done)* `SafeQueue`, `MgrLog`; `CommandLine` with the mailbox, and its theorems.
7. *(done)* The theorem about the heartbeat, over those of the client and the manager.
8. *(done)* `XBasic`; the theorems of the unpacker, the log and the C API.
9. *(done)* Theorems about what the loops of `Converters` report, function by function.

What a later change would need first is a theorem about the callbacks that outlive a
`disconnect` (`StartWork` in state UNCONNECT, section 5), should the code come to promise one.

## 7. Not modelled

cJSON is third-party code; only `xjson_config` of `xconfig.hpp` uses it. The UDP classes and
the TCP server of `xbasicasio.hpp` are never instantiated, and the UDP part does not
compile. `linux_shm.cpp` is a wrapper of `shmget` and `shmat`; `xconfig` reads a file into a
map; `xbasic` is string helpers, of which `read_littleendian` is `XBasic` and its like are in
`Package`.
Of `main.cpp`, the printing and the parsing of values, and the tests that only call one
function after the other, are not. `mgr_session` and `xtransmitter` only forward. Concurrent
calls of the C API are not in `LibApi`: the functions share nothing but the session layer,
where `XSession` has them. The start and stop of `xmgr_basic` by two threads at once is not
modelled, because one thread calls `usb_init` and `usb_uninit` wherever the repository uses
them. Log texts are left out everywhere.
