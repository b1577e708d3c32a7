# Verification of linux_c_cpp_learning

The repository is a set of C programs: a user-space TCP/UDP stack on DPDK
(`src/2.4_ustack/tcp_from_king.c`), a thread pool (`src/thread_folder/thread_pool.c`),
event-driven servers (`src/2.1`), and smaller samples.  This directory holds TLA+
models of its concurrent core, the TLC configurations that check them, and proofs
of the properties that matter most.

`src/dpdk1902` is a vendored copy of DPDK 19.08.  The part of it that decides whether the
stack works, the ring through which its lcores talk, is modelled and proved about; what
mbufs, the KNI and a driver do with a buffer is part of `PacketPump`; `rte_malloc` is
modelled from its use.  The rest (drivers, test programs, libraries that nothing here calls)
is not modelled, so the share of the repository's lines that the map covers is small
however much of the repository's own programs is modelled.

## 1. Inventory

### 1.1 The user-space stack (`2.4_ustack/tcp_from_king.c`)

Four lcores run for ever:

| lcore | function | lines | what it does |
|---|---|---|---|
| main | `main` loop | 2691-2741 | NIC -> `in` ring; `out` ring -> NIC; ARP timer |
| packet | `pkt_process` | 753-829 | `in` ring -> ARP table, UDP, TCP or KNI; then `udp_out`, `ng_tcp_out` |
| UDP application | `udp_server_entry` | 1566-1605 | `nsocket`, `nbind`, `nrecvfrom`/`nsendto` echo |
| TCP application | `tcp_server_entry` | 2293-2380 | `nsocket`, `nbind`, `nlisten`, then an epoll loop of `naccept`, `nrecv`, `nsend`, `nclose` |

They share, mostly without locks, the table of streams, the descriptor bitmap, the
list of UDP hosts, the ARP table and the rings.

**TCP** (modelled: `UstackTcp`).
*State*: `tcb_set`, a doubly linked list of `ng_tcp_stream` (4-tuple, descriptor,
status, `snd_nxt`, `rcv_nxt`, a send ring, a receive ring, a mutex and a condition
variable); `fd_table`, the bitmap of descriptors.
*Operations*: on the packet lcore `ng_tcp_process` and one handler per status,
`ng_tcp_out`; on the application lcore `naccept`, `nrecv`, `nsend`, `nclose`.
*Interaction*: a handler writes the status, enqueues a payload and then signals the
stream's condition under its mutex; the application looks streams up by descriptor,
sleeps in `naccept` (on the listener) and in `nrecv` (on the connection), and puts
fragments in the send ring, which `ng_tcp_out` empties one per stream and pass.
*Hard*: the table is walked by one lcore and changed by the other with no lock; the
status is written by both; a payload is visible before it is counted; `nclose` frees
a descriptor that its stream keeps until it is acked; data without PSH is dropped; loss and
repetition of segments.
*Correct when*: no wake-up is missed, one stream per 4-tuple, a descriptor names one
stream, each connection follows the passive side of TCP's states, what is delivered is
in the order of sending and lacks only what came without PSH, and a stream that a call has
found is not freed while the call works on it.  (The walks that look for a stream do read
freed ones, section 3.2.)

**UDP** (modelled: `UstackUdp`).  *State*: `lhost`, a list of hosts (address, descriptor, two
rings of `offload`, mutex, condition).  *Operations*: `udp_process` (968-1021) enqueues a
datagram and signals; `udp_out` (1095-1134) sends one per host or asks for the destination's
MAC and puts the datagram back at the tail; `nrecvfrom` (1406-1456) waits, and puts what did
not fit back; `nsendto` (1458-1492).  *Hard*: a part of a datagram is returned as another
datagram; the length counts a header that is not there, and the echo is cut at the first
zero of a buffer that is never cleared; a full ring loses an `offload`.
*Correct when*: no wake-up is missed, nobody gets another's bytes, nothing comes back twice,
and what can be echoed is, whole and in order.

**ARP** (in `UstackUdp` and `PacketPump`).  *State*: `arpt`, a list of (ip, hwaddr) and its
count.  *Operations*: `ng_arp_entry_insert` (221-247) on the packet lcore,
`ng_get_dst_macaddr` (205-219) there and in the timer on the main lcore (702-744).  *Hard*: an
entry may come late or never; lookups without the lock, bounded by a count that is not read
with the head.

**Startup** (modelled: `UstackStartup`).  `arp_table_instance`, `ringInstance`, `tcpInstance`
create their object at first use, on whichever lcore comes first; `get_fd_frombitmap`
(869-881) is a read-modify-write by two lcores; `nbind` looks a descriptor up among the UDP
hosts first.  *Correct when*: both servers end up bound and findable.

**Packet pump** (modelled: `PacketPump`).  *State*: the `in` and `out` rings, the queues of the
KNI, ownership of each `rte_mbuf`.
*Hard*: `pkt_process` gives a whole burst to the KNI for each packet of it that is neither
TCP nor UDP (792, 802), after the handlers freed others; the main loop frees what it gave
to the NIC (2719); enqueues into full rings are not checked.
*Correct when*: a buffer has one owner, or was leaked; none is freed twice.

**Ring** (`lib/librte_ring` of DPDK; modelled: `RteRing`).  *State*: a head and a tail for each
side, the slots.  *Operations*: an enqueue or dequeue reads the head, computes the room from
the other side's tail, moves the head by compare and set, copies, waits for its turn and
moves the tail.  *Hard*: every pair of those steps of two calls; heads that are old when they
are used; indices that wrap.  *Correct when*: it is a bounded FIFO queue.

**Earlier snapshots**: `tcp.c`, `tcp_concurrency.c`, `kni.c`, `udp.c`, `netarch.c`,
`ustack.c`, `arp.h` are steps towards `tcp_from_king.c` and are superseded by it.

### 1.2 The thread pool (`thread_folder/thread_pool.c`)

Modelled: `ThreadPool`.
*State*: `task_list`, `worker_list`, one mutex, one condition variable, a `stop` flag per
worker.  *Operations*: `nthreadpool_creat`, `nthreadpool_push`, `nthreadpool_callback` (the
loop of a worker), `nthreadpool_delete`.  *Hard*: the wait loop has two conditions, `stop` is
written outside the mutex, one signal per task, creation may fail half way, `stop` starts
uninitialised.  *Correct when*: neither a stop nor a task is lost, a task is executed once,
deletion returns.

### 1.3 The samples

| part | files | state and operations | what is hard | module |
|---|---|---|---|---|
| Reactor | `2.1/reactor.c`, `server.h`, `webserver.c` | `conn_list[fd]` with callbacks; accept, recv, send; a response in three states | descriptor closed before it leaves epoll and reused; state kept from the previous connection; SIGPIPE | `Reactor` |
| Multiplexing | `2.1/select.c`, `poll.c`, `epoll.c` | an echo loop each, over a set, an array or epoll | last descriptor, uninitialised memory, errors of `recv` | `SelectServer`, `PollServer`, `EpollServer` |
| Threads | `2.1/io.c` | a thread per connection | the thread reads its descriptor from a variable the loop overwrites | `IoThreads` |
| Coroutines | `2.3/ucontext.c` | `main` and three contexts, one fixed sequence of steps | - | - |
| Contacts | `contact_folder/contact.c` | one thread, a list saved to and loaded from a file | the file format | - |
| Word count | `count_folder/count.c` | a scan of a file with two states | - | - |
| TCP samples | `TCP_folder/*.c` | one connection, or an epoll loop | short reads and writes | - |
| Locking | `thread_folder/thread.c`, `spinlock.c`, `icon_operation.c` | a counter under a lock | lost updates | - |
| DNS, MySQL | `dns_folder`, `mysql_folder` | one request; library calls | encoding | - |

## 2. Plan

Written, in this order:

1. `LinkedList` - the list macros both programs share, as operators on sequences.
2. `TaskPool` (abstract), `ThreadPool`, refinement and liveness; `ThreadPoolProofs`.
3. `StreamLifecycle` (abstract), `UstackTcp`, refinement and liveness; `UstackTcpProofs`.
4. `BoundedFifo` (abstract), `RteRing`, refinement and liveness; `RteRingProofs`.
5. `UstackUdp`, safety under failures, liveness; `UstackUdpProofs`.
6. `PacketPump`, ownership of buffers; `PacketPumpProofs`.
7. `UstackStartup`, the races of the start; `UstackStartupProofs`.
8. `Reactor`; `EchoClients` and the three echo servers over it; `IoThreads`; `MCServers`, which
   composes the five, and `ServersProofs` about it.

## 3. Modules

| module | models | extends |
|---|---|---|
| `LinkedList` | `LL_ADD`, `LL_REMOVE`, `List_insert`, `List_delete`, traversals | |
| `TaskPool` | what a pool promises: start at most once, none after closing | |
| `ThreadPool` | `thread_pool.c`; a step ends where another thread can come between | `LinkedList` |
| `StreamLifecycle` | what each client sees of its connection's states | |
| `UstackTcp` | the TCP half of the stack, two lcores, remote clients and the wire | `LinkedList` |
| `BoundedFifo` | what a ring promises: a queue with a capacity | |
| `RteRing` | `rte_ring.h`, `rte_ring_generic.h`; a step ends at each shared access | |
| `UstackUdp` | the UDP half of the stack, its server and the ARP table | |
| `PacketPump` | who owns a buffer: main loop, packet lcore, KNI, driver, kernel | |
| `UstackStartup` | the start of the three lcores | |
| `Reactor` | the HTTP server of `reactor.c` and its clients | |
| `EchoClients` | clients of an echo server, and the kernel's side of a connection | |
| `SelectServer`, `PollServer`, `EpollServer` | one echo server each | `EchoClients` |
| `IoThreads` | the echo server with threads, of `io.c`, with clients of its own | |
| `MCThreadPool`, `MCUstackTcp`, `MCRteRing` | symmetry sets and sets of inputs for TLC | the module of their name |
| `MCServers` | the five servers in one instance | `Reactor`; the others as instances |
| `ServersProofs` | theorems about the five servers | `MCServers` |
| `...Proofs` | theorems | the module of their name |

`UstackUdp` and `PacketPump` take their rings as sequences of bounded length, which is what
`RteRing` is shown to implement.  `UstackTcp` starts where `UstackStartup` ends well.

### 3.1 `ThreadPool`

Threads are the owner (`nthreadpool_creat`, `_delete`), one caller of
`nthreadpool_push` per task, and the workers.  `wpc`, `tpc` and `opc` are their places;
`mutex` is the worker or the caller that holds the mutex, `sleepers` who is blocked on `cond`.

A step ends where another thread can come between: at a lock, at a wait, between the
insertion and the signal of `nthreadpool_push`, and at each read of `stop`, which
`nthreadpool_delete` writes without the mutex.  So a turn of the worker's loop is
`WorkerTest` (lock, and the condition of the inner loop), then `WorkerWait`, or
`WorkerTake` (stop is read again, the head is unlinked, unlock) or `WorkerLeave`; then
`WorkerRun`.  Lock, broadcast and unlock of `nthreadpool_delete` touch nothing that anyone
reads in between and are one step, `DeleteBroadcast`; each write of `stop` and each join is
one.  A pthread wait releases the
mutex and blocks in one step, a signal picks any sleeper, who must then take the mutex
again; spurious wake-ups happen up to `MaxSpurious`.  `CreateWorker` is one pass of the
creation loop, during which earlier workers already run; `CreateFails` leaves the worker in
the list (`pthread_create` failed) or not (`malloc` did), and the pool usable, as `main`
ignores the result.  `stop` starts at any value of
`StopGarbage`, since `memset(workers,0,sizeof(workers))` clears only 8 bytes: a value
other than 1 acts as 0, so `{0, 1}` is general.  With `{0}`, the build whose `malloc` happens to
return cleared memory, the rest of the pool is checked; `pool_garbage` has `{0, 1}`.  `nthreadpool_delete` is called at most
once, after a creation that succeeded; the link of a worker just freed is taken as still
there (line 128), as common allocators leave it.

### 3.2 `UstackTcp`

*Initial state*: after `nsocket`, `nbind` and `nlisten` of `tcp_server_entry`: the table
holds the listener.

*Application lcore* (`apc`): `AppEvent` is a descriptor that `epoll_wait` reports; `Call`
and `AppFind...` are `get_hostinfo_fromfd`, one list node at a time, since the packet lcore
changes the list meanwhile; then `Accept...`, `Recv...`, `Send...`, `Close...` are the four
calls, cut where the other lcore can come between.  `cut` remembers that a traversal stood
on a stream that was removed (`LL_REMOVE` clears its links, which ends the traversal).
`epoll_create` and friends are the kernel's, and the stack's descriptors are not the
kernel's, so what it reports is unknown: with `EpollReady = FALSE` any registered
descriptor may be reported at any time; with `TRUE` only one that has work, the assumption
the loop is written for.

*Packet lcore* (`ppc`): `PktRecv` takes a segment of a client through
`ng_tcp_stream_search` to the handler of its stream's status; a handler with several
visible effects goes on in `PktContinue` steps (`PktSynAck` ... `PktFree`).  `PktOut` is a
pass of `ng_tcp_out`.

`stray` is a history variable: a lookup by the application has found a stream that `nclose` had
already put in LAST_ACK (or that the packet lcore is about to free).  It can, because `nclose` clears
the bit of the descriptor (1542) and not the descriptor of the stream, which stays in the table
until its last ACK; once `naccept` has given the descriptor to another stream, both have it.
From the first such lookup on nothing holds of descriptors: the application may use the stream after
it was freed, or close one that has been made anew for another client.  `FdNamesOne`,
`FoundStreamLive` and `ImplementsLifecycle` speak of the executions until then.

What is promised of freed streams is `FoundStreamLive`, and it is about the stream that
`get_hostinfo_fromfd` or `get_accept_tcb` has found.  The walks themselves are not covered and cannot
be: they take no lock, so the packet lcore may free the stream they stand on, and they read its `fd` and
`next` once more (896-897, 921-922) with no lookup astray.  The model does so too, reading what
`rte_free` leaves; memory that was allocated again under the cursor is not modelled.
`LookupFindsOpen` and `AcceptNotMissed` say what such a walk misses.

*PSH.*  The handler of ESTABLISHED takes the payload of segments with PSH and looks at no other but a FIN
(1839).  A TCP sets PSH on the last segment of a write, and the stack sends no MSS option, so a write of
more than 536 bytes usually comes in several segments, each shorter than the 1024 bytes of `nrecv`'s
buffer, of which only the last has PSH.  `ClientSend` sets it or not (`cmore`: the client is in the
middle of a write), and `PktIgnore` drops a payload without it.  The history variable `skipped` counts
these units, and `DeliveredInOrder` and `PayloadTaken` say that they are all that is lost on a wire
without faults, and that `rcv_nxt` counts the others only.  So what `nrecv` returns
is *not* all that the client sent, however good the wire.

*Environment*: each client is a TCP with one connection at a time, that reuses its
4-tuple for the next, sends up to `MaxUnits` units in writes of one segment or more of up to `MaxSeg`,
acks what it receives and may close; its FIN is a segment of its own, after a whole write.  Payload is
numbered units.  A client has no timer: what it would send again, because it was lost or because
the stack never acked it, is among the `MaxFaults` repetitions, and statements for `faults = 0` are about
the time before the first.  The wire is FIFO in each direction
and may `MaxFaults` times lose the oldest segment or repeat it behind the others (a
retransmission).  A failed checksum is a loss.

Simplifications, each deliberate: a mutex held by the packet lcore is not a state, since its
critical section is one signal; sequence numbers are only copied and added to, never
compared, so their width does not matter; a freed stream reads as cleared (`rte_free`
clears), and a call that would use one it has found stops (`Live`), which `FoundStreamLive`
would report; rings never fill and memory never runs out; RST is not sent by the clients.
`nclose` reads the numbers into its fragment (`CloseBuild`), enqueues it (`CloseFin`), sets the
status and frees the bit, one step each; its branch for a stream in LISTEN (1544-1551) is left out:
`ImplementsLifecycle` shows that a connection is closed only in CLOSE_WAIT, until a lookup goes astray.
When `nrecv` returns -1 the loop calls `nsend` with that length (2365), for which `rte_malloc` is asked for 0
bytes and gives none, so nothing is sent whatever that second lookup finds: it is part of
`AppNotFound`.  The `rte_exit` of
`ng_tcp_handle_syn_rcvd` (1750) does not occur: the listener stays in the table, which
`TableInv` proves.  The MAC of a client is known when a segment is sent to it, because
`pkt_process` inserts it first (776), so the ARP branch of `ng_tcp_out` (2205) is left out.

### 3.3 `RteRing`

Both sides of a ring run the same code with other bounds, so the actions are shared:
`Call`, `ReadHead`, `Room` or `NoRoom` (the other side's tail is read now, and a fixed
call that does not fit returns 0), `Move` or `Retry` (the compare and set), `Copy`, and `Publish`
when the tail has come to the call's head.  `head`, `tail` and `old` are remainders modulo
`Width`, a slot's place modulo `Size`; the code has 2^32 for `Width`.  `Single` sides skip the
compare and the wait, as the single-producer enqueue of the `in` ring and the
single-consumer dequeue of the `out` ring do.  `NoLap` is a bound: between its read of the head
and its compare and set a thread is not overtaken by almost 2^32 items, without which the
compare and set would succeed on a head that has come round.  Memory is sequentially
consistent: the code's barriers are there for that on x86.

### 3.4 `UstackUdp`

Payload is numbered units, each with its peer and datagram, so that the properties can tell
whose bytes an echo carries.  `PktReceive` is `udp_process` up to its enqueue; `PktSignal` the
signal under the mutex; `PktOut` one pass of `udp_out` (a datagram whose destination is unknown is put
back, or lost if the server has filled the ring since it was taken out); `App...` the steps of `nrecvfrom`,
and `AppReply` the `strlen`, `nsendto` and the return to the loop.  `Offloads` is what
`ol->length` bytes of `ol->data` are: the payload, and `H` units behind it, which are the slack
of `rte_malloc` (zeroed) or the next element's header (whose last bytes are zero).  A
datagram of some lengths (`Unterminated`: a few bytes more than a multiple of the buffer, less
the header) leaves a last part without a zero, after which a piece of older text is sent;
the properties of the echo are stated for the others.  With the sizes of the code (header 8,
buffer 128) these are the lengths from 121 to 127 modulo 128.

### 3.5 `PacketPump`

A buffer's state is where it is: in the pool (as often as it was freed), in a ring, in a burst,
with the NIC, in a queue of the KNI, or leaked.  `OneOwner` counts these places.  Two things the
code does give a buffer two owners, and the history variable `spoiled` collects the buffers they
touch: what was handed to `rte_eth_tx_burst` (the main loop frees it at 2719 while the driver
holds it), and the bursts of several packets with one for the kernel (792, 802: the whole burst
goes to the KNI, with what the handlers free).  `OneOwner` and `Consumed` speak of all the others.  The
handlers are `PktHandle`; what they have to answer waits in `pending` until `PktOut`, which sends it, or
sends an ARP request for its destination and leaves it there; the main loop is `MainRx`, `MainTx`, `MainFree`, `MainTimer`; `PktKni` is the call of
`rte_kni_tx_burst`, with the freeing of what came back (`Drain`).  The driver and the kernel
complete at any time (`NicDone`, `KernelDone`).  An allocation that fails ends the process, as
`rte_exit` does.

### 3.6 `UstackStartup`

The UDP server, the TCP server and the packet lcore, each step of `get_fd_frombitmap` and
`tcpInstance` its own action.  `mixed` is a history variable: which of the two calls was ever
made by two lcores at once.  It names the races, so that `ServesUnlessMixed` can say that
nothing else goes wrong.  That the three sequences end needs no property: they wait for nothing.

### 3.7 The servers

`EchoClients` is a small model of TCP as a server sees it: a client connects once, asks, waits,
and leaves, `Rude` ones before they are answered or with a reset.  `cut` is what the kernel
knows: "no"; "fin" (reads return 0, a first send is accepted); "crossing" (that send is on
its way to a closed end); "reset" (a read fails once); "broken" (a send is a SIGPIPE, which no
program here handles, so the process ends).  `Reactor` has the same states, and answers
that stay in `pipe` until the client has read them; its sockets block, so `sendfile` waits.

`SelectServer` and `PollServer` are one loop with an index over descriptors, `EpollServer` and
`Reactor` a batch of events handled in any order the kernel may report; a batch keeps the
client it was for as history, so that `NoStaleDispatch` can tell an event that is dispatched to
another connection.  `MCServers` instantiates them, and `IoThreads`, over one set of kernel and client
variables: `program` says which of them runs, a step is a step of that program, and its
fairness is that of its own module.  Each property of it says the same of every program
(`HandledInTime`, `DeathHasCause`, `Served`), in the form that holds of that one; `Programs`
says which programs a run is about:
`select.c` leaves the highest descriptor out of its loop (`i < maxfd`, line 69), so `OlderEchoed`
excludes the client accepted last; `poll.c` passes `maxfd` as the count of an array it
indexes by descriptor (33), so it promises an answer to nobody.

`IoThreads` has the loop and one thread per connection; `overwritten` is a history variable that
turns true when `clientfd` is written while a thread has it to read (`io.c:69` passes its
address), after which one connection may have two threads and another none.  Its properties are
stated for the executions where it does not; `io` checks them in `MCServers`.

## 4. Runs

| run | bounds | shows |
|---|---|---|
| `pool` | 2 workers, 3 tasks, failing creation, 1 spurious wake-up, fair | a worker told to stop never sleeps through the broadcast; no task waits while all that could take it sleep; deletion returns; a pushed task is executed unless no worker was created; the pool implements `TaskPool` |
| `pool_garbage` | 1 worker, 1 task | **violation**: `stop` may start at 1 |
| `table` | 2 clients, 2 streams, 1 descriptor, 1 fault, epoll that may report anything | one stream per peer; no connection overlooked by a sleeping `naccept`; a lookup finds its stream unless one was removed under it; until a lookup goes astray (`stray`), a descriptor names one open stream, a stream that was found is not freed under the call, and the stack implements `StreamLifecycle` |
| `faults` | 1 client, 3 units in segments of up to twice the buffer, 1 fault, epoll that may report anything | types; `nrecv` misses no wake-up |
| `live` | 2 connections in turn, 2 units in writes of 1 or 2 segments, no fault, fair | payload delivered in order and once, every payload with PSH taken and no other lost, no ack runs ahead, every FIN answered |
| `close` | 1 connection, fair | **violation**: a stream may stay in LAST_ACK for ever |
| `ring` | 2 producers (one fixed, one variable), 1 single consumer, 4 slots, indices modulo 8, calls of 1 or 2 items | slots are never shared; a call is refused only for cause; somebody always has the turn; implements `BoundedFifo` |
| `udp` | 2 peers, 2 datagrams and 1, empty or longer than the buffer, rings of 2, 1 failed allocation anywhere, fair | no missed wake-up; echo private to its peer, in order, nothing twice; what can be echoed is echoed whole |
| `pump` | 3 buffers, both kinds of traffic in bursts of 2, rings and queues of 2, 1 reply, 1 ARP request, fair | one owner; every packet taken in is dealt with |
| `startup` | 3 descriptors | what the two races spoil, and that nothing else does |
| `io` | 3 clients, 1 rude, fair | threads do not share a connection, echo is own, only a rude client ends the server, everyone else is answered; unless `clientfd` was overwritten |
| `servers` | 3 clients (2 for `select.c` and `poll.c`), 1 rude, 1 that asks ahead, 2 descriptors for the event loops | no event reaches another connection and no read blocks; what can end a server; responses are whole; who is answered |

**Bounds.**  Two workers are the least for which a signal can reach the wrong one and a task
can be taken twice; three tasks keep one waiting while both run.  Two clients are the least
for which a removal meets a traversal that is not about the removed stream, and for which
two connections compete for a descriptor; two connections of one client are the least for
reuse of a stream, a descriptor and a 4-tuple.  One fault reaches every lost and every
repeated segment singly.  `BufLen` is 1 or 2: what counts is whether a payload is shorter
than, equal to or longer than the buffer; in `faults` the clients are `Polite` (they send the
next segment when the last was echoed), which leaves the state space of an epoll that may
report anything within reach.  In `ring`, four slots hold three items, so that two calls of
two never fit together and a variable call is granted in part; indices modulo 8 wrap after two
rounds; the consumer is the `out` ring's, which is single; that several consumers
keep apart is proved.  In `udp`, a buffer of 4 units with a header of 2 cuts a datagram of 5 in
two parts with a terminator, and an empty one is a header alone; other lengths are covered by the
proofs.  Three buffers are one in each ring and one in hand, or a burst of two and one more.
Two descriptors for three clients force a descriptor to be reused; `select.c` and `poll.c` have
enough descriptors, since neither checks `accept`.
Deadlock is not checked where it says so: when the clients have used up their connections,
datagrams or requests, when no task comes, and when a signal or `rte_exit` has ended the
program, the system rests.  A ring never does, and `ring` checks it.

**Fairness.**  `ThreadPool`: every thread that can run keeps running, and the calls under
way go on; no one has to push or delete.  `UstackTcp`: weak fairness of both lcores and of
the clients' TCP; strong fairness of `PktRecv(c)` and `PktOut`, which are disabled while
the lcore is inside a handler: the loop of `pkt_process` alternates a burst of packets
from a FIFO ring with a pass over the send rings and neglects neither.  `UstackUdp`: the same
loop, hence strong fairness of taking a packet and of `PktOut`, and of `PktSignal`, which waits for a
mutex that is free again and again; weak fairness of the server.  `PacketPump`: the packet lcore goes on.
`UstackStartup` has no liveness.  `PayloadTaken` and `CloseAnswered` also rest on `EpollReady`,
which the kernel's epoll gives for no descriptor of the stack.  The servers: their threads go on, since the kernel
reports what is ready; in `Reactor` a client goes on reading, and there and in `EpollServer` one
that was answered leaves in the end, without which the descriptors would not suffice.  `RteRing`
needs none: that a call waits for its turn in no circle is the invariant `TurnComes`.

**What was found.**  Two runs check what the repository says and refute it:
*`pool_garbage`*: `thread_pool.c:92` clears the size of a pointer, so `stop` keeps what
`malloc` returned and a worker may leave at once.
*`close`*: `nclose` enqueues the FIN (1538) before the status is LAST_ACK (1539); if the
client's ACK is processed in between, `ng_tcp_handle_close_wait` ignores it, no other will
come, and the stream is never removed.

Other behaviour that the models show, for which no line of the repository says otherwise; the
properties state what holds in spite of it:
- `ng_tcp_handle_established` signals the application (1797-1801) before it sets `snd_nxt` (1912),
  and `nsend` never advances it (1320): an answer built in between carries the number of the
  previous one, and the client takes it for data it has.  No property is about what a TCP
  client gets back.
- `ng_tcp_handle_established` drops data without PSH (1839), hence all but the last segment of a longer
  write (section 3.2).
- The walks of the table read streams that were freed under them (896-897, 921-922).
- A descriptor goes back to the bitmap at `nclose` (1542) while its stream keeps it until the last
  ACK, so for that time two streams may have one descriptor, and a lookup can return the
  one that is freed next (`stray`, section 3.2).
- `tcp_from_king.c:2719` and `792`, `802` give buffers two owners (`spoiled`, section 3.5).
- Two lcores may take the same descriptor (874) or make two tables (409): `mixed`, section 3.6.
- In the ring, a producer reads `prod.head`, others move it and a consumer passes the old value;
  the free entries it computes may exceed the capacity, in spite of the comment at
  `rte_ring_generic.h:79`.  The compare and set then fails, so nothing comes of it:
  `RefusedForCause` and `SlotsApart` hold.
- `io.c:69`, `select.c:69` and `poll.c:33`, section 3.7.

Every property of a passing run has a mutant of the code in `PROJECT.json` that breaks it
(a forgotten signal, a broadcast that is a signal, a status set too early or too late, a
traversal that skips the head, an off-by-one in a count, and so on).  The mutated forms stand
before the definitions they mutate, under comments that begin with "Mutant".

## 5. Proofs

TLAPS proves the following for every value of the constants that satisfies the assumption
of the module (`PoolAssumption`, `UstackAssumption`, `RingAssumption` and `SingleAssumption`,
`BurstsAssumption`, `UdpAssumption`, `PumpAssumption`, `StartupAssumption`, `IoAssumption`).  They say what
the code fixes: sets that are disjoint or finite, sizes that are positive, a width of the
indices that is a multiple of the ring's size, one thread on a side with single-thread calls, a
buffer that is a multiple of the allocator's alignment, a header smaller than that, bursts
that a caller's array holds.

*Lists* (`LinkedListProofs`): what insertion and deletion do to the items, their order
(`DeleteItems`), their distinctness and the set of them (`InsertItems`,
`InsertDistinct`, `DeleteMembers`), what a traversal returns (`FirstInSet`, `LinkType`), and what is
before its cursor after each of these (`BeforeFirst`, `BeforeSuccessor`, `BeforeInsert`, `BeforeDelete`).

*Thread pool* (`ThreadPoolProofs`): `TypeCorrect`, `StopIsNotLost` (`NoLostStop`),
`TaskIsNotLost` (`NoLostTask`) and `Refinement`: the pool implements `TaskPool`
(`ImplementsTaskPool`).  None of these is inductive.  `NoLostStop`: that a worker read
`stop = 0` a moment ago says nothing unless the mutex it holds keeps the broadcast away.
`MutexInv` says who holds the mutex where, `SleepInv` where a sleeper is, `ListInv` what a
worker that holds the mutex knows of the list, `OwnerInv` how far creation and deletion
are, and `StopInv` extends the promise to a worker that is about to sleep.  `NoLostTask`
follows from their conjunction step by step (`StepNoLostTask`): inserting hands the duty to
the caller who has yet to signal, a signal wakes a sleeper, and a worker goes to sleep only
on an empty list.  `Refinement` needs two more: `CloseInv`, that after the broadcast every
listed worker is stopped, so none takes a task; and `TaskInv`, that a task is in one
place only (not yet pushed, in the list once, with one worker, or done).  `StepPromise`
then maps each step: `PushInsert` to `Submit`, `WorkerTake` to `Start`, `WorkerRun` to
`Finish`, `DeleteBroadcast` to `Close`, every other to a stutter.

*TCP* (`UstackTcpProofs`): `TypeCorrect`, `StreamPerPeer` (`OneStreamPerPeer`) and
`WakeUpIsNotMissed` (`RecvNotMissed`), for any
number of clients, streams, descriptors and faults.  `TableInv` says which streams are in
the table, that the listener always is, and that a half-made stream is the only other in
LISTEN; `PktInv` that a handler's stream stays in the table until it removes it; `PlaceInv`
that the application never takes the listener for a connection, which keeps `nsend`,
`nrecv` and `nclose` off it.  The step that could break `StreamPerPeer` is a SYN: a
stream is made only if the search fell back to the listener, that is if no stream in the
table has this peer (`SearchFinds`).  `RecvNotMissed` rests on `RecvInv`, which starts where
`nrecv` has found the ring empty and has not yet slept: a payload that is enqueued there
(outside the mutex) is one whose signal is still to come, since the signal needs the mutex.

`LookupIsComplete` (`LookupFindsOpen`) and `AcceptIsNotMissed` (`AcceptNotMissed`) are about walks of a
list that changes under them.  `Passed` is what a walk has behind it: the items before its cursor
(`Before`, of `LinkedListProofs`), the whole table when it has come to the end, and nothing
once its cursor's stream was removed (`cut`).  `FindInv` and `AcceptInv` say that nothing of interest
is there: a step of the walk adds the stream it has just looked at (`BeforeSuccessor`), an insertion
adds one at the front, hence behind the cursor, which is harmless because a stream just made has no
descriptor and is half open (`BeforeInsert`), a removal only takes away (`BeforeDelete`).
`FieldInv` has what each lcore knows of its stream whatever the other does.

`DescriptorNamesOne` (`FdNamesOne`) and `FoundStreamIsLive` (`FoundStreamLive`) follow from `UseInv`,
which holds until a lookup goes astray.  `HoldInv` says that the stream of a call is in the table, not in
LAST_ACK, and has the descriptor of the call; and that `nclose` is called, and stays, in
CLOSE_WAIT, since `nrecv` returned the empty payload of a FIN (`PayloadInv`: no other payload is
empty).  `HandlerInv` says that the packet lcore's handler finds the status it began with, which
holds because the application writes a status only in `nclose`, in CLOSE_WAIT.  `FdInv` ties the bits to
the streams.  None of the three is inductive alone.  `LifecycleImplemented`
(`ImplementsLifecycle`) then maps every step: `ConnectionOf` reads a client's connection off its
one stream, and each action of either lcore moves one client or none.

`AcksWereSent` (`AckedWasSent`) and `PayloadInOrder` (`DeliveredInOrder`) are about the numbers.  Both
speak of the time in which the wire has neither lost nor repeated a segment (`faults = 0`; how many
it may is free) and no lookup went astray (`~stray`: the application could enqueue a fragment
of a closed stream once the stream serves another connection).  The code
compares no `sent_seq` with `rcv_nxt`, it adds to `rcv_nxt` the length of what comes; so that `rcv_nxt` is right
must follow from what is under way.  `KindInv` says which segments clients send and which of them a
handler has in hand, `FreshInv` that a stream begins with empty rings, `SenderInv` that the application sends
on a stream that had payload and was not closed.  `TalkInv` is the heart: the segments of a
client on the wire are a chain of numbers without a gap, from what its stream has counted
(`rcv_nxt`, and `Uncounted`, what was skipped for lack of PSH, or a handler has taken and not counted) to what the client has sent
(`StreamInv`); a SYN comes last on it and only when the old connection is over (`WireInv`); a FIN is
answered by one FIN, at the end (`ToClientInv`, `RingInv`); and no ack on the wire to the client, in
the send ring or in the hands of either lcore is beyond what was sent (`PacketInv`, `FragmentInv`).
None of these is inductive alone: that acks are right needs the chain, that the chain begins at
`rcv_nxt` needs that a new SYN meets no segment of the old connection, and that needs the order of
the FINs.  `PayloadInOrder` adds `OrderInv`: what was taken and what waits in the ring is in order
(`Numbered`), as many units as were accepted (`Arrived`: `rcv_nxt` without the SYN and the FIN, and with what
is enqueued and not yet counted), all of them among the first `Arrived` and `skipped` units that were sent.
So the units missing from it are exactly as many as came without PSH.  It assumes `MaxSeg <= BufLen`: a payload larger than the buffer of `nrecv` goes back to
the end of the ring, behind later ones, as in `UstackUdp`.

*Ring* (`RteRingProofs`): `SlotsAreApart` (`SlotsApart`) and `RefusedRightly`
(`RefusedForCause`), for any numbers of threads, any size, width and bursts.  The state holds
remainders, of which no order can be said; the invariant says that there are numbers that
never wrap, of which they are the remainders (`Wraps`), and orders those (`Ordered`): consumers
behind producers, by at most the capacity.  `ReadInv` is about calls that have read a head: it
is not a lap behind, and if it has not moved, what was granted is still there, since the
other side's tail only goes up.  `BusyInv` and `ApartInv` say that calls in progress hold
disjoint parts between tail and head; from these `SlotsApart` follows because two numbers less
than `Size` apart do not share a slot.  The lemmas on remainders (`ModSplit` ... `ModMod`) are
what the provers lack on `%`.

`ATurnComes` (`TurnComes`) needs `CoverInv`: the calls in progress on a side leave no gap between tail and
head, so one of them begins at the tail.  `RingIsFifo` (`ImplementsFifo`) shows that the ring implements
`BoundedFifo`: the queue is what the slots hold from the consumers' head to the producers' tail.
`DataInv` says what a call holds, above all that a producer that has copied finds its items in its
slots until it publishes them.  `Window` is what the slots hold from an index; a producer's copy
writes outside the queue and outside what consumers have yet to copy (`DisjointSlots`, and the order
of the indices), so it changes neither.  Then `Publish` of a producer is `Put`, `Move` of a consumer is `Take`, a call that
begins or is refused is `Ask`, `Refuse` or `Return`, and every other step is a stutter.

*UDP* (`UstackUdpProofs`): `WakeUpIsNotMissed` (`RecvNotMissed`), `TypeCorrect` and `EchoIsPrivate`
(`EchoStaysWithPeer`), and `EchoIsOnce` (`EchoOnce`).  The first: the server holds the mutex from its test of the ring until
it sleeps (`MutexInv`), so what is put in the ring meanwhile is yet to be signalled (`WakeInv`).
`EchoIsPrivate`, for any buffer, header, alignment, ring and payloads: an offload in the ring, or what
is left of one, is `Whole`, which means that its units are of one peer, that a zero is among its
last `H` cells, and that its length is not one that leaves a last part shorter than the
header.  Taking a bufferful keeps the rest whole (`RemainderWhole`: the length keeps its
remainder, so the last `H` cells are never cut); and whatever older text the buffer held, after
the copy its text is of one peer, for either the copy fills it or it ends with the zero
(`TextIsOwn`).  `EchoIsOnce` adds that a unit is in one place: in a datagram of the `in` ring, in an
offload, in the remainder that goes back, in the text of the buffer, or with its peer (`At`).  `Alone`
says that two places with one unit are the same place, and `Known` that what was not sent is
nowhere, without which a new datagram could meet itself.  A step moves units, so each lemma (`OnceTake`,
`OncePutBack`, ...) gives for a place after the step the one its unit came from.  The text is
the place that needs care: older units lie in the buffer behind the zero, and do not count
(`TextIsTaken`).

`EchoIsInOrder` (`EchoInOrder`) is about datagrams longer than the buffer, whose rest goes back to the end
of the ring, behind datagrams that came later, so that parts of several mix in the buffer
and in the send ring.  `Ahead` orders the places of `At`: what the peer has, then the send ring, then the text of
the buffer, then the rest or the offload it came from.  `InOrder` says that the units before
a unit in its datagram are ahead of it.  It needs two more.  `SolidInv`: the units of an offload come before
its other cells, or else a part could end its text before its last unit.  `LocatedInv`: while no
allocation failed, whoever has a datagram under way is in the ARP table, or else `udp_out` would
put an echo at the end of the send ring, behind its successors.  All hold while nothing was dropped
(`Smooth`).  With `Alone` (a unit is in one place), those ahead of a unit with its peer are the ones before it.
The lemmas `...Moves` say where a unit in a place came from, `OutKeeps` and `TakeKeeps` where one
goes.

*Packet pump* (`PacketPumpProofs`): `BuffersHaveOneOwner` (`OneOwner`), for any pool, traffic, burst,
rings and queues.  The invariant counts how often a buffer is in the pool, in each ring and queue and
in hand.  It is inductive with the types and the capacities (`PumpType`), which say that what is
cut at a limit is cut from the end.  The work is in the lemmas about counting: what a sequence loses at
its head or its end, its neighbour gains (`OccursConcat`, `OccursParts`, `OccursTail`), a sequence
without repetition holds a buffer once or not at all (`OccursInjective`), and what the pool gives or
gets (`PlusIs`, `TakeIs`).  Each action then leaves the sum of a buffer as it is
(`Keeps...`), unless the buffer is `spoiled` after it.

*Startup* (`UstackStartupProofs`): `TypeCorrect`, `ServesOrMixed` (`ServesUnlessMixed`) and `UdpIsApart`
(`UdpSurvives`), for any bitmap.  `ApartInv` gives distinct descriptors where scans did not
overlap, `MakerInv` one maker of the table, and none once a caller has it, where calls of
`tcpInstance` did not; `ListedInv` and `TcpInv` carry the stream from its listing to LISTEN.

*Servers with one thread* (`ServersProofs`): `TurnsInTime` (`HandledInTime`), `DeathsHaveCause`
(`DeathHasCause`) and `ResponsesWhole` (`AnswersWhole`), for any clients, requests and descriptors.
`ServersInv` is the invariant of whichever program runs.  The echo servers share `EchoInv` (a
client is behind one descriptor or waits; no request comes back twice) and `RudeInv` (a client that is
not rude leaves nothing behind), kept by the same four lemmas, since a client's step and a call of
the kernel are the same in each (`PeersAlike`, `CallsAlike`).  What a program adds is what it knows
between its wait and a descriptor's turn.  `SelectReady`: what `select` marked stays readable, since only the loop
reads it.  `PollReady`: where `revents` says so there is a descriptor, also beyond what `poll`
looked at, when `accept` has raised `maxfd` in between; this rests on the kernel giving out
descriptors without gaps, which is an assumption on the constants.  `EpollBatch` and `ReactorBatch`: each
descriptor is in a batch once and is open until its turn, because only its own turn closes it,
and `accept` gives out closed ones only.

In `reactor.c`, `ReactorFlow` says whose turn it is on a connection: the parity of what was sent, read or
not, is what `watch` and `sate` say (`ReactorNext`), also on a descriptor that was used before, whose `sate` is
old but looked at only after `recv_cb` has reset it.  `ReactorCounts` bounds what was sent, plus what
is due, by two parts for a request.  So a client to which `send_cb` still writes has not read all its
answers (`ReactorEnd`), which is why a SIGPIPE is never due to one that has.

*Threads per connection* (`ServersProofs`): `ThreadsTypeCorrect`, `ThreadsApart` (`OneThreadEach`) and
`EchoIsOwn` (`EchoOwn`), for any number of clients and requests, and `io.c`'s part of `DeathsHaveCause`.
`OwnInv` follows a descriptor from `accept` through `clientfd` to the thread, `QueueInv` says that a
client gets one thread, `AnswerInv` that a request is unread, with its thread, or answered, and
`LeaveInv` that a client that is not rude leaves nothing behind.

*Only model-checked*: the liveness properties, since liveness under fairness and `ENABLED` are beyond the
provers in use.  Every invariant and every action property of the passing runs is proved, the
ones above under the conditions stated there.

## 6. Not modelled

See `PROJECT.json` for the list of components with reasons.
- TCP: full rings and failed allocations, RST, `nclose` of the listener.
- UDP: more than one host; a remainder that cannot be allocated (1432, written to through NULL);
  that `udp_out` never frees the offloads it sent (1121).
- Startup: the race for the ARP table and the rings, which is that of `tcpInstance` again.
- KNI: packets from the kernel, which the stack never asks for.
- Thread pool: an allocator that overwrites a freed worker before its link is read
  (`thread_pool.c:128`).
- Weak memory, formatting, checksums and byte order, throughout.

Of DPDK only the ring is modelled as code; of the other 1.4 million lines the programs here
use initialisation, drivers and allocation through a handful of calls, whose insides say
nothing about these programs.  The contact list, the word count, the coroutine samples and
`ddos_detect` are sequential programs with no step that another could come between: tests of
their functions reach what could go wrong in them.  `hook.c` does not compile, `thread.c` does not
link and `count_word` is never called; the earlier snapshots of the stack are what
`tcp_from_king.c` grew from.
