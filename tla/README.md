# Verification of JasonHu1/mf

The repository collects the building blocks of a Linux gateway for Thread/Matter
devices: the data structures that keep the devices of the network and drive their
joining (`devices_struct`), TCP and UDP servers and clients (`linux_socket_example`),
discovery of nodes by mDNS (`mdns_parse_example`), a D-Bus client of the
border router agent (`dbus_example`) and a ubus service (`ubus_example`). This
directory holds TLA+ models of it, the TLC runs that check them and TLAPS proofs.
`DD` below is `src/devices_struct/DeviceDefine.h`, `server.c` is
`src/linux_socket_example/server.c`.

## Inventory

| component | source | state | operations | what is hard | what makes it correct |
|---|---|---|---|---|---|
| joining queue | DD, `JoinRingQueue` | doubly linked list, traversal cursor `mcurr`, `mcount` | push back, pop front, remove, clear, element at position, next element | the cursor against removals, stale back links, count against links | the list holds what was queued, the cursor never dangles, every node gets its turn |
| node joining state | DD, `Node` and the `JOIN_STAGE_*` macros | one 32-bit word: stage, status, resend count | get/set stage, status, count | carries between fields, an uninitialised word, leftovers of a stage | three independent fields; the status contains FULL exactly when all is reported |
| device data tree | DD, `Attribute`, `Cluster`, `EndpointType`, `Node` | vectors of endpoints, clusters, attributes | add endpoints, create clusters, update, find | duplicates from resent requests, search and append by two threads | a read gives the last reported value |
| device registry | DD, `Devices` | map from MAC to `shared_ptr<Node>`, a mutex | add, remove (locked); three lookups and a copy (unlocked) | lookups that overlap a writer restructuring the map, raw pointers | a pointer is good until its node is removed |
| TCP servers | server.c | table `client_fd`, descriptor sets or interest list | select, poll and epoll loops | readiness that is stale when used, reuse of descriptors, failing calls | table without stale or double entries; clients are accepted, read and released |
| TCP clients | `client_nonblocking.c` | one socket | connect, with a time limit in the non-blocking client, then receive for ever | answer, first data and end of the connection race with `select()` | a refused connection never passes for a good one; nothing sent is lost |
| UDP echo | `udp_blocking.c` | the listening socket, one socket per echo | receive, echo | descriptors used up | what is echoed, in which order, and until when |
| mDNS discovery | `mdns_parse_example` | the parser's delegate; the data of the packet being parsed | register, start, parse records, report | delegate set after the start, on another thread; records in any order, malformed, of two nodes | reports say what the records say; no call through a null delegate once registered |
| D-Bus client | `dbus_example/otbr_object.cpp` | connection, variables of `main`, iterators and replies | query six properties, unpack, print | error replies, replies of other types, values of earlier replies | a good answer is printed; what stays allocated is known |
| ubus server, client | `ubus_example/ubus_server.c`, `ubus_client.c` | connection, event loop, retry timer, a global buffer; the chain of queries | publish, reply, reconnect; look up, call; store and ask next | connection or daemon lost at any step, overlapping chains | the loop never goes deaf, the object comes back, calls end, replies are exact |
| libubox lists, trees, messages | `ubus_example/lib/inc/libubox` (`list.h`, `avl.h`, `blob.h`, `blobmsg.h`, `utils.h`) | linked nodes, tree list and counter, attribute buffer | the inline functions and the loop macros | deletion inside a loop, splicing, padding, byte order, lengths from outside | lists are sequences, loops are exact, messages read back |
| other headers of libubus, libubox, json-c, ubi; build templates | `ubus_example/lib`, `makefie_example` | none of the program's own | | | interfaces of binary libraries and make files: outside the project |

**Interactions.** A gateway thread puts a `Node` that starts joining on the joining
queue, and sweeps the queue to resend requests; each answer of the device updates the
node's joining word and its data tree; the registry is how every thread finds the node.
The classes share no lock: only the registry has one, and only its writers take it. The
code that calls the classes is not in the repository, so a model lets any caller make
any call in any order, unless a comment of the class fixes the usage (the sweep). The
servers interact with the kernel and with clients only, and the other programs each with
one peer: a server, the network, the border router, the ubus daemon. The ubus programs
are built on libubox: the contexts of libubus keep their requests in its lists and their
objects in its trees, and every message is one of its blobs.

## Modules

| module | stands for | remarks |
|---|---|---|
| `JoinQueue` | what a joining queue promises | FIFO arrival, departure from any place |
| `JoinRingQueue` | class `JoinRingQueue`, from DD:292 | refines `JoinQueue` |
| `JoinRingQueueProofs` | | TLAPS |
| `JoinProgress` | what a node's joining state promises | stage, set of reported items, saturating count |
| `NodeJoin` | `mJoinStage` and `mTimeStamp` of `Node`, from DD:48 (macros) and DD:202-242 | refines `JoinProgress` |
| `ServerSockets` | the kernel's sockets and the clients (external), the helper loops on `client_fd` | extended by the three servers |
| `SelectServer`, `PollServer`, `EpollServer` | the three event loops of server.c | |
| `ConnectionService` | what a server promises each connection | `EpollServer` refines it |
| `Devices` | class `Devices`, DD:244-291 | |
| `DeviceTree` | `Attribute`, `Cluster`, `EndpointType`, endpoint list of `Node`, DD:90-200 | |
| `TcpClient` | both clients of `client_nonblocking.c` | network and server external |
| `UdpEcho` | `udp_blocking.c` | |
| `DbusInitiator` | `otbr_object.cpp` | bus and border router external |
| `UbusInitiator` | `scanreq_prog_cb1` of `ubus_client.c` | router and `OtbrManager` external |
| `UbusService` | `ubus_server.c` and `main` of `ubus_client.c`, composed with the daemon | ubusd and libubus external |
| `MdnsDiscovery` | `MdnsParser.cpp`, `tuya_mdns_discovery.cpp` and their headers | the CHIP library external |
| `ListHeap` | the functions of `list.h`, as maps from heap to heap | used by the next two |
| `LinkedList` | a user of `list.h` and its loop macros | refines `EntryLists` |
| `EntryLists` | what lists promise | a sequence per head |
| `AvlTree` | `avl.h` | `avl.c` external |
| `BlobBuf` | `blob.h`, `blobmsg.h`, the byte swaps of `utils.h` | `blob.c`, `blobmsg.c` external |
| `MCServers`, `MCNode`, `MCPrograms`, `MCLibubox` | unions of components that share no state: a variable says which one runs | |
| `NodeProofs`, `ServersProofs`, `ProgramsProofs`, `LibuboxProofs` | theorems about the parts of these unions | TLAPS |
| `DevicesProofs`, `MdnsDiscoveryProofs` | theorems about `Devices`, `MdnsDiscovery` | TLAPS |
| `CommonFacts` | least elements and induction over sets of numbers; sequences as rings, with elements added and taken out | TLAPS, cited by the proofs |
| other `MC*` | | instances and symmetry sets for TLC |

Definitions carry the names of the code. Definitions that a module has only as a
wrong form of the one below it (`CursorNotMoved` next to `CursorAfterPop`, say) are the
mutants listed in `PROJECT.json`; the specifications do not use them.

**JoinRingQueue.** `heap` is the set of allocated elements; an address that is freed
may be handed out again by the next allocation. `next` and `previous` keep their
contents after a free, as memory does. Each operation names the addresses it follows
(`touched`); if one is not in `heap` the action sets `fault` and the process has
crashed: `fault` is the operation's name for a null pointer, `"freed"` for a dangling
one. `returned` is the element `NextElement` or `SpecialElement` last handed out. The
class knows nothing of the caller's copy: when the element is popped, cleared or removed
`returned` keeps the address, and `stale` (history) records that it was freed since.
`ClearAllElements` is the one operation with a loop: `clearing` is its program
counter. A failing `malloc` leaves everything unchanged and is a stuttering step.
`SweepSpec` is the usage the class comment describes: nodes arrive, are popped or
cleared, the cursor advances, and `RemoveElement` is called with the element
`NextElement` has returned. Nothing tells the sweep that this element has gone meanwhile,
or that its address is another element's by now.

**NodeJoin.** A word is the set of its one bits, so masks are intersections and unions,
and shifts move bits out at the width of the type; `Increment` adds one with its carry over
the whole word. `staged` (a stage was set) and `asked` (the statuses OR-ed in since)
are history. Init takes any word, because the constructor does not set the field. A stage
is complete when its status byte contains FULL; a further status bit, which the
interface accepts, makes the byte differ from FULL and takes nothing back.

**Servers.** A connection is a model value with the state of its peer (`peer`), whether bytes
wait (`unread`), its place in the `backlog` and its descriptor (`sock`). `accept` takes the
lowest free descriptor, so descriptors are reused as in Linux. Clients act between any two
steps of the server, where a step is one iteration of a scan. `select()`, `poll()`,
`epoll_wait()`, `accept()` and `epoll_ctl()` may fail when `SyscallsFail`. Which events belong
together (`events`, `Idx`) and in which order they come is left to the kernel. In `PollServer`
the entries of empty slots, which the code never writes, have arbitrary results. The last slot
is never set to -1: as a static array `client_fd` has 0 there, the standard input (`Stdin`).
When `poll()` fails the scan runs on what was in `revents` before, and a `read(0)` for which
nothing waits does not return (`ScanBlocks`, `pc = "blocked"`) until something is typed
(`StdinReturns`). As committed, the poll and epoll functions do not compile (missing epoll
header, `MAX_EVENTS`, `POLLRDHUP`, `false`, and calls of `handleReceiveData` with a different
arity); they are modelled with the missing declarations supplied. `FD_ISSET(-1, ...)` on an
empty slot is undefined; either answer leads to the same state, because `read(-1)` fails and
the first empty slot is emptied again. `socket()`, `bind()` and `listen()` failing end the
process before the loop and are left out.

**Devices.** Objects are allocations. `shared`, `raw` and `copied` are what a thread
holds: a `shared_ptr`, a bare pointer, a copy of the map. A writer takes two steps: it enters
`insert()` or `erase()`, holding the mutex, and it returns with the map changed. The mutex
keeps writers apart only: a lookup begins, its iterator moves along the map, it returns, all
of it between any two steps of a writer. A library call of a lookup (`find()`, `begin()`, `++`,
the copy) that falls between the two steps of a writer that changes the map
(`Restructured`) reads a tree which is being rebalanced, and a lookup may stand on an element that
is being erased or has been. Both are data races, after which `corrupt` stops the
model (`Races`). `removed` records the nodes that `RemoveDeviceNode` took out.

**DeviceTree.** Vectors are sequences, the attributes' values abstract. Search and
`push_back` of `AddOrUpdateAttributeData` are two steps of a thread (`adding`).
`latest` is history: the value last reported for each path.

**TcpClient.** `cpc` is the system call the client is at, `tcp` the connection as its
kernel knows it; answer, data, FIN and RST happen between any two steps. `select()`
returns what is ready at that moment, so that all races of line 116 are there. As
committed the file does not compile: the buffer is declared `rbuf` and used as `rbuff`;
it is modelled as one buffer. `recv()` on a closed descriptor fails for ever and is a
stuttering step, as is `recv()` returning 0 in the non-blocking loop.

**UdpEcho.** Of a datagram its number and its length class (empty, fits, longer than the
buffer) are kept. `sendData` sends through the listening socket but first opens one of
its own: `CanOpen` is the state of the descriptor table. `socket()` may fail for other reasons
as well (no memory, no buffers, the table of the system is full); then the datagram is
swallowed and no descriptor used, which `refused` (history) records.

**DbusInitiator.** A content of memory is named by where it comes from: a property, or
uninitialised, zero, null, garbled, freed. `if(aType = 'v')` is an assignment, so every reply
is entered as a variant, an error text too; what is then read is any type. An array longer than
its variable may garble any other one. A variable is kept byte by byte as far as `main` prints
it: an array shorter than that replaces its first bytes only (`Overlaid`), and what an earlier
reply left behind them is printed too. `dbus_iter_enter_recurse` is modelled call by call:
`Recurse` allocates an iterator and descends, `Unwind` returns to the caller, which frees its
own; `depth` counts the calls that have not returned and `iters` the iterators not freed. The
functions without a `return` statement are taken to return.

**UbusInitiator.** `asked` holds the link at which each started chain is. A reply that
is lost, malformed or an error ends its chain; `stoi()` of a malformed number throws
out of the callback (`threw`).

**UbusService.** The daemon keeps the published object's id and whether it knows the
server's event pattern; it loses both with the connection. `link` is the server's end:
a connection can be lost (`"lost"`) before the server has noticed. `ubus_reconn_timer` is
three steps, because the daemon can go away between them: `ConnectionLost` or
`RetryFires`, `Reconnect`, `Refresh`. The messages of a lost connection that were
already received are still handled. A missing daemon at the start makes `ubus_connect`
return NULL, which both programs use at once (`"crashed"`).

**MdnsDiscovery.** Every value in a record (name, id, port, address) is represented by the
node the record is about, so that a mixture is visible. A record tells its type, its
service, whether its data parses and whether its name holds an id. `init` runs in steps
on its caller's thread while packets arrive on the event loop; a message copies the
delegate when it is constructed, as the code's constructor does.

**Libubox.** `ListHeap` keeps the order of the assignments of each function, because they read
fields that earlier ones changed. Guards of `LinkedList` are what the functions take for
granted: an added entry is in no list, a head whose entries were spliced away is initialised
before it is used again. A loop of `AvlTree` has no such guard. Its condition recognises the
bound by the pointers of the neighbours, so it misses a bound that the body has deleted and, in
a `_safe` loop, one from which an insertion has parted the saved element (`Parts`); `lost`
(history) records that. The loop then goes on from node to node and hands the list head to its
body as if it was an element (`RangeFault`). The two searches of `acl_for_each` may find
nothing: it reads through NULL or never meets its bound (`Astray`). An element that a loop has
deleted is not inserted again before the loop ends; this is a bound of the model. `BlobBuf`
keeps lengths exact (header, name, padding, wrap-around of an unsigned subtraction) and numbers
as tuples of bytes on a little-endian machine. A received message has any number of bytes, not
only full words, and arbitrary length fields.

## Runs

Every passing run finishes its whole state space. Bounds are constants of the cfg.

| run | instance | shows |
|---|---|---|
| `queue` | 3 addresses, any calls of queued elements | links, count and memory agree (`WellLinked`); the cursor never dangles; no access to freed memory; only `RemoveElement` and `SpecialElement` can crash (the latter on an empty queue or when asked for what follows the last element); the list implements `JoinQueue`; `ClearAllElements` ends |
| `queue_sweep` | 3 addresses, sweep only | the sweep crashes only with an element that was freed since it got it (`CrashNeedsStale`); when arrivals stop, every element that does not stay last is returned or removed, unless the sweep crashes |
| `queue_tail_skipped` | 3 addresses, sweep | **violation**: the last element is never returned (DD:401) |
| `queue_remove` | 3 addresses, any calls | **violation**: removing the tail under the cursor follows a null pointer (DD:356) |
| `node` | joining: all 256 counts, 3 stages, 8 statuses, 4 initial words; data: 1 thread, duplicated endpoints and clusters, 2 attributes, 2 values | the packed word implements `JoinProgress`; the status of a stage contains FULL exactly when each of its items was reported; a read gives the last report and no attribute is twice in a cluster |
| `tree_threads` | 2 threads | **violation**: an attribute is appended twice (DD:116) |
| `servers` | select: 3 clients, `MAX_ACCEPT = 3`; poll: 2 clients, `MAX_ACCEPT = 2`; epoll: 3 clients, `MAX_ACCEPT = 2`; descriptors up to 5; calls fail | every table sound; select: only reset connections dropped, slots served, waiting clients accepted; poll: a client with a slot is read, or loses the slot, or the server is stuck in a read of the standard input; epoll: events belong to the connection that raised them although descriptors are reused, interest list = open sockets, `ConnectionService` kept and, unless the server exits, fulfilled |
| `servers_closed` | as `servers` | **violation**: a client of the select server that closed keeps its slot for ever (server.c:162) |
| `devices` | 2 threads, 2 objects, 2 MACs, 2 node ids | as long as no lookup has overlapped a restructuring of the map: nodes live exactly while held, a raw pointer is good until removal, iterators stand on elements; lookups end |
| `programs` | TCP client: 2 chunks; echo: 3 datagrams, 2 descriptors; D-Bus: every kind of reply, nested once, variables of 3 bytes of which 2 are printed; chain: 3 overlapping starts; ubus: 2 clients, 2 faults, 1 event; all calls may fail | `OutcomeIsReal`, `ClosesAfterLastChunk`; `EchoIsLimited`; `OneIteratorPerQuery`, `AnsweredIsPrinted`; `KnownIsPrefix`; `ReplyIsExact`, `NeverDeaf`, `ObjectComesBack`, `ClientEnds` |
| `mdns` | packets of up to 3 records about 2 nodes, 2 addresses per node, 2 resolvers | the last SRV and the last address record decide; the first addresses are kept; a resolved node is usable and, if the packet is about one node, consistent; a null delegate is met only by packets that begin during `init` |
| `libubox` | 2 lists and 3 entries; a tree of 4 elements with a duplicate key; messages of 3 attributes nested up to 3 deep; received messages of 5, 14 and 16 bytes | lists are rings that implement `EntryLists`; tree list, counter and root agree; loops are exact while elements come and go, as long as a tree range keeps its bound; messages read back what was written; a bounded loop over a received message stays inside it, up to the last 3 bytes of a header when the size is no multiple of 4 |

**Why the bounds are enough.** *Queue:* an element is head, inner, tail, or the only one, and
the cursor is before, on or after it; three elements give all of these, and two queued ones
leave an address to be freed and handed out again. The proofs hold for every number of
addresses. *Joining word:* the counter runs over all its 256 values; the stages are those with
status items and one without, the statuses single bits and a pair; clean, full and mixed
initial words. The proofs cover the rest. *Servers:* slot 0 holds the listening socket and the
last of the `MAX_ACCEPT + 1` slots is never initialised (the loops stop one short), so
`MAX_ACCEPT = 3` leaves two for clients; with `MaxFd = 5` there are two client descriptors for
three clients, so descriptors run out and are reused; `MAX_ACCEPT = 2` fills the table with one
client. Temporal properties are checked for one connection, which stands for all: the
specification treats them alike. *Devices:* two MACs give a first, a last and a next element;
two objects let a node be replaced while the old one is held; more than two threads add no pair
of conflicting steps. *Tree:* the code scans for a first match, and two entries tell first from
last. *Programs:* an array has no byte, fewer than are printed, as many, as many as fit, and
one more; two chunks let data arrive before, with and after the end of a connection; one
datagram more than there are descriptors; with two clients of the ubus server one call waits
behind another and the buffer is used twice; with two faults a connection is lost in `main` or
in the loop, and again while the server reconnects. *mDNS:* three records overflow two
addresses and put any record between an SRV and an address record. *Libubox:* three entries are
first, inner and last while another list is spliced in; two equal keys between two others give
empty, single and longer ranges with neighbours on both sides; the values have every padding
and every width; a received message ends with a full word, or with one or two bytes of one.

**Deadlock** is not checked where the program may legitimately be over: the queue after a
crash, the servers after a failing call has made them leave the loop, the registry after
undefined behaviour, the programs of `programs` when they have returned or every peer is
silent, the parser after a call through a null delegate, and the users of libubox, who
may stop calling.

**Fairness**, and why the code gives it:

- `ClearAllElements`: a loop of a running thread goes on (weak).
- Sweep: the class comment says that the queue is traversed without pause (weak, on
  `NextElement`).
- Servers: the waiting calls return, with a timeout or an event, and the scan does not
  block, with the exception of poll's read of the standard input, for which
  nothing is assumed: weak fairness of the server as a whole. For poll also strong fairness of a
  successful `poll()`: it does not fail for ever. Clients have none: they may go silent.
- Registry: a thread in a lookup continues, and a writer in `insert()` or `erase()` returns
  (weak, for each thread). Nobody has to start
  an operation.
- ubus server and clients: they are scheduled, `uloop` delivers what is ready, the
  retry timer fires, and `ubus_invoke` has a timeout (weak). The daemon has none:
  it may stay away. `ObjectComesBack` assumes that it is up from some time on. The TCP
  client, the echo server, the D-Bus client and the chain of queries have safety
  properties only.

## Proofs

The proofs hold for every value of the constants that satisfies the named assumptions of the
modules, all of which TLC evaluates in the runs. Those that are more than types:
`NullAssumption` of the queue and of the parser (nullptr is neither an address nor a message),
`SelectAssumption` (the table of the select server has a place for the listener),
`ByteAssumption` (stages and statuses are bytes, initial words are words), `ListAssumption` and
`AvlAssumption` (finitely many heads, entries and elements, all of them different addresses,
none of them null; keys are integers, compared as such), `BlobAssumption` (a received message
has some bytes, its lengths and those of names are not negative), `ValuesAssumption` (a value
is as wide as its type, a string has no zero in it) and `LengthAssumption` (all that the writer
may add together stays below `Wrap`, the range of the model's length arithmetic: the header
functions do not check for more). One theorem, `ReadsAlwaysLastReport`, has a hypothesis of its
own: `OneThread`.

Where a fact is by induction (least descriptor, first free slot, first of several equal
entries), the library's schemes cannot be used, because they take an operator; `CommonFacts`
therefore proves that a non-empty set of naturals has a least element, and applies
it to the set of the counterexamples. The proofs about the unions rest on the proofs of their
parts: a part that does not run stutters.

**JoinRingQueueProofs.** For every set of addresses, finite or not: `TypeCorrect`,
`ListWellLinked`, `CursorNeverDangles`, `MemorySafe` (no access to freed memory, and null
pointers only in the two known places), `ListIsQueue` (the class implements `JoinQueue`),
`SweepSafe`. No one of these is inductive alone. The invariant is `Inv == TypeOK /\ WellLinked
/\ NoDanglingCursor /\ OnlyKnownCrashes`: that `PopFront` may follow `mhead` needs `mcount > 0
=> mhead # nullptr`, which is a consequence of `WellLinked`; that `WellLinked` survives
`RemoveElement` needs that back links of inner elements are right, although the head's is not
(`PopFront` leaves it dangling) - which is why `WellLinked` says nothing of the head's back
link; and `MemorySafe` follows because all touched addresses are elements of the chain or null.
`WellLinked` is existential, so the proof picks the sequence q of the pre-state and gives that
of the post-state: q with the new element appended, its tail, or q without one position. These
three facts are lemmas about plain functions `next` and `previous`, free of variables.
`ListIsQueue` maps the list to the sequence `WellLinked` speaks of, which is unique
(`ChainUnique`): heads are equal, and equal elements have equal successors. The three lemmas
then say that `PushBack` is `Arrive`, `PopFront`, `RemoveElement` and each round of
`ClearAllElements` are `Leave`, and everything else stutters. `SweepSafe` is `SweepSpec =>
[]CrashNeedsStale` and needs `SweepInv`: unless it is stale, the element last returned is
queued and the cursor is its successor or null, so removing it neither follows freed memory nor
meets the cursor on the tail. A stale element may have any place in the list when its address
is in use again, which is why nothing more can be said.

**NodeProofs.** Of the joining word: `TypeCorrect`; `PackedWordIsThreeFields`, i.e. `Spec`
implements `JoinProgress` for all stages, statuses and initial words, where each action is
shown to map to an abstract step or a stutter, and the only subtle case is the increment: the
carry stops within the low byte because the code tests for 0xFF first; and
`FullIsExact` (the status contains FULL exactly when each item was reported, and equals it as
long as nothing else was), from the invariant `StatusIsHistory` (once a stage is set, the
status byte is the union of what was reported since). Of the data tree:
`ReadsAlwaysLastReport`, for one thread. Its invariant `TreeInv` adds to the property
`PendingIsFresh`: between the search of `AddOrUpdateAttributeData` and its `push_back`,
the searches would still end at the same cluster and find no such attribute
there. With two threads this is what fails (run `tree_threads`); with one it survives because
nothing else is appended meanwhile. The lemmas are about first matches: appending an
endpoint, a cluster or an attribute whose key is already present does not move the first match of
any key, and one whose key is new moves only that of its own key, from nothing to the end.

**ServersProofs.** `NetInv` is what the three servers need of the kernel: descriptors
and connections correspond one to one, and the backlog holds each waiting connection once.
`TableInv` says the same of the slots and gives `TableIsAlwaysSound`. The select
server needs `ScanIsFresh` (a client's descriptor that `select()` reported and whose slot the scan
has not reached is still readable), from which
`OnlyResetIsDropped` follows: `read()` is only called where it does not return
"no data yet". For the epoll server the set of unhandled events has at most one event per
descriptor, and every one of a client names the owner of its descriptor; together with the
interest list that is inductive, because a descriptor is closed only while its
own event is handled, and is therefore reused only when no event of the batch mentions it any more
(`EventsStayCurrent`, `InterestStaysExact`). `PromiseIsKept` is the refinement of
`ConnectionService` without its fairness: `PromiseSafety`, of which `KeepsPromise` is the
conjunction with the liveness.

**ProgramsProofs.** One invariant for each program. `ClientInv`: which states of TCP each
program point allows, and that data exist only on an established connection. `EchoInv`: the
datagrams still queued are the last of those that arrived; what was echoed comes from the first
ones that carry something and were not `refused`. `DbusInv`: the iterators that are not freed
are the outer ones of the queries so far and, while `dbus_iter_enter_recurse` is under way, one
for each call that has not returned and the innermost one, which it hands outwards; the bytes
of the variable of an answered query that the answer has replaced are its property's until they
are printed, which the property says only of the printed bytes. `ChainInv`: no chain is more
than one link ahead of what is known. `ServiceInv`: at which program points there is a
connection, a watched descriptor and a timer.

**DevicesProofs.** Neither half of `RawGoodUntilRemoved` is inductive. A raw pointer
comes from a `shared_ptr` that the lookup drops when it returns, so the invariant has to
follow the node from the map into the pointer: `LookupIsFresh`, `GetIsOfMap` and
`RawIsOfMap` say that it was found in the map and is there still or was removed. That a node in
the map is alive is `LiveIsHeld`, an equality: nothing is leaked either. All of it is said as
long as `corrupt` is false, and it stays so while writers are inside `insert()` and `erase()`:
the invariant follows their two steps, and `IteratorStaysAtElement` rests on
`erase()` being the only way an element leaves.

**MdnsDiscoveryProofs.** `MdnsInv` is the conjunction of the four properties with
`Registered` (a server that runs outside of `init` has a delegate), `DelegateIsRead` (so has the
packet under way, or it began within `init`), `SeenIsOfPacket` and `NodeDataIsSeen` (what is
known of the node comes from a record of this packet). `FirstAddressesKept` counts the
addresses up to a record instead of filtering the sequence, so that a record that
arrives adds one to a cardinality.

**LibuboxProofs.** Four parts, each with an invariant of its own.

*A received message.* `AlwaysStaysInMemory`, for any number of bytes and any lengths: a header the
loop looks at begins inside the message, and ends inside it if the size is a multiple of 4;
otherwise up to three bytes behind it are read. The invariant says that the position is
word-aligned, and either the first one or such that position and rest together end before the word
behind the memory (`InLoop`). The first position is the
exception, because the length of the message itself is not to be trusted; there the test
`rem < len` of the loop steps in. A step moves the same padded length from the rest to the
position, and a rest that holds a header then leaves the position before the last word or on it.

*A written message.* `AlwaysReadsWhatWasWritten`, for any attributes, names and values and any
nesting. `BlobInv` says of the writer that every attribute lies where the padded lengths before
it put it and ends where the first attribute behind it starts that is not inside it (`Layout`:
`Offsets`, `Items`, `Heads`, `Closed`); tables that are still open reach to the end, which is
why closing one, and the message, needs no other field than the open table's length. Of the
reader it says (`Reading`) that each of the nested loops is at one attribute and will end at
another, the first behind its table, and that the loop outside goes on exactly there. That
reading inverts writing is then a matter of single attributes: byte order, padding, the header
of a name, the terminating zero of a string.

*Lists.* `Rings` describes a heap by the sequences it stands for: for each head that may be
used, both pointers of every node lead to its neighbours; no entry is twice in them; an
entry in none of them is zero, or points at itself after `list_del_init`; a head whose
entries were spliced away still points at one. One lemma for each function of `list.h` says which
sequences its heap stands for afterwards. `ListInv` is `Rings` of what a reader sees, and
for a loop that runs its `Turn`: what the body has been run for, followed by what lies before
the loop (`Trip`), has no repetition and holds what was in the list when the
loop started, in its order (`Course`). For a safe loop the saved pointer is the
place where it goes on, so that the current element may be deleted or moved to another
list. `ImplementsLists` needs, beyond that, that the seven operations and what loop
bodies do are steps of `EntryLists`; a splice is several moves of the code's
pointers and one step there.

*Trees.* The list of a tree is one ring (`OneRing`), sorted, and counter and root agree with it
(`Holds`). `AvlInv` says so whenever the tree is not being emptied. Of a loop that has not
`lost` its bound it says that the `Turn` of the lists holds up to the bound (`Walking`,
`BoundAt`): the range of `acl_for_each`, found by two searches, may be empty, and its bounds
are then neighbours in the wrong order. The loop condition compares the element behind the
current one with the bound, and is shown to be true exactly while an element of the range is
left (`ContinuesIs`); in a safe loop that needs that the saved element is behind the bound
whenever the current one is, which is what a deletion of the bound or `Parts` breaks. From it
follow where a loop stops (`Stops`), that it does not run for anything behind its bound
(`Bounded`) and, in `acl_for_each`, that every element it ran for has the key (`Keyed`). A loop
that lost its bound only `Strays`: it is at a node of the ring or has read what is none, and
only then can the list head be handed to its body. While `avl_remove_all_elements` runs the
invariant is another one (`Clearing`, `Emptied`): the head is already a ring of its own, the
elements not yet freed still point forwards at each other, and the saved pointer is the second
of them; when the counter reaches zero nothing is left that points anywhere, so the tree can be
filled again.

From the two invariants follow `StructuresAreAlwaysSound` and `LoopsAreAlwaysExact`.

**Only model-checked:** everything temporal under fairness, which is beyond the proof system:
`ClearTerminates`, `SweepVisitsAllButLast`, `SlotIsServed`, `PendingIsAccepted`, the liveness
in `KeepsPromise`, `LookupEnds`, `ObjectComesBack`, `ClientEnds`. Every safety property of the
passing runs is a theorem.

## What the models show about the code

Confirmed by a violation run:

1. `RemoveElement` of the last element while the cursor is on it follows `nullptr` (DD:356).
   The sweep of the class comment does this only with an element that was freed since it got it
   (`SweepSafe`); any caller that removes a queued node at another moment, for example when its
   joining succeeds, can.
2. `NextElement` wraps one element early (DD:401): the last of several nodes is not
   retransmitted until another is queued behind it or it is alone. A single node is the
   head and is served.
3. The select server takes end of file for data (server.c:162): the slot is never
   released, and `select()` returns at once ever after.
4. `AddOrUpdateAttributeData` can append an attribute twice (DD:116).

Seen while modelling, without a run:

- `JOIN_STAGE_BASIC_INFO_SUBCRIBE_STATUS_FULL` is 0xFF, its items are 0x01 to 0x08
  (DD:58), so it is never reached by reporting the items.
- A client accepted while the table is full is neither served nor closed
  (server.c:150); `close()` is called on the slot after it was set to -1, so the
  descriptor leaks (server.c:172).
- Unwritten `pollfd` entries can drop a client accepted in the same scan
  (server.c:234); this is why `poll` promises "read or loses its slot" only.
- The address array of the epoll server is indexed by the event's position, which
  is not bounded by the array (server.c:391).
- `NextElement` hands out an element; if `PopFront` or `ClearAllElements` frees it before
  `RemoveElement` gets it, that call reads freed memory (DD:346, DD:370). The class comment
  (DD:297-300) has nodes leave the queue only when they succeed or time out, but nothing in the
  class keeps a node that the sweep holds, or tells the sweep that it has left.
- A status with any bit beyond FULL never equals FULL; code that compares instead of
  masking waits for ever.
- After a failed `poll()` the scan runs on stale results, and the last slot is descriptor 0,
  because the loops stop one short of it: the server may then block in a read of its standard
  input (server.c:276).
- The lookups of the registry take no mutex (DD:259-286): `find()`, `++` and the copy can run
  in the middle of the rebalancing of `insert()` and `erase()`, and read an element that
  another thread erases. Undefined behaviour (`Races`). `insert()` ignores a node whose MAC is
  known, so a device that joins again must be removed first (DD:250); `mOnoffLine` is a bool
  (DD:239); `Node(eui)` leaves `mNodeId` uninitialised.

- The non-blocking client takes a connection on which data or a FIN is already there for
  a failed one, and leaks the descriptor (`client_nonblocking.c:139`); the blocking client
  closes its descriptor at the end of the connection and goes on calling `recv()` on it.
- Every echo of the UDP server costs a descriptor; when none is left, everything is
  swallowed without a trace (`udp_blocking.c:43`). `EchoIsLimited` says exactly this. A `socket()`
  that fails for another reason swallows that one datagram.
- An array shorter than 16 bytes leaves what was in the variable before behind it, and `main`
  prints all 16 (`otbr_object.cpp:128`, 301, 312).
- `memset` with swapped arguments (`otbr_object.cpp:298`), the assignment in
  `if(aType = 'v')` (line 195), the outer iterator that is never freed, the network name printed
  from a released reply (line 294), an uninitialised channel printed after a failed
  query. `dbus_dataType_parse` and `dbus_dataTye_array_parse` have no `return`.
- After a reconnection the ubus server is no longer registered for its event
  (`ubus_server.c:132`), and if the connection is lost between connecting and publishing
  the object may never come back; without a daemon both programs crash at the start.
- `MDNSResolve::init` starts the server, then clears the delegate, then sets it
  (`tuya_mdns_discovery.cpp:18`): a packet in between calls through null. An SRV record
  that does not parse is used with port 0 (`MdnsParser.cpp:247`).
- `avl.h:453-457` says that the current element may be removed in a safe loop. If it is the bound
  of a range, or if an element is inserted right behind the bound in the last round, the
  condition is never false there: the loop runs on behind its bound, and may hand the
  list head to its body (`avl.h:466`).
- `acl_for_each` does not test what its searches found (`libubus.h:331-333`): in a
  tree without a key that is not below, it reads through NULL; without one that is not
  above, its bound is never met.
- `blob_for_each_attr_len` (`blob.h:258`) reads a header when any byte of the rest is left, up to
  3 bytes behind a message whose size is no multiple of 4.
- The head given to `list_splice` keeps its old pointers.

## Not modelled

Left out of modelled components: the reallocation of vectors (pointers returned by the
`Find` functions), the public vectors `mDevicetypes` and `mEndpointNumber`, which no
operation uses, the contents of messages and client addresses; `dbus_dataType_parse1`,
which nothing calls; of libubox the functions that are only declared (the bodies are in
binary libraries), policies, comparison of blobs, and the headers that no program of the
repository uses. Nothing more of the repository's own code has a state to model:
the rest is printing, declarations of third-party interfaces, make files and scripts.
