# A TLA+ model of the callback HTTP server

The repository is a small pre-forking HTTP file server in C. A main process
accepts connections and passes their descriptors over a socket pair to child
processes, which read, parse and answer requests from an epoll loop. This
directory holds TLA+ modules translated from that code, TLC configurations that
check them, and proofs for TLAPS.

## 1. The system

### Components

| Component | Source | State | Operations |
|---|---|---|---|
| main process | `src/core/epoll_circle.h` | where `start()` is, the accepted descriptors (never closed), `clientfd` | make the channel, fork the pool, listen, wait, accept, hand over, retry, exit |
| descriptor channel | `inc/sock.h` (`S_pipe`, `Sock_fd_write`, `Sock_fd_read`) | queue of descriptors in flight, who holds `fd[1]` | send, receive, close |
| process table | `inc/http_task.h` 23-148, 243-323 | `proc_pool`: nodes with pid, status, `nleft`; `n_proc` | create, insert, delete, replace a dead child, pick a child, mark ready, look up, signal all |
| child process | `inc/http_task.h` 152-238 | epoll interest set, events of the current batch, `clientfd`, one `http_tcp` per descriptor | start, wait, receive a descriptor, read, parse, answer, die |
| request | `inc/http_types.h` | `tcp->buf`, locals of `onRecv()`, the position inside `strtok()`, the fields of `http_request` | allocate, read a piece, parse; `readline_buf()` |
| response | `http_module/http_module.h` | the open file, position, announced length, socket buffer | look the file up, open, stat, write the header, copy the file, log; the error pages |
| reading and writing loops | `inc/sock.h`, `inc/common.h`, `http_module/http_module.h`, `utils/rio_r_w.h` | what is left, where in the buffer; `rio_t` | `Read_s`, `Write_s`, `http_rcv`, `readline`, `rio_read`, `rio_write` |
| threaded loop | `inc/http_io_base.h`, `inc/http_task.h` 114-120 | the globals `epollfd`, `flag_x`; registrations; the batch of events of each thread | `do_epoll()`, `handle_events()`, `do_read()`, `do_write()`, `handle_accpet()`, add, modify, delete |
| listening socket, configuration | `inc/http_epoll.h`, `utils/utils.h`, `inc/sock.h` 157-264 | the lines of `conf/config`, `sockpair`, open sockets | `Open_listen()`, `file_param()`, `open_listenfd()`, `open_clientfd()`; `start()` uses literals and reads no file |
| System V queues | `inc/http_ipc.h` | three kernel queues, the identifiers each process has | create, send, receive, peek, destroy; nothing calls them yet |
| lists and trees | `inc/list.h`, `utils/tree.h` | - | BSD macros; only SLIST is used |

### How they interact

- Main creates `fd[0]`/`fd[1]` (`S_pipe`), then forks; all children share the
  reading end `fd[0]`, non-blocking, and main keeps the blocking writing end.
- A child sleeps two seconds before it closes its copy of `fd[1]`; only when
  every copy is closed does the channel come to its end.
- Main sends one message per accepted connection (`SCM_RIGHTS`). Every waiting
  child wakes; one gets the descriptor, the others get `EAGAIN` and abandon the
  rest of their batch.
- A child stores an `http_tcp` pointer in `epoll_data` for reading, and an
  `http_request` pointer for writing; `epoll_data` is a union, so the number it
  later reads as `data.fd` is part of that pointer.
- Nothing is sent back to main, and children do not talk to each other.

### What is hard

- **Interleaving**: children racing for one message, a hand-over racing with
  deaths, clients that send a request in pieces or close half way.
- **Retry**: `sendmsg()` failing makes main send the same descriptor again, and
  the loop at `epoll_circle.h:117-120` can send it twice.
- **Failure**: a full descriptor table, a signal, a crash of a child, a main
  that exits between `accept()` and the end of a hand-over.
- **Unsigned counts**: in `onRecv()` and `Write_s()` an error looks like a huge
  count, so `nleft` grows and the pointer moves backwards.
- **Stale state**: `clientfd` is the last descriptor received, not the one the
  request came from; a file changes between `stat()`, `fopen()`, `stat()` and
  `fread()`.
- **What outlives a process**: message queues stay in the kernel when their users
  are killed, also half way through removing them.
- **Numbers given out again**: a thread closes a descriptor and then deletes that
  number from the epoll instance, while another accepts a connection with it.
- **`strtok()`**: one hidden position over all the tokens of a request, and a null
  pointer when they run out.
- **Endless waiting**: a directory that never reaches end of file, a socket that
  is always ready, a channel that does not end while a process keeps `fd[1]`.

`PROJECT.json` lists each of these with its line and the properties about it.

### What makes each part correct

- hand-over: what is accepted arrives, once, in order (`ImplementsDelivery`,
  `NothingLost`, `ServedOnce`), and a child can always take it (`ChildHasRoom`);
- child: a request is parsed when it is complete and from one descriptor, its
  pieces in order (`OnlyWholeRequests`, `BytesReadOnce`), children of a dead main stop
  (`OrphansExit`), and the backlog drains (`BacklogDelivered`);
- process table: it names exactly the children (`PoolHoldsEveryChild`), all are
  told to exit through it (`TableReliable`, which is `TableExact` and
  `ToldIfNotCrossed`), the load is spread (`Balanced`);
- response: in order, complete, of the announced length, ended, and the child
  survives it (`Received`, which is `InOrder`, `NothingMissing` and
  `LengthHonest`; `Finishes`, `CrashesExplained`);
- loops: bytes are conserved, and reading stops where it should, but for the
  `'\0'` that `readline()` writes one byte behind a buffer it has filled and for
  its result, which is not the length of the line; both are pinned down
  (`Conserved`; `ReadsStop`, which is `Fits`, `OneLine` and `LineLength`;
  `RioExact`, which is `RioCounts` and `RioPrefix`; `Write_sClaim`);
- parser: the fields are those that were sent, at the right moment, a header's name
  and its value in two entries of `nhead`, and only ill-formed requests, or such
  that do not fit `tcp->buf`, crash it (`ParsedRight`, which is `ParsedAsSent` and
  `ParsedInTime`; `CrashIsIllFormed`, `NheadFits`, `LinesAsSent`);
- threads: one epoll instance (`InstanceReady`, which is `OneInstance` and
  `NeverWithout`), no connection drops
  out of it (`NoneForgotten`), each event is handled, by one thread
  (`EventsHandled`, `HandledOnce`);
- listening socket: `Open_listen()` looks up the address its file gives, spoilt if
  the line begins with a blank, and `start()` its literals (`AddressUsed`), and failed attempts leave no socket behind (`OneSocket`);
- message queues: all processes mean the same queue (`QueuesShared`),
  messages are neither lost nor doubled nor misled (`MessagesKept`, which is
  `RolesKept` and `Accounted`), looking is reliable until
  somebody else acts (`PeekHolds`), the queues come and go together (`AllOrNone`)
  and `destroy_queue()` releases whoever waits on them (`DestroyReleases`).

## 2. The modules

```
Net ── Channel ──┬── Master (with Pool) ──┐
                 └── Worker ──────────────┴── Server ── ServerProofs
                                              │   └── MCServer
                                              └ implements Delivery
Pool ── ProcPool ─┬─ MCProcPool        Response ─┬─ MCResponse
                  └─ ProcPoolProofs              └─ ResponseProofs
StreamIO ─┬─ MCStreamIO                MsgQueue ─┬─ MCMsgQueue
          └─ StreamIOProofs                      └─ MsgQueueProofs
CString ─┬─ Parser ─┬─ MCParser
         │          └─ ParserProofs (with CStringProofs)
         ├─ CStringProofs
         └─ OpenListen ────────┐
DoEpoll ── EventLoop ──────────┴── EpollServer ─┬─ MCEpollServer
                                                └─ EpollServerProofs (with CStringProofs)
```

**Net** is the environment: clients that connect, send the units of one request
and close; a listening socket with a bounded backlog. A unit of data is its
position in the stream, so a request that reached two buffers is told apart from
a whole one. The last unit is the one that completes the blank line.

**Channel** is the socket pair: a queue of at most `ChanCap` connections, the set
of processes that hold `fd[1]`, and `ChannelEof`.

**Pool** has the functions on `proc_pool`, as operators on a sequence of nodes.
`IsFirst`/`IsBest` stand for the loops with their `break`s.

**Master** is `start()` with `init_manager_proc()`: its program counter `mpc` goes
through `pipe`, `fork`, `listen`, `wait`, `accept`, `write`, `retry`. Every
`unix_error()` is the action that ends in `exited`. `WriteFails`, `RetryOk` and
`RetryFails` are the three outcomes in the retry loop. The branches of the event
loop for descriptors other than `listenfd` cannot be reached, as nothing else is
registered.

**Worker** is `jump_task_pool_obj()` for each child. `got`, `reg` and `rcvd` are
indexed by the descriptors the child has received (1, 2, ...); `batch` is what is
left of `events[]`. One action is one round of the loop up to its next system
call: `RecvFd`, `RecvFdFull`, `RecvAgain`, `RecvEof`, `RecvError` are the outcomes
of `Sock_fd_read()`; `BeginRead`, `ReadSome`, `ReadEof`, `ReadAgain`, `Smash` are
`onRecv()`; `ParseIncomplete`, `ParseComplete`, `ParseCrash` are `analasy()` and
what the loop does with its result; `Respond*` are the EPOLLOUT branch. The `else`
at `http_task.h:223`, for an event that is neither, needs a reset and is left out,
as clients close in order here. `fork()` and the entry in the process table are one
step of main (`ForkChild`): the table is private to it.

**Server** interleaves clients, main and children at the granularity of system
calls and states the properties. **Delivery** is the abstract specification: a
queue, filled in the order of acceptance and emptied into children.

**ProcPool** runs the process table by itself, with dying children and every
operation the header offers, in any order, because `start()` calls only the
first of them.

**Response** is one call of `http_module_handler_response()` with a client that
reads at its own speed or resets the connection and a file that other programs
may change; or of one of the five pages that `accept_request()` never leads to,
whose lines are sent with all of `buf` (a line and a padding), or of
`http_module_error()`, which exits in `get_file_length()`. The unit is a line of
the header, or a piece of the body. Of the request the lengths of its method and url
are kept (`chars`), because `accept_request()` prints and copies them into arrays of
`PARTSIZE` and `BUFFSIZE` bytes without a check: a url that fills `url[]` puts its
`'\0'` into `method[]` and is answered with 500, as any request may be, since the
loop over the url runs on into bytes that were never written (`accept_request`); beyond
`BUFFSIZE` (`TooLong`) the stack is overwritten and the child may die
(`StackSmashed`).

**StreamIO** has the six loops that read and write streams, under short counts,
interruptions and errors. `zero` is the byte of the caller's buffer into which
`readline()` puts its `'\0'`, `wasted` its attempts that got nothing but were
counted, and `WriteBreaks` the way out of the writing loops on a count of 0.

**CString** has `strspn()`, `strstr()` and `strtok()` on sequences of characters.
**Parser** uses them for `analasy()`, one action for each `strtok()` call, on
requests that arrive in pieces of any length, and for `readline_buf()`. Here the
characters are the data that matter, so a request is a sequence of them; its
lines come from small sets with one line for each way of being ill formed. An entry
of `nhead` has two members of which the code writes one (`Stored`). The copy that
`analasy()` works on is cut at `BUFSIZE` (`copied`), and a text of that length has
overrun `tcp->buf`, after which the child may crash at any step (`Overrun`).
`readline_buf()` takes the larger of two lengths for its limit, so a line that does
not fit the `maxlen` bytes of its caller ends in the place `lost`. Its
answer to which requests Worker may treat as `bad` is `CrashIsIllFormed`.

**DoEpoll** has the threads that enter the other event loop, with one step for
each access to a shared global. **EventLoop** is what they do in it: `mask` is
the registration of each number in each instance, `edge` what has not been
reported yet, `events` the rest of a thread's batch. `do_write()` is three steps
(write, close, delete), because other threads run in between. Since only the
program around the threads calls `http_handle_accpet()` and `Modify_event()`,
those are actions of their own. **OpenListen** is `Open_listen()` from the
configuration file to the listening socket, or from the literals of `start()`
(`StartHost`, `StartPort`), and `open_clientfd()`.
**EpollServer** composes the three: the threads run once there is a socket.

**MsgQueue** is `http_ipc.h` with processes that call its functions in any order,
die anywhere and are started again. The kernel's queues are `key`, `live` and
`queue`; `arr` is what each process remembers of them.

Definitions that end in `_Something` and carry the comment `Mutant` are altered
forms of the definition below them, used to confirm that a property can fail.

### Abstractions and assumptions

- A number that is half a heap pointer is never an open descriptor (`Junk`).
- `tcp->buf` comes from `malloc()` and is taken to be zeroed (fresh heap pages);
  `strncat()` relies on it.
- Undefined behaviour: the `memset()` in `onRecv()` past its array was tried with
  gcc without optimisation, as the repository's README builds it. The outcomes
  seen are nothing, a crash, and an `nleft` of zero; `Smash` allows all of them.
  After a failing `recvmsg()` the control buffer holds garbage or the previous
  message; `Clobber` allows both. `len` at `epoll_circle.h:75` is uninitialised,
  so `setsockopt()` may fail: `ListenFails`.
- `sendmsg()` on the channel fails only for lack of resources (`ENOBUFS`,
  `ETOOMANYREFS`); the constant `Faults` says which calls may fail in a run.
- In Server a client closes in order; resets are in Response.
- `epoll_wait()` returns ready descriptors in any order, and all of them if they
  fit.
- In Response the send buffer is empty at the start and holds the lines of any
  page (`SockCap >= 10`): some hundred bytes against some kilobytes.
- An `http_request` that is not there (`heap`) stands for a failed `malloc()` in
  `analasy()`. The limit of `fgets()` is not reached by the lines of OpenListen.
  What `strncat()` writes behind `tcp->buf` may do harm (`Overrun`) or none, and
  `readline_buf()` is not followed any further once it has left its buffer
  (`lost`). The lines and bodies of Parser are
  any sets of strings (`TextAssumption`), so its theorems are about every text.
- `getaddrinfo()` knows the names in `Hosts` and `Ports` and no others, and may
  fail on those. The names can be written in the file (`NamesAssumption`): they
  are not empty, a host has no `:` and does not begin with `@`, a port has no `@`.
  An IPv6 address, which has colons, cannot be given in this format at all.
- Writing nothing to a connection that was reset fails or raises SIGPIPE, as
  other writes do; `accept()` gives the lowest free number; `epoll_wait()` reports
  everything that is ready (100 events fit).
- The kernel does not give out the identifier of a removed message queue again.
  In MsgQueue an interrupted `msgsnd()` or `msgrcv()` is one of the ways to die,
  since the code exits on `EINTR`.
- DoEpoll takes memory accesses in program order, which the build without
  optimisation gives on the machines it runs on.
- A child holds four descriptors of its own where main holds five under the same
  limit, hence `MainFdRoom <= ChildFdRoom`.

## 3. The runs

| Run | Instance | Shows |
|---|---|---|
| `safe` | 2 children, 2 clients, requests of 3 units read 2 at a time; every failure except `sendmsg()`; main and each child have room for 2 descriptors | delivery is a queue; nothing twice, a child always has room, requests are parsed whole, exact table |
| `lossy` | 2 children, 1 client, `sendmsg()` may fail, a child has room for 2 descriptors and takes 1 event at a time (batches are in `safe`) | repeated hand-overs: no byte is read twice, each buffer has its bytes in order, nothing is lost unless a child dies |
| `live` | 2 children, 2 clients, channel and backlog of 1, signals, room in `events[]` for all descriptors of a child | orphans exit; the backlog is delivered |
| `response` | files of 0, 2 and 7 units, pieces of 2, buffer of 10, 2 changes of the file; urls that fit `url[]`, fill it and exceed both arrays | order, completeness, length, causes of crashes, termination |
| `pool` | 3 children, 2 replacements, 4 notices | the table under any sequence of operations |
| `streams` | 5 bytes in 3 lines, buffers of 3 and 4, 3 errors | the six loops |
| `parse` | 5 request lines, up to 2 of 7 header lines, 4 bodies, pieces of any length; `BUFSIZE` 26 and `maxlen` 9 | the fields are those that were sent, and where; crashes only on ill-formed or too long text; lines until one does not fit |
| `threads` | 2 threads, 2 descriptor numbers, 3 arrivals, accepts or modifications; files of up to 2 of 7 lines, 2 addresses | the race for `epollfd`, the events shared by the threads, numbers given out again, the address that is looked up |
| `queues` | 2 processes, 3 starts, 2 sets of queues, 2 messages, queues of 1 | sharing, accounting, removal and restart of the message queues |

Three runs state what the repository says of itself and find that the code does
something else:

| Run | The statement | What happens |
|---|---|---|
| `download` | README.md:2, "can provide download files many times" | the response goes to `data.fd`, half of the pointer stored at `http_task.h:209`; no client is answered |
| `polled` | `http_task.h:215`, "clientfd writeable" | the response interest is set on the socket received last |
| `told` | `http_task.h:279`, "TELL CHLD TO EXIT" | `cross_ok()` assigns in its condition and overwrites pids |

More observations, which the models contain and the properties of the passing runs
spell out or leave alone:

- main keeps every descriptor it has handed over and exits when its table is full
  (action `AcceptFails` of Master, reached in `safe`);
- in `http_rcv()` `nread=recv(...)<0` makes every reception look like the end of the
  stream (action `HttpRcvGot` of StreamIO);
- the repository's README.md:20-22 says that editing `conf/config` sets the address
  of the server, but `start()` never reads it: the call is commented out
  (`epoll_circle.h:58`) and the address is a literal (`:73`). `AddressUsed` has both;
- `file_param()` means to skip the blanks and the `@` in front of a line, but counts
  the `@` from the start of the line (`utils.h:146-147`): one character is skipped, so that the `@` becomes part of the address (`ReadAs`);
- `http_types.h:28-31` declares a header and its value as one entry, lines 160 and
  164 put them into two (`ParsedAsSent`);
- `readline()` asked for `maxlen` bytes writes `maxlen + 1` if no newline came
  (`http_module.h:382`), and returns one or two less than the length of the line
  (`Fits`, `LineLength`).

### Why the bounds are enough

Two children and two connections are what it takes for a race over one message,
for a stale `clientfd`, and for an order to be wrong; a channel of one or two
makes main block; a request longer than one read is split over events, and
`MaxNleft` above `READ_COUNT` lets the count grow. Main's descriptor
table fills up in `safe`, a child's by repeated hand-overs in `lossy`; in `safe` a
child has room for exactly what main can have accepted. In `safe` children and connections are
interchangeable and used as symmetry sets; the liveness runs use no symmetry. In
`response` the largest file does not fit the send buffer behind its header, so
`http_send()` has to wait. In `parse` the shortest requests fit a `BUFSIZE` of 26 and
the longest do not, some with their blank line behind the cut, some with their body
only; of the lines some fit a `maxlen` of 9, some do not. In `threads` one reset, one
`Modify_event()` and one accept are what it takes to give a number out again under
a thread that is closing it; two arrivals make two threads handle one connection.
In `queues` six identifiers are two whole sets, so that a set can be removed and
made again while a process still has the old one; the types asked for are "at most
1", so that one kind of message is passed over and a queue of one stays full. Only
the last two queues carry messages there (`Used`): the functions do not tell the
three apart. `MaxNleft`, `MaxChanges`, `MaxPid`, `MaxNotices`, `MaxErrors`,
`MaxOutside`, `MaxIds`, `MaxMsgs`, `MaxStarts`, `MaxHeaders`, `MaxHeap`, `MaxLines`
and `MaxAddrs` are the bounds on what would count up for ever.
`CHECK_DEADLOCK FALSE` is set everywhere because each system may stop: main exits,
all children die, a response ends, clients send no more.

### Fairness

`Server!Fairness` is weak fairness of what main and each child do by themselves:
the kernel schedules every runnable process. Clients, signals, failing calls and
the outcomes of undefined behaviour get none. `BacklogDelivered` speaks of
systems in which some child stays healthy: it is neither dead, nor in a
directory, nor spinning in `onRecv()` on a quiet client, nor holding a
half-finished request whose client has closed (that socket is ready for ever, and
the `break` on an incomplete request can keep the child from the channel event).
Without these conditions the code gives no such guarantee. The run `live` also has
`EPOLLEVENTS` (100 in the code) no smaller than the number of descriptors of a
child, so that `epoll_wait()` reports the channel whenever it is ready; beyond
that it depends on the order in which the kernel reports, which the model leaves
open. `Response!FairSpec`
assumes that the child runs; that the client reads on or resets is a hypothesis
of `Finishes`. `EpollServer!FairSpec` schedules each thread that has something to
do in its loop, and nothing else; `EventsHandled` excludes a race at the start,
after which a connection may sit in an instance nobody waits on, an exit, and a
`Modify_event()` by the program. `MsgQueue!FairSpec` says that the kernel wakes
a process whose queue was removed, and that one in `destroy_queue()`, where nothing
blocks, runs; a process may still wait for ever on a queue that stays full or empty.

## 4. The proofs

TLAPS proves, for every value of the constants that satisfies the assumptions:

| Theorem | Statement |
|---|---|
| `ServerProofs!TypeCorrect` | `Spec => []TypeOK` |
| `ServerProofs!Invariance` | `Spec => []IInv` |
| `ServerProofs!NoConnectionLost` | `Spec => []NothingLost` |
| `ServerProofs!ChildrenHaveRoom` | `Spec => []ChildHasRoom` |
| `ServerProofs!EachConnectionServedOnce` | `Spec => []ServedOnce` |
| `ServerProofs!DeliveryImplemented` | `Spec => ImplementsDelivery` |
| `ServerProofs!EachByteReadOnce` | `Spec => []BytesReadOnce` |
| `ServerProofs!WholeRequestsOnly` | `Spec => []OnlyWholeRequests` |
| `ServerProofs!EveryChildInPool` | `Spec => []PoolHoldsEveryChild` |
| `ProcPoolProofs!TableInvariance`, `TableTypes` | `Spec => []IInv`, `Spec => []TypeOK` |
| `ProcPoolProofs!TableKept` | `Spec => []TableReliable` |
| `ProcPoolProofs!NoticesBalanced` | `Spec => []Balanced` |
| `ResponseProofs!ResponseInvariance`, `ResponseTypes` | `Spec => []IInv`, `Spec => []TypeOK` |
| `ResponseProofs!PageReceived` | `Spec => []Received` |
| `ResponseProofs!ResponseCrashes` | `Spec => []CrashesExplained` |
| `StreamIOProofs!StreamInvariance`, `StreamTypes` | `Spec => []IInv`, `Spec => []TypeOK` |
| `StreamIOProofs!BytesConserved` | `Spec => []Conserved` |
| `StreamIOProofs!ReadingStops` | `Spec => []ReadsStop` |
| `StreamIOProofs!RioCountsRight` | `Spec => []RioExact` |
| `StreamIOProofs!Write_sWritesAll` | `Spec => []Write_sClaim` |
| `EpollServerProofs!EpollInvariance`, `EpollTypes` | `Spec => []IInv`, `Spec => []TypeOK` |
| `EpollServerProofs!InstanceBeforeUse` | `Spec => []InstanceReady` |
| `EpollServerProofs!RegistrationKept` | `Spec => []NoneForgotten` |
| `EpollServerProofs!ArrivalHandledOnce` | `Spec => []HandledOnce` |
| `EpollServerProofs!NoSocketLost` | `Spec => []OneSocket` |
| `EpollServerProofs!AddressLookedUp` | `Spec => []AddressUsed` |
| `ParserProofs!ParserInvariance`, `ParserTypes` | `Spec => []IInv`, `Spec => []TypeOK` |
| `ParserProofs!ParsedAsItWasSent` | `Spec => []ParsedRight` |
| `ParserProofs!CrashesOnlyIllFormed` | `Spec => []CrashIsIllFormed` |
| `ParserProofs!NheadNeverFull` | `Spec => []NheadFits` |
| `ParserProofs!LinesReadAsSent` | `Spec => []LinesAsSent` |
| `MsgQueueProofs!MsgInvariance`, `MsgTypes` | `Spec => []IInv`, `Spec => []TypeOK` |
| `MsgQueueProofs!NoMessageLost` | `Spec => []MessagesKept` |
| `MsgQueueProofs!PeekReliable` | `Spec => []PeekHolds` |
| `MsgQueueProofs!SameQueues` | `Spec => []QueuesShared` |
| `MsgQueueProofs!WholeSets` | `Spec => []AllOrNone` |

They rest on the named assumptions in the modules only (`NetAssumption`,
`ChannelAssumption`, `PoolAssumption`, `MasterAssumption`, `WorkerAssumption`,
`ServerAssumption`, `ProcPoolAssumption`, `ResponseAssumption`,
`StreamIOAssumption`, `DoEpollAssumption`, `EventLoopAssumption`,
`OpenListenAssumption`, `NamesAssumption`, `ParserAssumption`, `TextAssumption`,
`MsgQueueAssumption`), which TLC evaluates in the runs of those modules. Most say that a bound is a number or a set
is finite; the others are in "Abstractions and assumptions" above.

### Why the invariants are what they are

In each proof module `IInv` is the inductive invariant. There is one lemma for
each action, or for each kind of step, and each part of the invariant it can
disturb; steps that leave the variables of a part alone are put together.

**ServerProofs.** `TypeOK` is not inductive: reading indexes `got` and `rcvd` with
a number taken from an event, and nothing in the types says the child has such a
descriptor. `IInv` adds `ChildrenConsistent` (the three tables of a child have one
length, every event and `clientfd` names an entry, a child that is reading has a
current event that is a socket) and `MainConsistent` (main hands over something it
has accepted).

The delivery theorems of ServerProofs need `DeliveryInv`: `Arrivals` (a
connection enters the backlog once and leaves it once), `Known` (only accepted
connections travel), `NoRetry` (without failing `sendmsg()` main is never at
`retry`), `Room` (a child, the channel and main's hands together hold no more than
was accepted, and that is at most `MainFdRoom`) and `Born`. `FlowStep` sorts all
steps into the few kinds that move a connection; each property is proved over
those. `DeliveryImplemented` maps the abstract queue to the channel followed by
the connection main is handing over; accepting appends to it, a successful
`sendmsg()` does not change it, receiving removes the head, a repeated hand-over
is `QueueAgain`, an exit of main is `Halt`.

Its request theorems need `RequestInv`, which adds to `BytesReadOnce` what the buffers of a
connection are made of (`BufferIsStream`: if `sendmsg()` never fails, the buffer
is all that was read from the connection) and that a request waiting for its response
has its blank line (`StoredHasBlankLine`). `BufferStep`, `InterestStep` and
`TableStep` leave two or three actions for each of them. The table needs
`TableFilled`, the pool after each `fork()`.

**ProcPoolProofs.** `Filling` is the table while `init_manager_proc()` fills it,
`Running` the table of a running manager. A replacement deletes one node and
inserts another, so the number of nodes stays only because `n_proc` never exceeds
the limit (`Counter`), and the pids stay distinct only because they are not reused
(`Fresh`). `Balanced` is inductive once it is known that no child was replaced.

**ResponseProofs.** `Stages` says what is done at each place of the call.
`Bounded`: each unit that is written is behind all units written before, from
which `InOrder` follows. `LinesFit`: the lines of pages that use bare `send()`s
fit the send buffer, so no short count is ignored. `SameFile`: unless somebody
changed it, the announced length is that of the file being read.

**StreamIOProofs.** One part for each function (`Read_sInv`, `ReadlineInv`,
`HttpRcvInv`, `RioReadInv`, `WriteInv`): what is stored, what is left, and what the
descriptor has given. `ReadlineInv` relates the index of `readline()`, which counts
attempts, to the bytes stored and the attempts wasted, from which its result and the
place of its `'\0'` follow. The one of `Write_s()` holds across its errors, because a -1
that is subtracted and added moves pointer and count together.

**CStringProofs** has no invariant; it says what `strspn()` and
`strtok()` find, for texts of any length, and where the parts of a flattened text
are. The library's induction theorems take a predicate as a parameter and cannot be
used, so `Induction` is about a set of numbers: if it has 0 and the successor of
each of its members below a limit, it has all numbers up to the limit. It follows
from the smallest number outside (`MinIn`, from the library's `WFMin`). With it,
`FlattenLaid` shows that each part of a flattened text lies behind the ones before.

**ParserProofs.** `Page` says where the lines of a request are in a text. It is true
of the whole text, by `FlattenLaid`, and of every prefix that reaches the blank
line, so of what `analasy()` works on when it begins (`ParsedInTime`); the place of
the first blank line is that of the last line because no line is empty before it.
`Parsing` then gives `strtok()`'s position in terms of the lines: behind the k-th
line at `header`, behind its colon at `value`, with the names and values of the
lines before stored. Each step is one lemma on a token of a known line
(`LineSteps`, `HeaderStep`, `ValueStep`, `BlankHere`). `ParsedAsSent` speaks of the
end only and is far from inductive. `NheadFits` is about all texts, so no line
structure helps: `Spent` counts characters. A token and its delimiter are two, except
that the last token may end with the text. That one would be an entry too cheap,
if all tokens before it were single characters one delimiter apart; but then none
of them has passed through the `\r\n\r\n` that `strstr()` has found, so the text
does not end there (`Slack`). All of it is about the text up to the cut at
`BUFSIZE` (`copied`); a request whose blank line lies behind the cut is never
parsed. `LinesRead` places `*buf` behind the last line returned; `Held` is what keeps the two functions apart.

**EpollServerProofs.** `StartInv`: `flag_x` is positive only after `epollfd` was
stored, and threads that have not raced passed one by one, so one instance was
created. `RegInv`: a connection is in one instance at most, one that is closed or
not yet added is in none, and a number that is about to be deleted is not open
unless it was reused. `CountInv`: with `EPOLLET`, the reports of arrivals on a
connection, in the kernel or in the batches of the threads, never outnumber the
arrivals not handled yet. `SocketInv`: how many sockets are open at each place.
`ConfigInv`: the two fields are those of the last line read; `LineRead` says what
`strspn()` and `strtok()` make of a line `@address:port@` behind any number of blanks,
for names of any length.

**MsgQueueProofs.** `KeyInv`: of the queues that are there, one has each key, and
what a process has in `arr[i]` was created for key `i`. `QueueInv` and `CallInv`
place each message. `TornInv`: unless a set was torn, at most one process is half
way through removing it, and all processes see the same queues gone. `AllOrNone`
is not inductive without it: it says nothing of the processes while one of them is
removing, and holds again at the end only if they all lost the same queues.

**Only model-checked**:

- liveness: `OrphansExit`, `BacklogDelivered`, `Finishes`, `EventsHandled`,
  `DestroyReleases`. Fairness and `ENABLED` are outside this prover's reach.

These are all: every invariant and every action property of the runs has a theorem.

## 5. What is not modelled

- The text of the pages, and the part of `http_module_error()` behind
  `get_file_length()`, which is never reached.
- `geterror_type()`, which only calls `accept_request()`.
- The wrappers of `common.h`, `sock.h`, `epoll_inc.h` and `utils.h` that nothing
  calls: each is one system call and an exit, without state.
- `tree.h` (no user), and `list.h` except for the SLIST macros, which Pool models
  as sequences: both are BSD headers taken over unchanged apart from the counter
  `n_proc`.
- Headers with declarations only.
- The `info_t` that `do_read()` takes from the heap for each event, never frees and
  does not check: memory is unlimited in EventLoop.
- The `else` branch of a child's loop at `http_task.h:223-227` (see Worker).
- `rio_read()` copies from the start of its buffer instead of from `ptr`, so a
  second call repeats bytes. The model does so too; `RioCounts` is about how many
  bytes it hands over, not which.

## 6. Plan

Done: all components modelled and model-checked; the refinement of Delivery and
every safety invariant of the runs proved.

Left: an abstract specification for MsgQueue, a set of queues that comes and goes
as a whole, of which `AllOrNone` and `MessagesKept` are the two halves; the liveness
properties stay with TLC.
