# Verification of libtexlink

TLA+ models of libtexlink, checked with TLC on small instances and, where a
theorem says so, proved with TLAPS for every value of the constants. Paths below
are those of the repository (`src/session.c`, `README.md`, ...); `PROJECT.json`
names the source lines of every definition.

libtexlink lets one process (the *server*, or producer) share a few GPU or CPU
buffers with other processes (the *clients*, or consumers) on the same machine.
Buffers travel once, as native handles, when a client connects. From then on the
server announces each frame with a small message, and the client gives the
buffer back with another. The server may write a buffer again only when nobody
has it. Most of what can go wrong goes wrong in that last sentence, so `Session`
is the core of the project; around it stand how a client finds a server
(`Registry`), how it gets the handles (`Connection`), who owns them (`Ownership`)
and how a process maps and reads a frame (`FrameAccess`).

## 1. Inventory

| Component (source) | State | Operations | Correct when |
|---|---|---|---|
| **Frame session, server** (`session.c`) | `client_fds`, `client_refs`, `write_idx`, `state`; the shared `frame_refs`, `current_idx`, `frame_id` | `server_poll`, `begin_frame`, `end_frame`, `server_drop_client`, `destroy` | the two counters agree; a buffer is handed out only when no client has or may come to have it; dead clients are found; the producer gets a buffer again |
| **Frame session, client** (`session.c`) | `state`, `acquired_refs`, `last_frame_id`, its socket | `connect`, `acquire_frame`, `release_frame`, `disconnect` | each reference is given back exactly once; frames come in order and whole; a connect is answered |
| **Socket layer** (`socket_posix.c`, `socket_win32.c`) | a listener, two byte streams per connection | `bind`, `accept`, `poll`, `send`, `recv`, `*_ipc_handles`, `*_frame` | ordered streams; the end of a peer is noticed; header and descriptor stay paired; the listener survives refused clients |
| **Registry** (`registry_posix.c`, `registry_win32.c`) | one table of name, path and pid, shared by all processes under a lock | `announce`, `unregister`, `list`, `resolve` | live servers are found, dead ones are not; an interrupted write does not lose others' entries; a name leads to one server |
| **Shared memory and paths** (`platform_*.c`) | named segments | create, open, map, unlink; wait for a fence | a client maps the segment of the server it is connected to; what it received is closed and unmapped once |
| **Frames and native handles** (`frame_*.c`) | `handle`, `sync_fd`, `map_base`, `owned` | create, import, duplicate, set a fence, close, destroy | each descriptor is closed once, on every path; stride and size do not wrap |
| **CPU access** (`sync_*.c`, part of `frame_darwin.c`) | the mapping with its range, `active_access` | `map`, `unmap`, `cpu_begin`, `cpu_end` | begin and end are paired towards the kernel; the range lies in the buffer; the mapping outlives the access |
| **Backends** (`backend_*.c`, `.m`) | API objects, a list of mappings (CUDA), a lock (WGL) | wrap, export, import, destroy | handles are owned once on every error path |
| **Public API and examples** (`include/`, `examples/`) | none | the order in which applications call the library | |

How they interact: a server announces its name and path in the registry, listens
on the path and creates the segment `shm_name`. A client resolves the name,
connects, receives a handshake and one handle per buffer, and opens the segment
by the name the handshake carries. After that server and client share two
streams and the segment; the counters in the segment are written by the server
alone. Nothing in the library is multi-threaded: concurrency is between
processes, and nothing runs between calls, so a server notices what its
clients did only in its next `server_poll`.

Hard behaviours: interleavings of one server with several clients at every system call;
acquire draining its stream while the server publishes; clients and servers that die at
any point; sends, accepts and descriptor transfers that fail; a fence wait of seconds
that may time out; slots that are reused; the two meanings of "readable" at the end of a
stream; names that lead to another server's socket or segment, a registry written in two
steps, pids used again; calls that fail after others have acquired something; 64-bit
ranges that wrap. `PROJECT.json` lists each with its line under `hazards`, and with the
properties that watch it.

## 2. Modules

| Module | Content |
|---|---|
| `Session` | the server's and the clients' calls, step by step, and the streams between them |
| `FrameLease` | an abstract specification: write, publish, lend, return; and what it promises by itself |
| `Handshake` | an abstract specification: arrive, admit or turn away, enter, drop; and what it promises by itself |
| `SessionProperties` | type invariant, safety, action and liveness properties of `Session`, the fairness, the refinement mappings to `FrameLease` and `Handshake` |
| `MCSession` | the instances for TLC (symmetry) |
| `SessionProofs` | theorems about `Session`: types, the two counters |
| `LeaseProofs` (on `SessionProofs`) | where each reference of a client is; what a stream can hold |
| `HeldProofs` (on `LeaseProofs`) | the frames that clients have are whole and come in order, acquire gives a frame back only for a newer one, the producer is refused only what clients have; `Session` implements `FrameLease` and `Handshake` |
| `Registry` | servers that start, announce, are destroyed or die; clients that resolve a name, connect and open the segment; the table, the paths and the segments they share |
| `NameService` | the abstract specification of the registry: names bound to processes |
| `RegistryProperties`, `MCRegistry` | the properties of `Registry`, the refinement mapping to `NameService`; the instances |
| `RegistryProofs` | theorems about `Registry`: its safety properties, and that it implements `NameService` |
| `Connection`, `ConnectionProperties` | the accept loop, the pipe instances and the items of the handshake; their properties, the refinement mapping to `Handshake` |
| `ConnectionProofs` | theorems about `Connection`: its safety properties, and that it implements `Handshake`; what the concatenation of a list of sequences is |
| `HandleSteps` | the vocabulary of scripts: acquire, release, check, what runs on an error |
| `FrameHandles`, `VulkanHandles`, `GlHandles`, `D3DHandles`, `SessionHandles` | a script for every function that makes, uses or destroys an object of the library |
| `Ownership`, `OwnershipProperties` | the state machine that runs the scripts with every call failing or not; single ownership |
| `FrameAccess`, `AccessProperties` | map, unmap, `cpu_begin` and `cpu_end` on the three platforms |
| `AccessProofs` | theorems about `FrameAccess`: its safety and action properties |

`Session` uses what the other modules establish: that a client and a server are at
the two ends of one connection (`Registry`), and that the handshake gives the
client all handles or an error (`Connection`), which is why a single `Hello` is
enough there: both implement the same `Handshake`. The modules share no variables; each abstracts the others' state.

### Session

*Server.* One thread. Each call is split where a client's step can be observed in
between: `pc` says where the thread stands, `slot` is the loop variable `i` over
`client_fds`.

| Code | Actions |
|---|---|
| `texlink_server_poll` | `StartPoll`; the accept loop `AcceptClient`, `AcceptRefuse` (no slot), `AcceptFail` (the peer is gone, or a part of the handshake could not be sent), `AcceptDone`; the loop over the clients `HandleRelease` (one message), `HandleEof` (drop), `HandleNothing` |
| `texlink_server_begin_frame` | `BeginFrame`, with `BeginReturns` for the choice of a buffer in the three buffering modes. A NULL is no step |
| `texlink_server_end_frame` | `EndFrame` up to its loop; `SkipSlot`, `SendFrame`, `SendFail` for each slot |
| `server_drop_client` | `DropClient`, used by `HandleEof` and `SendFail` |
| `texlink_server_destroy`, end of the process | `ServerDestroy` between calls, `ServerCrash` anywhere |

*Client.* One connection of one process; a process that connects again is another
member of `Client`. `cpc` is where it stands inside acquire or close.

| Code | Actions |
|---|---|
| `texlink_client_connect` | `Connect`, then `Connected` or `ConnectFails` |
| `session_consumer_acquire` | `Receive` (a notification), then the drain loop: `SkipOld` when the socket is readable, and its recv, `Receive` again or `RecvFails`; `TakeNewest` when nothing is readable, the fence wait, `AcquireReturns` or `SyncTimeout`; `ReceiveFails` when the fence descriptor is lost |
| `texlink_client_release_frame` | `Release` |
| `texlink_client_disconnect` | `Disconnect`, `CloseRelease` per reference, `CloseSocket` |
| end of the process | `ClientCrash` anywhere |

Abstractions, and why they are sound for what is asked:

- A stream is a sequence of messages. `Hello` stands for the handshake and the
  handles, which precede every notification; `session_connect` accepts or fails as
  a whole. `Connection` has the handshake item by item.
- An iteration of acquire's loop is two steps: the poll with the release of the old
  frame, and the recv. In between the server may append a message, or close its end,
  and on Win32 its close takes away what the poll has seen (`AfterClose`:
  `DisconnectNamedPipe`). The poll and the release are one step: the server can read
  the release only after it was sent, and what it does in between to the client's end
  it can also do behind both.
- `StartPoll`, `BeginFrame` and `Release` wait for each other as applications call
  them: `begin_frame` is not called again before `end_frame` (the examples never
  do). `server_poll` may be called in between, and is.
- Memory order inside `texlink_shm_t` is not modelled: only the server writes it,
  and the client's decisions use the messages alone (`session.c` says so where it
  stores `frame_id`).
- Blocking sends are steps that do not block: a stream never holds more than a
  message of each buffer and the handshake, far below a socket buffer. That is the
  theorem `StreamsBoundedCorrect`.
- What ends a process closes its sockets; what it had not read is lost
  (`ClientCloses`, `ServerGone`), what it had sent can still be read. Only the server
  of Win32 disconnects its pipes when it closes them itself, and with that what it had
  sent is lost, too.

Constants are the sizes (`Client`, `MaxClients` for `TEXLINK_MAX_CLIENTS`,
`FrameCount` for the buffering mode), the switch between the platforms
(`Posix`: `poll(2)` reports the end of a stream as readable, and what was sent survives
the close; the Win32 poll fails at the end, and `DisconnectNamedPipe` throws away what was
not read) and switches for failures on healthy connections (`ServerIoFails`,
`FenceRecvFails`). The only bound is `MaxFrames`, the number of frames published.

`content` and `held` are ghosts: the frame that a buffer's memory contains (0 while
it is being written) and the frame a client was given with each buffer. No guard
reads them. They let `HeldFrameIntact` say what the counters are *for*.

Several definitions are preceded by a *mutant*: the same operator with a plausible
bug (a forgotten reset, a guard dropped, an uncounted reference). Each property
is known to fail when the mutant named for it in `PROJECT.json` replaces the
definition, so none of them holds by the shape of the model.

### FrameLease

The contract without sockets, slots or counters: `StartWrite` takes a buffer that
nobody has, `Publish` numbers it, `Lend` gives the frame just published to a client
at most once, `Return` ends some or all leases of a client. In the refinement
mapping a client has a lease on every frame that is in its stream, in the hands of
acquire, or with its application, until it gives the buffer back or dies.

### Handshake

What `texlink_client_connect` and the accept loop promise each other, without streams,
items or descriptors. A client that waits is admitted to a free slot, and then it was
sent everything (`Admit`), or turned away (`TurnAway`: refused, or the transfer broke
off); only who was greeted becomes connected (`Enter`), and a slot is freed only when its
client has ended (`Drop`), unless connections may break (`Unreliable`). `Session`
implements it with its one `Hello`, with `Unreliable` standing for `ServerIoFails`;
`Connection` with all its items, pipe instances and partial transfers. A strayed client
of `Connection` that believes itself connected has not read what it was sent: the
mapping takes it for one still connecting, and `StrayedMisread` says what it got.

### Registry

Servers and clients have a name, a path or both (`Desc`): a path that is given goes before
the default path of the name and before the registry, and a server without a name is not
announced. One action per system call that others can see between. `spc` is where a server's
thread stands: `texlink_server_start` is `StartServer` (unlink the old segment),
`Bind`, `CreateShm`; then `announce` takes the lock (`TakeLock`), reads, changes its
copy and writes it in two steps, `BeginWrite` (ftruncate, or on Win32 the entries
cleared in place) and `EndWrite`. `AnnounceFull` is the announce that finds no slot,
`RegisterFails` the call whose file cannot be opened, locked or truncated, after which
the old file stays, `WriteFails` the write that stops short. What is left then is `Torn`:
nothing, or the first entries. `registry_read` accepts such a file, and behind its end the
reader finds what its own memory held before (`Readings`, `Unwritten`, `Junk`).
`texlink_server_destroy` is `DestroyServer`, `unregister` if the server was announced,
`CloseListener`, `UnlinkShm`, `UnlinkPath`; a server that was never started runs through it
as well. A client goes through `Resolve`, if it has no path, `Connect`, `Handshake`,
`OpenShm`. `ProcessCrash` may happen
at each point; `ProcessStart` gives the pid to another process.

`listener` says which servers a path leads to, `seg` which segment a name is linked
to (by the server that created it), `shmOf` and `cseg` which one a server or client
has mapped. On POSIX bind replaces what a path led to and a segment outlives its
name; on Win32 a pipe path has an instance for each server, and a segment and its
name live as long as somebody holds them. A name is the sequence of its parts
between dots, because `texlink_make_shm_name` cuts the last one off: a POSIX path
ends in `.sock`, a pipe path does not.

Four ghosts say what the properties excuse. `overlapped` are servers that ran beside
another one of the same place, or were destroyed beside it without having been started:
the code protects neither, the second one replaces path, segment and entry of the first,
and the destroy of either unlinks the other's. `lost` are servers whose entry a full
table, a registry that cannot be opened or a torn write kept from being made or removed,
or whose name another one has announced since. `garbled` says that a write has stopped
among the entries. `replaced` is the segment a server's start found under its name. Servers
that *follow* one of their place, dead or destroyed, are excused in nothing. Not
modelled: a crash in the middle of one entry of the mapped view of Win32, and
`texlink_registry_list`, which reads like resolve.

### NameService

`Bind` takes a name from whoever had it and touches no other name of a process that
runs; `Unbind` gives up one's own. An update is settled in a second step, and only a
process that dies, or cannot write, in between may lose what others bound (`Break`). If a
part is left then (`intact` becomes false), later updates may find bindings that nobody
made, but still lose none of those that were.

### Connection

The stream of a connection is a sequence of items: the handshake, and for each
buffer a handle and, on Win32, a fence if the frame has one. The server builds it
from each frame's metadata (`Wire`), the client counts it off by what the handshake
says of the first frame (`Expected`); an item does not say what it is. `AcceptClient`,
`AcceptPart` (a send fails after k items), `AcceptRefuse`, `AcceptLeaks` (no memory
for the socket structure) and `ListenerLost` are one iteration of the accept loop.
On Win32 the listening instance is the backlog, of length one; a client that has
left it already makes the poll fail (`Polled`). `SetSync` is an application that
gives a frame a fence while the server runs. Frames whose handles have different
*types* are not modelled: only whether there is a fence, on Win32, since nothing depends
on it elsewhere.

### Ownership

The error paths of thirty-odd functions differ in what they close, in which order,
and in who owns a handle when a callee has failed. Each function is a *script*, a
sequence of steps such as `Get(r)`, `Free(<<..>>)`, `Give(r)`, `Move(r, to)`, named
after the variables and fields of the source; `OnError(script, err)` is an error
label. `Ownership` picks an object, runs one of its creators, any number of its
calls, and its destructor. `open` are the resources that are open, `set` the
variables that are not null; a release of what is not open, of what is the
application's, or of something that another resource still depends on (`MadeFrom`)
is recorded in `faults`, and what is open when the object is gone is `lost`. Every
step that can fail does, in some behaviour.

Scripts compose as the functions call each other: `AdoptFdPosix`
(`texlink_frame_create_from_native_handle` of an owned descriptor) is part of the
Vulkan and EGL scripts, so that what a callee closes on its own error path meets
what its caller closes afterwards.

### FrameAccess

`map`, `unmap`, `cpu_begin`, `cpu_end` with every combination of flags, offset and
size, in arithmetic that wraps at `Wrap` (2^64 in the code). `view` is what the
system maps (whole pages before the offset), `window` what the application was
told, `brackets` the `DMA_BUF_IOCTL_SYNC` starts without an end, `locks` those of the
IOSurface. The end of an access may fail in the kernel (`CpuEndFails`). On macOS
`active_access` only says that `cpu_begin` mapped the frame; `nested` is a ghost for
applications that do more than pair begins with ends.

## 3. Properties and runs

| Run | Instance | Question |
|---|---|---|
| `session_triple` | 3 buffers, 2 clients, 2 slots, 4 frames | `TypeOK`; `LeaseAccounting`: the server's count is exactly what the client and both streams have, so no reference is lost or doubled; `HeldFrameIntact`: no frame a client has or may come to have is overwritten; `RefusedForAReason`: `begin_frame` returns NULL only for what some client has |
| `session_double` | 2 buffers, 3 clients for 2 slots, 3 frames, Win32 pipes | `Refines` and `ImplementsHandshake` over refusals and reused slots: the session implements `FrameLease` and `Handshake`; `FrameIdsIncrease` where a stream holds two notifications; `SkippedForNewer`: a frame is given back only for a newer one, or the connection has ended |
| `session_faults` | 2 buffers, 2 clients, 3 frames, all failures on | `RefAccounting`: frame_refs stays the number of slots with a reference; `HeldFrameIntact`: the clients the server still knows keep their frames |
| `session_eof` | 2 buffers, 1 client, 2 frames, `poll(2)` | `AcquireDelivers` is violated (below) |
| `session_live` | `FairSpec`, 2 buffers, 2 clients for 1 slot, 3 frames | `DeadClientReclaimed`, `ConnectAnswered`, `ProducerProgress` |
| `registry_posix` | 2 servers, 2 pids, 2 names, explicit paths, no names, 2 entries | `ImplementsNameService`; `AnnouncedIsFound`; `ListeningIsReachable`: a listening server's path and segment name lead to it; `DestroyLeavesNothing` |
| `registry_client` | 2 servers, 1 client, 1 entry, with and without names | `ClientMapsItsServer`: never the segment that its server's start had found; `LockInUse`: the lock is held by a call that goes on, also where the table is full |
| `registry_segment` | 2 servers, 1 client, 1 entry | `OpensItsProducersSegment` is violated (below) |
| `registry_win32` | 2 servers, 1 client, 1 entry | on Win32, where segments live while they are held, `DestroyLeavesNothing`; `CallsReturn`: every call that takes the mutex returns, also on the path where the table is full |
| `connection` | both platforms, 3 clients, 2 slots or pipe instances, 2 buffers | `HandlesMatch`: a connected client has each buffer's handle as that buffer's; `StrayedMisread`: what it has where a fence was set since; `EndsAccounted`: every open end belongs to a slot; `NobodyWaitsInVain`: a recv that blocks will be answered; `ConnectAnswered`; `ImplementsHandshake` |
| `ownership` | every object, at most one at a time | `ClosedOnce`, `NothingLost`, `ChildrenFirst`, `BorrowedKept`, `NoDangling`, up to the exceptions below |
| `access` | a frame of 5 bytes, pages of 2, numbers below 8 | `WindowMapped`; `BracketsMatch`: the kernel sees one start and one end per access; `AccessUndisturbed`; `PairsUnlock` (macOS) |

A property is checked where its hazard is greatest, not in every run in which it holds:
what it is in the other buffering modes, with other failures switched on and on the
other platform is what its theorem says (section 4), for every value of the constants.
That goes for `HeldFrameIntact` and `Refines` with a single buffer (`FrameCount = 1` is
covered by the theorems alone), for `LeaseAccounting` and `ImplementsHandshake` with failing
sends, and for the registry's properties on Win32.

*Why the bounds are enough.* Every property speaks of one buffer and one or two clients,
so two clients show every interference between clients, and the third one of
`session_double` finds no free slot and later a used one. A buffer must be written a
second time for anything to go wrong: that is the fourth frame with three buffers and the
third with two. `session_live` has a single slot, so that its two
clients are refused, or follow each other into the slot of a dead one; clients side by
side are left to the safety runs. Crashes and disconnects are possible in every state.
Clients are interchangeable and symmetry is used for safety only, never in
`session_live`. Deadlock is checked in the runs of `Session`, where the only states
without a step are those where every process has ended, which `AllEnded` lets stutter,
and in `ownership` and `access`, where something can always be done. The runs of
`Registry` and `Connection` stop when every server and client they have has been used,
and do not check it; `CallsReturn` and `ConnectAnswered` ask there that no call hangs.

In `Registry` a name is taken over by a second server, which may follow the first, run beside
it or be destroyed before it has started; the theorems speak of any number. Two pids suffice
for one process with both servers, for two processes, and for a pid that is used again. With
two entries a write can stop between them, and a table of one entry is full. The two names
share what comes before their last dot; the descriptions are a name, a name with the
other name's path, and a path alone (`Descs`). A reader's memory is empty or holds an old entry of one
name (`Remains`). In `Connection` the third client finds
every slot and every instance taken; two buffers let a handshake break off between
them and one of two frames differ from what the handshake says. `Ownership` has no
bound but two buffers of a session, two CUDA mappings and two DMA heaps. In
`FrameAccess` the size of the frame is no multiple of the page, sums wrap, and
every offset and size below the wrap is tried.

*Fairness* (`SessionProperties!Fairness`). Steps inside a call are weakly fair: a
running process is scheduled, and a blocking read returns when there is
something to read. The producer's loop in the example programs polls, asks for a
buffer and publishes in each iteration: each of `StartPoll`, `BeginFrame` and
`EndFrame` is strongly fair, because the others disable it again and again. An
application gives back what it acquired (`Release`, strongly fair as acquire
disables it while it runs) and goes on acquiring (`Receive`, weakly fair). Nothing
is required to fail, to crash, to disconnect or to time out.

In `Registry` a call that was entered runs on (`CallRuns`, weakly fair): it waits for
the lock alone, and the kernel gives up the lock of a process that dies. Nobody has
to start or destroy a server. In `Connection` the server polls again and again and a
client inside `session_connect` is scheduled, both weakly fair; nobody has to leave
or to be dropped.

*What a disagreement with the documents shows.* `README.md` promises that the
notification of every frame is read by `texlink_client_acquire_frame`. On POSIX the
acquire loses it when the producer ends just after it: the drain loop takes the
end of the stream for a newer notification, gives back the frame it has in hand
and fails to receive another (`session_eof`). The last frame of a producer that
publishes and exits is therefore delivered or not depending on the moment of the
acquire. On Win32 the window is narrower: the poll fails at the end of the pipe, so the
loop gives a frame back only when it has seen a newer one; but the server's
`DisconnectNamedPipe` may throw that one away before it is received. `SkippedForNewer` is
what holds on both: the frame is given back for a newer one, or the connection has ended.

`session_connect` has the comment "Open shared memory created by producer". It opens
whatever the name in the handshake is linked to by then (`registry_segment`): when the
server dies after it has accepted the client, and another one of that place starts,
the client maps the segment of the successor while it is connected to the dead server.
`ClientMapsItsServer` says what does hold: never the segment of a predecessor, and that of
its server while this one runs undisturbed.

With `FenceRecvFails` a notification whose descriptor cannot be received keeps its
buffer referenced until the client disconnects: `LeaseAccounting` states exactly
this exception. With `ServerIoFails` the server can drop a client that is alive,
and from then on does not protect the frames it has: `HeldFrameIntact` excepts
clients that were dropped, under that switch alone.

*What the properties except.* Each exception is written into its property with the
object, the resource and the line, so that anything else is a violation.

- `ClosedOnce`: when `calloc` fails in `texlink_frame_create_from_native_handle` it
  closes the handle it was given, and three creators close it again
  (`backend_vulkan_posix.c:285`, `:421`, `backend_d3d12.c:336`). `BorrowedKept`: for the
  same reason a failed call takes a handle from the application, and on Win32 even
  a legacy Direct3D 11 handle that no frame ever owns.
- `NothingLost`: exported handles that the frame refuses to adopt; a WGL frame
  destroyed without a current context, whose interoperation objects stay
  (`ChildrenFirst` has the same exception); `CFNumber`s behind one that failed; a
  received frame's IOSurface on macOS; the counters' descriptor when `ftruncate`
  fails; a pipe whose socket structure could not be allocated; handles made in a
  Win32 client that gave up.
- `HandlesMatch`: clients that a Win32 server accepted while some frame had a fence
  and the handshake said none, or the other way round. `StrayedMisread` says what these
  have instead: where the handshake promised fences they never count as connected; where
  it promised none the first fence stands in the place of the next handle, and what was
  sent behind it is left in the stream before the notifications. `ConnectAnswered` and
  `NobodyWaitsInVain`: only the clients that were promised fences wait for a word nobody
  sends, and a leaked pipe is never answered.
- `RefusedForAReason`: with `FenceRecvFails`, the references of notifications whose
  descriptor was lost.
- `AnnouncedIsFound`: the servers in `lost` (section 2). `DestroyLeavesNothing`: the entry of
  a server whose unregister could not open or truncate the file, and any entry once a
  write has stopped among the entries. `OneBinding` speaks of the time before that.
- `ListeningIsReachable`, and `ClientMapsItsServer` in its second half: servers side by side
  in one place.
- `AccessUndisturbed` speaks of POSIX and Win32: on macOS begin and end do not record
  an access.

## 4. Proofs

Every safety and action property that a passing run checks is a theorem,
`Spec => []Property` (or `Spec => Property`) for every value of the constants, except
those of `Ownership`. So are the four refinements, and for three of the liveness properties
(`ProducerProgress`, `Connection`'s `ConnectAnswered`, `CallsReturn`) the safety half that the
code owes them: that whoever waits, waits for somebody who will act.

| Module | Theorems |
|---|---|
| `FrameLease` | `LeasesWholeCorrect`: what the lease protocol promises by itself |
| `Handshake` | `ServedCorrect`: what the admission protocol promises by itself |
| `SessionProofs` | `TypeCorrect`, `RefAccountingCorrect` |
| `LeaseProofs` | `LeaseAccountingCorrect`, `StreamsBoundedCorrect` |
| `HeldProofs` | `HeldFrameIntactCorrect`, `RefusedForAReasonCorrect`, `FrameIdsIncreaseCorrect`, `SkippedForNewerCorrect`; `RefinesCorrect` and its corollary `LeasedFramesWhole`: `Session` implements `FrameLease`; `ImplementsHandshakeCorrect` and its corollary `ConnectedAreServed` |
| `ConnectionProofs` | `TypeCorrect`, `EndsAccountedCorrect`, `HandlesMatchCorrect`, `StrayedMisreadCorrect`, `NobodyWaitsInVainCorrect`; `ImplementsHandshakeCorrect` and its corollary `ConnectedAreServed` |
| `RegistryProofs` | `TypeCorrect`, `AnnouncedIsFoundCorrect`, `ListeningIsReachableCorrect`, `DestroyLeavesNothingCorrect`, `ClientMapsItsServerCorrect`, `OneBindingCorrect`, `LockInUseCorrect`; `ImplementsNameServiceCorrect`: `Registry` implements `NameService` |
| `AccessProofs` | `TypeCorrect`, `WindowMappedCorrect`, `BracketsMatchCorrect`, `PairsUnlockCorrect`, `AccessUndisturbedCorrect` |

### Assumptions

Each model has one named assumption on its constants (`SessionAssumption`,
`ConnectionAssumption`, `RegistryAssumption`, `AccessAssumption`): sizes are positive
numbers, sentinels are no members of the sets beside which they stand, switches are
Booleans. `RegistryAssumption` also says that a name and a file name have at least one part
between their dots, that who is created has a name or a path, and that what a reader's memory
holds looks like an entry. The provers use nothing else, with one exception written into the
theorems:

- `RefinesCorrect`, and with it `LeasedFramesWhole`, assumes `~ServerIoFails`. If a send to
  a client that is alive can fail, `server_drop_client` takes back what that client still has, and the next frame may
  be written there: the lease protocol does not hold then, and `HeldFrameIntact`, which
  is proved without the assumption, says what remains. One step alone needs it,
  `WrittenIsFree`, the start of a write.

The two contracts ask of their constants only that the sentinel is not a member of the
set beside which it stands (`NoBuf \notin Buf`, `NoClient \notin Client`), which the
assumptions of the modules that implement them give.

### The contracts

What `FrameLease` and `Handshake` are for is proved about them alone. `LeasesWhole`: every
frame that a client has a lease on was published, is whole in its buffer, and is not being
written. `Served`: nobody has two slots, who has one and is still connecting was greeted,
and unless connections break who is connected has a slot, so that it is sent the frames and
its end is noticed. `HandshakeInv` is what keeps it: a client waits or has a slot, never both.
By the refinements both hold of `Session`, and `Served` of `Connection`, with no further look
at sockets and counters (`LeasedFramesWhole`, `ConnectedAreServed`).

### Session

None of the properties is inductive. The invariants that are:

- `TypeInt`: the types, with `frame_refs` only an integer, preserved without knowing
  anything of the counters.
- `StreamInv`: what the types of messages rest on. A buffer index used by the client
  is a real one because the handshake is the first message of a stream and is
  read before the client is connected (`HelloFirst`, `InHand`); the handshake is
  first because a connection is in the backlog once and nothing is sent to it
  before it is accepted (`BacklogInv`).
- `RefInv`: `frame_refs[b]` is the cardinality of the set of slots with a reference,
  each slot has none or one, a free slot none, the buffer being written none; and
  while `end_frame` sends, no slot from the cursor on has a reference to the
  new frame. Without that last part a second reference could be counted. From
  the cardinality it follows that `frame_refs` never falls below zero. `CountUp`,
  `CountDown` and `DropCounted` say what the three ways the code moves the pair of
  counters do to it; a failed send is the first followed by the third.
- `LeaseInv` (`LeaseProofs`) says where a reference is when the server counts it:
  in a notification, in the hands of acquire, with the application, or in a release.
  `LeaseAccounting` speaks of clients that have a slot. To be kept it needs to know
  that no client has two (`OneSlot`), that a client without one has nothing on the
  way to the server and one that is not connected holds nothing (`Quiet`), what the
  stream of a client that connects starts with (`Greeted`), and that no client has a
  buffer twice, in a slot or not (`Once`). What streams count is reduced to how often
  a sequence has an element (`Occurs`), and a client's step to one fact: it moves a
  reference from one of the four places to another (`ClientConserves`).
- `HeldInv` (`HeldProofs`) adds that a frame is in its buffer while `end_frame`
  announces it (`Sent`), and that without failing sends a client that is alive has a
  slot or waits for one and was told of nothing (`Unlent`). Every frame a client has is
  then one of the references counted for it (`LeaseIsCounted`), and `begin_frame`
  returns no buffer whose count is not zero.
- `OrderInv` (`HeldProofs`): what waits in a stream is newer than what was taken from
  it. To see that the next frame is newer, too, it takes `Told`, the newest frame a client
  can have heard of: while `end_frame` goes through the slots, some are one behind.

`RefusedForAReason` follows from `RefInv` and `LeaseInv` by going back from a counter to a
client: a buffer that `begin_frame` cannot give has a count, so a slot refers to it
(`BeginFinds`), and if the client in it lives, the one reference is in one of the four
places. With `DeadClientReclaimed` and clients that release, that is why the producer goes
on (`ProducerProgress`, checked by TLC).

The refinement of `Handshake` needs `BacklogInv` and `OneSlot`: a connection is accepted
once, and into the lowest free slot. A drop of a client that lives is a step of `Handshake`
only under `Unreliable`, so the theorem needs no assumption on failing sends.

### Connection

`ConnectionInv`: a client waits in the backlog once, with nothing of the server's open or
sent (`BacklogInv`); an open end is a registered client's or a leaked one, never both
(`EndsInv`); and what a client has received and has yet to receive is a beginning of one
list, the handshake and then the expected items (`ScriptInv`), cut off at most behind what
is in the stream. That a client knows when it has all of them rests on what the list
is: the concatenation of as many pieces as there are frames. `FlattenFacts` says how long such
a concatenation is and where in it each piece stands, from the least number that would be
a counterexample. The library's induction theorems cannot be used here, as they take an
operator as a parameter and no installed prover instantiates one; a set of numbers has a
least element by its theorem on well-founded minimal elements, which takes a set.

`ScriptInv` speaks of strayed clients, too: theirs is the list for the fences there were when
they were accepted, which does not fit what the handshake said. `StrayedMisread` compares the
two lists up to the first frame on which they differ; `NobodyWaitsInVain` their lengths: a
client with nothing to read has read its whole list, and the list it expects is no longer,
unless it was promised fences. The refinement of `Handshake` follows from the same facts: a
client becomes connected only when it has received its whole list, having a slot.

### Registry

`RegistryInv` has ten parts. `LockInv` gives `LockInUse`: the holder of the lock is inside
announce or unregister, in a process that runs, so whoever waits for it (`CallsReturn`,
checked by TLC) waits for a call with a step to take. `TableInv` is the heart of the
refinement: until a write stops among the entries a name has one entry (`OneBinding`, which
no run checks: it is a part of this invariant), the copy of a writer is what the file will
be, and meanwhile the file is empty or, on Win32, lacks the writer's entry and no other. What
the list functions do is stated once in terms of the set of bindings (`EvictedFacts`,
`AddedFacts`, `RemovedFacts`), and what a reader makes of a torn file in `WriteTypes`: a table
in which each entry that is there is found. `OverlapInv` says that live servers at one
place know of each other as `overlapped`; its lemma `Apart` gives every server that is not
disturbed its path, segment and entry for itself. `FoundInv` has, besides the entry of a
listening server, that an entry of one that has not announced or has unregistered is
another server's, or one that could not be removed: `DestroyLeavesNothing` needs it.
`ListenerInv`, `SegInv` and `LinkedInv` follow a path and a segment from `bind` to the end of
destroy; on Win32, where a segment lives as long as somebody holds it, `SegInv` is that
somebody does (`HeldStep`). `ReplacedInv` says that a segment which a start has unlinked is
never linked to the name again, and `ClientInv` connects a client to a server that has
created its segment: together they are `ClientMapsItsServer`.

In the simulation of `NameService` `BeginWrite` is the update, `EndWrite` and `WriteFails`
settle it, a crash is a death, and nothing else is seen, not even a call whose file cannot be
opened.

### FrameAccess

`AccessInv`: the window, the requested range and the pages around it are set and cleared
together (`WindowInv`); the starts without an end are at most one for each end that failed
(`BracketInv`); and the depth of an application that pairs its calls says whether the
surface is mapped (`PairInv`). `RangeFits` is the arithmetic: whatever `normalize_range`
answers lies in the frame, also where offset + size wraps.

### What stays with TLC

- Liveness (`DeadClientReclaimed`, `ProducerProgress`, both `ConnectAnswered`,
  `CallsReturn`): TLAPS handles neither fairness nor `ENABLED`.
- `Ownership` has no parameter: its objects and scripts are finite data, the run
  goes through all of them, and a theorem would say no more than the run does.
- That the assumptions can be met, and that the invariants are not empty, is what the
  runs show: they evaluate the assumptions and reach the states the theorems speak of.

## 5. Not modelled

- Metadata of frames: width, height, stride, size, `sync_value`, and how they are
  computed; the contents of buffers beyond "which frame".
- The bytes of a message: headers and payloads are sent and received whole, and no
  signal interrupts a call.
- GPU work, fences beyond "signalled in time or not", and what GPU and platform
  APIs do beyond making and destroying objects; format tables and accessors of the
  backends.
- Frames of one server whose handles have different types.
- A Win32 process that dies in the middle of one entry of the registry's mapped view.
- `frame_posix_shm.c`, which no build compiles; `sync_darwin.c`, which returns
  constants; the example programs, beyond the order of their calls. They are most of
  the lines no definition stands for.

## 6. Plan

The modules planned are written, their safety and their refinements proved, and the two
contracts by themselves. What is left:

1. Frames of one server whose handles differ in type, which are left out of the models so far.
2. A producer that calls `begin_frame` again before `end_frame`, as no example does.
3. Shorter proofs: the steps of `Registry` that leave a part of the state alone are listed
   in several lemmas.
