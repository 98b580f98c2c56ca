# leicpp in TLA+

leicpp is a small C++ network library (`src/src/`): a TCP server whose
connections are spread over event loops, one thread each, on top of epoll,
eventfd, timerfd and `boost::lockfree::queue`. This directory models its
concurrent core, checks it with TLC and proves the main results with TLAPS.
Source references below are relative to `src/src/`.

## 1. The system

| Component | State | Operations | Talks to |
|---|---|---|---|
| `TcpServer` (tcp_server) | `not_close_`, `next_loop_`, loops and threads | `Start`, `NextLoop`, `AddNewSession`, `DoAcceptLoopOnce`, destructor | makes the loops; `ProcessEvent(REGISTER)` on the chosen loop |
| `EventLoopThread` | one `std::thread` | `Run`: `while (Loop())`; the destructor joins | its loop; reads `not_close_` through it |
| `Acceptor` | the listening socket | `HandleRead`: accept, `AddNewSession` | the server, on the main thread |
| `EventLoop` (event_loop) | `thread_id_`, `event_queue_`, `handlers_`, `ep_events_`, `epfd_`, `now_sec_` | `Loop`, `DispatchAndProcess`, `ProcessEvent`, `ProcessEventInLoop`, `ProcessEventInQueueInLoop`, `RegisterHandler`, `RemoveHandler` | calls handlers; called by sessions, the server, any thread |
| `InformHandler` | `informed_` (atomic flag), the eventfd | `Inform` (any thread), `HandleRead` (the loop's) | drains the loop's queue |
| `TimerHandler`, `TimingWheel` | the timerfd; `idx_`, `datas_` | `CheckOvertime`, `Register`, `Remove` | `ResetTimingWheel` of sessions |
| `TcpSession` | two `Buffer`s, `status_`, `timing_wheel_index_`, `last_read_time_` | `HandleRead`, `HandleWrite`, `Send`, `Stop`, `WriteInLoop`, `ResetTimingWheel` | user code through `GetPacketLength`, `ProcessData`; its loop |
| `Buffer` | `size_`, `read_index_`, `write_index_`, memory | `Grow`, `Adjust`, `Write`, `ReadDone`, `WriteDone` | - |
| `Socket` | an fd | wrappers of system calls; the destructor closes | the kernel |
| `EventHandler` | `id_`, taken from the counter `ID_COUNT` | the constructor; virtual handlers | the base of acceptor, sessions, inform and timer handler |
| `common_parse` | none | two codecs of the packet header `PHDR` | nothing in the library; programs that use it |

How they interact. A loop's thread owns everything in the loop except
`event_queue_`, `informed_` and the reference counts. Another thread reaches
the loop only by `ProcessEvent`, which pushes an `Event` and calls `Inform`.
Handlers and loops refer to sessions by id (epoll data, the wheel) or through
`weak_ptr` (`handlers_`, `Event`); only user code, `AddNewSession` and the
dispatch of one entry hold a `shared_ptr`. User code runs on the loop's thread
in `ProcessData` and may call `Send` and `Stop` of any session there, which act
at once.

What is hard: the flag-and-eventfd protocol between producers and the loop; the
moment at which a loop learns which thread it runs on; entries of a batch, of the
queue and of the wheel that outlive what they name; four records of one
registration kept together by hand, with the results of `epoll_ctl` ignored;
three clocks in the timeout; a byte stream cut anywhere; shutdown with work in
flight; descriptors and ids that come back and name somebody else.

What makes each part correct:

- queue and wake-up: nothing lost, doubled or overtaken; nothing stranded; shutdown ends and frees;
- registration and dispatch: the records agree; nothing acts on a destroyed or stale session; `EPOLLOUT` is asked for while there is data, and otherwise only after a Send that stored nothing;
- read path: packets come out whole, once, in order and at once, and `recv` always has room;
- write path: what is stored goes out once and in order, `EPOLLOUT` follows what waits, a message is dropped only when memory is short;
- wheel: an id is in one slot; a silent session goes neither early nor late;
- server: a session is only ever with the loop chosen for it, none that lives is forgotten, the loops share evenly, one thread per loop, the destructor ends;
- sockets and ids: a descriptor has one owner and is closed with it, epoll watches what is registered, an id leads to the handler it was given to;
- codec: decoding undoes encoding, and the two codecs agree on every host.

`PROJECT.json` lists every hazard found at its line, with the properties that
watch it or the reason why none does. Six of them are things the code simply does,
which the modules show and the properties exempt rather than catch: a session that
is destroyed while registered stays in `handlers_` (`EventLoop`); a read buffer grows
while every read ends inside a packet (`PacketReader`); a packet without memory is
dropped, and a `Send` of no bytes closes the session (`EventLoop`, `PacketWriter`);
`ID_COUNT` wraps to the id of a live handler, and descriptor 0 is never closed
(`AcceptLoop`).

## 2. The modules

| Module | Models | Depends on |
|---|---|---|
| `EventChannel` | abstract: what `ProcessEvent` promises a caller on another thread | |
| `InformQueue` | the queue, `informed_`, the eventfd, the drain, the destructor | instance of `EventChannel` |
| `EventLoop` | registration, dispatch, handlers, callbacks, queued Events of one loop | |
| `Buffer` | the member functions of `Buffer` as actions on its four fields | |
| `PacketReader` | `TcpSession::HandleRead` over a byte stream | extends `Buffer` |
| `ByteQueue` | abstract: what a session promises of the bytes it is given to send | |
| `PacketWriter` | `WriteInLoop`, `Buffer::Write`, `HandleWrite`, byte by byte | extends `Buffer`, instance of `ByteQueue` |
| `TimingWheel` | the wheel, the timerfd, `ResetTimingWheel` | |
| `TcpServer` | server, loops, threads and acceptor from `Start` to the destructor | |
| `AcceptLoop` | a server without loop threads: `Socket`, `Acceptor`, descriptors, ids, the accept loop | |
| `Codec` | `EncodePhdr`, `DecodePhdr`, `push_pack_head`, `pop_pack_head` and what they call, as operators | |
| `InformQueueProofs` (with `EventChannel`), `EventLoopProofs`, `PacketReaderProofs`, `PacketWriterProofs`, `TimingWheelProofs`, `TcpServerProofs`, `AcceptLoopProofs`, `CodecProofs` | theorems | extend the modules of these names |
| `MCEventLoop` | the symmetry set TLC uses | extends `EventLoop` |

Definitions keep the names of the code without the trailing underscore. The
definitions named `...Nothing`, `...TooMuch`, `...GivesUp` and the like, each
introduced as "A faulty ...", are plausible bugs in the definition that follows
them. Nothing uses them; putting one in the place of the definition makes TLC
report the property that `PROJECT.json` pairs it with ("mutants").

**InformQueue.** One step is one access to shared memory or one system call.
`Push` is the part of `ProcessEvent` up to `event_queue_.push`; `TestAndSet` and
`WriteFd` are `Inform`; `ReadFd`, `PopEvent`, `PopEmpty` and `Clear` are
`InformHandler::HandleRead`; `Poll`, `PollOther` and `Check` are `Loop` and the
`while` in `Run`; `Close` and `Destroy` are the two destructors.
`boost::lockfree::queue` is external and taken to be linearizable.
`EventChannel` hides flag, eventfd and threads; the refinement maps `pending` to
`event_queue`, `delivered` to `handled`, `discarded` to `freed`.

**EventLoop.** A handler that calls no user code is one step, since all it
touches belongs to the loop's thread. `HandleRead` is cut at its calls of
`ProcessData`, where `CallbackSend` and `CallbackStop` may happen any number of
times to any session. The other threads (`NewSession`, `PostRegister`,
`UserSend`, `UserStop`, `UserDrop`) act between any two steps. `epfd` is the
kernel's interest list; `EpollCtl` fails where `epoll_ctl` does, silently, as
the code ignores it. `batch` is what is left of `ep_events_`. `Alive` says that
some `shared_ptr` exists, so that a `weak_ptr` can be locked. The wheel is here
a set of ids, and a sweep may find any of them timed out. A write may store
nothing (`StoreData`), because it has no bytes or because `Buffer::Write` failed,
which `WriteInLoop` ignores; `EPOLLOUT` is asked for all the same. The history `vain`
holds the sessions to which that happened with nothing else to write, until they store
something or are removed for it. The history `cleared` holds those that were removed
and not sent to since, which may have unsent data that nobody watches: a later `Send`
brings it back under watch.
`BatchIsCurrent` is about steps: an entry of the batch becomes stale only in the step
in which its session leaves `handlers_`, so a removal in an earlier round, undone by a late
`Send`, excuses nothing. Assumed: a session has an id and a descriptor of its own
(`AcceptLoop` drops this), and a `Clear` of the user's does not call back into the
loop.

**Buffer, PacketReader.** A byte is its place in the peer's stream, so one that
is lost, doubled or misplaced shows. `GetPacketLength`, which is the user's, does
what tcp_session.h:28 asks: 0 for an incomplete header, the length of the packet
whose header is at the front, and any length at all when the bytes at the front
are no header (the model would not hide a framing error, it would run on with
it). `RecvFinished` stands for the end of the stream, an error, and the 0 that
`recv` returns when it is called without room.

**PacketWriter.** A byte is its place among those that were stored. A turn of
`Buffer::Write`'s loop (`WriteGrows`), its failure (`WriteDrops`) and its success
(`WriteStores`) are steps, each of the last two with the `RegisterHandler` that
follows it in `ProcessEventInLoop`; `send` (`SendSome`, `SendFails`) and the
`Adjust` after it are the two steps of `HandleWrite`. After `SendFails` the loop
removes the session; what waits stays in the buffer and a later `Send` registers
it again, as in the code. The refinement maps the queue of `ByteQueue` to what is
in use of the buffer. `EventLoop` keeps of all this only how many writes are
unsent. A message may have no bytes: it is stored, EPOLLOUT is asked for, and if
nothing else waits `send` returns 0 and the session is removed. The history
`vain` records that EPOLLOUT was asked for without a byte to show for it, after
such a message or a dropped one.

**TimingWheel.** `clock` is real time; `now_sec` is copied from it once per round
(`NewRound`); the timerfd (`Expire`) counts seconds at a fixed offset into them;
`idx` advances by what `TimerRead` finds. `MaxLag` bounds how far the loop falls
behind each of the two. Histories `active` and `heard` record when a session last
completed a read or registered, and when anything last arrived.

**TcpServer.** The main thread makes loops and threads one after the other, then
accepts. `Compare` reads `thread_id_` and is a step of its own, so that
`BeginRound` of the loop's thread can come between it and `RegisterInline`. How
an Event is noticed is left to `InformQueue`: a round may take any number of
Events off its queue. Queue and table hold a session by `weak_ptr`; `eh` is the
`shared_ptr` of `AddNewSession` (null if `NewSession` made nothing) and `owned` the
sessions the user's code holds one of. `Alive` is what `lock` finds: `RegisterQueued`
takes the REGISTER of a dead session without a trace, so one that only
`AddNewSession` held is registered only if the loop is quicker than `Return`; `RegisterInline`
does nothing for a null session. `UserDrop` may come at any time. What a loop
otherwise does to its sessions, in detail in `EventLoop`, is here that it may
register any that lives (`RegisterForWrite`: a `Send` handled before the REGISTER or
after a removal) and remove any in its table (`RemoveHandler`, whose `Clear` may
drop the user's reference). A session that dies while registered stays in
`handlers`, as in the code. The history `removed` is what lets `NoneForgotten` tell
a session that was taken out of the table from one whose REGISTER was lost.

**AcceptLoop.** With `thread_num` 0 the acceptor and the sessions share one loop
on the thread that calls `DoAcceptLoopOnce`, so the module can follow the life of
every descriptor in one place: `CreateFd` and the calls of `Listen`, one step each
(`ListenCall`, `ListenFails`), `Start`, and then rounds of the loop (`Poll`,
`Dispatch`, `DispatchSkip`, `BatchDone`) with the handlers of acceptor and sessions
and the user's calls between any two steps. `file` is the kernel's table, in which
the smallest free descriptor is given out next, also to the rest of the program
(`OtherOpens`, `OtherCloses`); `interest` is the list of `epfd_`, from which closing
removes a descriptor too. A handler is the value `ID_COUNT` would have without
wrapping, and `Id` is the `uint32_t` it gets; `handlers`, `interest` and `batch`
know it by that id only. `serving` is the local `eh`, whose `shared_ptr` is dropped in
`Release`. The entry of a batch carries the file it was reported for, which the
code cannot see and `ServedAsReported` compares. The module shows what the wrap
does when it comes: the new session replaces another handler in `handlers_` and
erases it there when it goes. With `thread_num` 0 the acceptor is made first, so
the first id that comes back is its own, and the server goes deaf. It also shows
what the test `fd_ > 0` in `~Socket` costs a program without standard input: a
session on descriptor 0 is never closed and stays watched.

**Codec.** A buffer is a function to signed chars, so conversions to `char` wrap and
those through `unsigned char *` wrap back; a `uint64_t` is the pair of its halves;
the byte order of the host is the constant `LittleEndian`. There are no actions: the
module holds operators, and what they do is proved for all arguments.

## 3. The runs

| Run | Bounds | Shows |
|---|---|---|
| `inform` | 3 producers, 2 Events each | `OneWakeup`, `OnceInOrder`, `OnlyClearStrands`, `ImplementsChannel` (refinement), `WakeupDrains`, `CloseEnds` (liveness) |
| `inform_lost` (violation) | 1 producer, 2 Events | an Event stays in the queue for ever |
| `loop` | 2 sessions, 2 queued Events, 1 unsent write each | `Coherent`, `BatchIsCurrent`, `NoEmptyWrite`, `PendingIsWatched`, `DestroyedUntouched` |
| `loop_badfd` (violation) | as `loop` | a registered session that nobody watches |
| `loop_again` (violation) | as `loop` | a write that would block removes the session |
| `reader` | 4 packets of 2 to 4 bytes, at most 13 bytes, buffer 3, 6 or 12 | `Framed`, `NothingWaits`, `RoomToRecv`, `GivenBack` |
| `writer` | messages of 0 to 3 bytes, 9 bytes in all, buffer 1, 2 or 4 | `SentInOrder`, `WatchedWhileWaiting`, `ImplementsQueue` (refinement), `DropsOnlyWhenFull`, `SentOrRemoved` (liveness) |
| `wheel` | 1 session, 4 slots, 9 seconds, lag 2 | `OneSlot`, `NeverEarly`, `NeverLate` |
| `wheel_silence` (violation) | 1 session, 4 slots, lag 1 | a session stopped for silence while data arrives |
| `server` | 2 loops, 4 connections | `PlacedOnce`, `NoneForgotten`, `SpreadEvenly`, `NoneOutlivesServer`, `DestroyEnds` |
| `server_threads` (violation) | 2 loops, 2 connections | two threads in one loop |
| `accept` | 4 descriptors (0 to 3), 5 ids, 8 handlers | `OwnFds`, `AcceptorListens`, `InterestIsCurrent`, `ServedAsReported`, `FoundById` |

Why the bounds are enough. The wake-up protocol is about who sets the flag: two
producers race for it, a third can be between the two, and a second Event of the
same thread shows order. In `EventLoop` two sessions let a callback of one act on
the other; two queued Events let a `Send` and a `Stop` (or the REGISTER) meet in
either order; a write is stored, fails, or meets one that is not sent yet, and a `send` may take
part of a write and leave it. With room for two writes the run takes several times as long
and shows the same. What TLC checks there is proved for all bounds. In `PacketReader` a buffer of 3 with
packets of up to 4 grows, fills exactly, is moved and runs out of memory; in `PacketWriter` a buffer of 1 does the same with
messages of up to 3, and nine bytes in all fill its largest block twice. In
`TimingWheel` nine seconds let the wheel of four turn twice; the two bounds
(`Size - MaxLag - 1` and `Size + 2 * MaxLag`) are tight: both become false when
they are sharpened by one. They and `OneSlot` are proved for any number of sessions,
any wheel and any lag. In `TcpServer` four connections over two loops give
`next_loop_` two whole turns and a loop two sessions, one of which may be dropped, removed or
registered early while the other waits in the queue; all but `DestroyEnds` is proved for any number. In `AcceptLoop` the acceptor, the loop's own
two handlers and five sessions go through five ids, so three of them come back while
their first owners may live; four descriptors, one of them 0 and either free or
taken at the start, leave room for two or three sessions, so descriptors run out,
are closed within a batch and given out again in it; all of it but the wrap itself is
proved for all bounds. The sessions are symmetric in
the run `loop`; no liveness run uses symmetry.

`CHECK_DEADLOCK FALSE` is set where the system really stops: a destroyed loop or
server, the last second of the clock, a closed connection. `EventLoop`, `PacketWriter` and
`AcceptLoop` go on for ever and are checked for deadlock (a process that called
`abort` stutters).

### Fairness

- `InformQueue`: a thread that is inside a call or in `Loop` goes on (the
  scheduler runs every thread): weak fairness on `Loop` and on the two steps of
  `Inform`. `Poll` is strongly fair, because epoll rotates its ready list and the
  eventfd is level-triggered: while it stays readable it is reported sooner or
  later, even if other handlers fill the 64 entries of a round. Nobody has to
  call `ProcessEvent` or destroy the server.
- `TcpServer`: the main thread goes on within a call, the destructor runs once
  begun, each loop's thread runs and each round ends (`epoll_wait` has a timeout
  of 500 ms, the Events are finitely many). The user need not accept or destroy.
- `PacketWriter`: weak fairness on the thread's own steps inside `WriteInLoop` and
  `HandleWrite`; strong fairness on `HandleWrite`, since the loop returns to
  `epoll_wait` however often it is asked to write in between. It stands for an
  assumption about the peer too: one that reads nothing for ever ends in an error
  (the user's `Stop` or TCP's own timeout). Nobody has to send.

### What the violation runs found

1. `inform_handler.cpp:34`: `informed_.clear()` comes after the drain. An Event
   pushed between the last `pop` and the `clear` finds the flag set and wakes
   nobody; it waits for somebody else's call. `OnlyClearStrands` shows that this
   is the only such window, and `WakeupDrains` that the next wake-up repairs it.
2. `event_loop.cpp:231`: until the loop's thread has passed `event_loop.cpp:65`,
   the main thread passes for it and registers sessions beside it.
3. `tcp_session.cpp:128`: `EAGAIN` is tested after `EINTR != errno`, so a full
   socket buffer closes the session, against the comment at line 133.
4. `acceptor.cpp:27`: a failed accept becomes a session on the fd -1.
5. `tcp_session.cpp:76`: an incomplete packet skips `last_read_time_`, so a slow
   large packet is a "read timeout".

## 4. The proofs

All theorems hold for every value of the constants under the named assumptions of
the modules (sizes and bounds are naturals, `NoSession` is no session, the size of
the wheel is a power of 2, a packet is at least as long as its header, and so on).

- `InformQueueProofs`: first the abstract channel, `ChannelOnceInOrder`. Its invariant
  adds that an open channel has discarded nothing, so that delivering moves the head
  of `pending` to its neighbour place in `delivered \o discarded \o pending` and the
  history does not change; posting appends to it. Then the queue: the invariant is
  `TypeOK /\ OneWakeup`, proved together because the eventfd's bound of 1 follows
  only from there being one wake-up. From it: `WakeupIsUnique`,
  `StrandedOnlyByClear` (an action property), the refinement theorem `Refinement`
  (`Spec => Channel!Spec`), and `HandledOnceInOrder`, which carries the channel's
  theorem over.
- `EventLoopProofs`: `Coherent`, `NoEmptyWrite` and `PendingIsWatched` are one
  inductive invariant, with the fact that nothing is done to a session before it is
  made (`Untouched`): the interest list agrees with `status_` because ADD, MOD or DEL is chosen from a
  `status_` that agreed before. `RegisterKeeps` and `RemoveKeeps` say once what the two
  operators keep. Two action properties stand on top of it. `BatchStaysCurrent`: what
  epoll reports is current because list and `status_` agree, and only the end of a
  registration takes something from `status_` that an entry may still name
  (`RegisterKeepsCurrent`, `RemoveKeepsCurrent`, and a lemma for each part of a round).
  `DestroyedStaysUntouched`: each step leaves a destroyed session alone.
- `PacketReaderProofs`: the invariant `Kept` says that what is in use of the
  buffer is the stretch of the stream between what `ProcessData` was given and
  what `recv` has given. `LengthIsRight` derives from it that `GetPacketLength`
  sees the next header and no other; `Grow`, `Adjust`, `Store` and `ReadDone` are
  then shown to keep it. It yields `PacketsAreFramed`, `NoPacketWaits`,
  `RecvHasRoom` and `RoomIsGivenBack`.
- `PacketWriterProofs`: the invariant `Kept` says that what was sent and what is in
  use of the buffer are two neighbouring stretches of what was stored;
  `StretchConcat` and `StretchCut` say how stretches are joined and cut. Each step
  is shown to keep `Kept` in a lemma that also says what it does to the queue, so
  that `Refinement` (`Spec => Queue!Spec`) and `BytesInOrder` follow from the same
  lemmas. With `AtRest` (nothing that was sent is left in the buffer outside
  `HandleWrite`) it yields the action property `DropsAreForced`.
- `AcceptLoopProofs`: all six invariants of the run, from one inductive invariant,
  `IInv`. `OwnFds` alone is not inductive: that a closed descriptor leaves nobody
  else's interest behind needs `OneFile` (a live handler has one file and its
  descriptor leads to it) and `WatchedFiles` (a descriptor is watched with the id of
  the handler it was opened for). `ServedAsReported` follows from `Reported`, that
  entry, handler and file carry one id, and `SameRemainder`, that numbers with the
  same remainder are equal or a whole turn apart. `DestroyKeeps`, `RemoveKeeps`,
  `RegisterKeeps`, `AddKeeps` and `ForeignKeeps` say once what each change of the
  tables keeps; `NewFdIsFree` rests on every set of naturals having a least element.
- `CodecProofs`: `Digits` and `Join` say that four bytes and a number below 2^32
  determine each other. From them, `Uint32RoundTrip`, `Uint32Onto`,
  `PhdrRoundTrip` for a header at any place of a buffer, and `SameBytes` and
  `SameHeader`: the two codecs write and read the same on either byte order.
- `TimingWheelProofs`: `TypeCorrect` and `SessionsHaveOneSlot` from the structure of
  the wheel, then its two promises about time, `SilenceEnds` and `ActiveIsKept`.
  Neither bound is inductive, because it compares real time with what the loop will
  find, and between the two lie a `now_sec_` and a timer that are late separately.
  The invariant `Timing` counts turns instead of seconds: `Turns` is the number the
  wheel has made, which follows from the clock, the timer's phase and what was
  counted but not turned yet; `Ahead` is how many it takes from the current slot to
  that of an id, and their sum is the turn at which the id is visited. It stays the
  same while time passes and while the wheel turns. `LateBound` and `EarlyBound`
  bound it from above and from below by the session's last activity; `Lags` and
  `ReadTimes` say how far the clocks the session was put by may be off. `EarlyBound`
  has a second case, for a session that has read since it was put: its visit may
  come at any time, but then finds a `last_read_time_` that moves it on.
  `WrapIsAhead` relates the mask `& (size - 1)` of the code to turns.
- `TcpServerProofs`: `SessionsArePlaced` needs that `AddNewSession` holds the session
  accepted last and the loop that was chosen for it (`PostsTarget`, between
  `Accept` and the end of `ProcessEvent`), and that no queue has a session twice
  (`Distinct`), from which `CountElements` counts it. `LivingAreKept` is part of the same
  invariant: a null session is owned by nobody when it is posted, so it need not be
  placed, and a session whose REGISTER is taken and not handled is dead.
  `LoadIsSpread` needs to know
  where in its round `NextLoop` is: `TakesTurns` says that the loops before
  `next_loop_` have one session more than the others, for some number; `AcceptTurns`
  is the step, at the end of a round and within it. That the proof goes through
  whatever `thread_id_` says shows that both ways of `ProcessEvent` place a session
  right; what goes wrong on the inline way is only who does it (`server_threads`).
  `ThreadsEndFirst` rests on `JoinedHaveEnded`: a thread that was joined has ended and
  stays so, and none is joined while `Start` may still make one.

Only model-checked: the liveness properties (`WakeupDrains`, `CloseEnds`,
`DestroyEnds`, `SentOrRemoved`), which depend on fairness, outside what the prover
handles. Every other property of a passing run is a theorem. What a violation run
finds is a counterexample and needs no proof.

## 5. Not modelled, and why

- The move constructor of `Buffer`: nothing uses it. `SetNoDelay`, which the
  constructor of `TcpSession` calls: it changes nothing that is modelled.
- `Start` returning nothing: nobody looks at the value, and what a compiler makes of
  it is not a matter of states.
- A buffer of 2 GB (`Buffer` assumes that `realloc` fails first), producers that
  push for ever (every module bounds its Events), and a `Clear` that calls back into
  the loop: listed as hazards with their notes.
- Addresses and ports, `GetCurrentTimeMsec`, logging, the build files, `include/`
  (copies of headers) and `deps/` (third-party).

## 6. Plan

Done, in this order: `EventChannel` and `InformQueue` with proofs; `EventLoop`
with proofs; `TimingWheel`; `TcpServer`; `Buffer` and `PacketReader` with proofs;
`ByteQueue` and `PacketWriter` with proofs; messages of no bytes and the liveness of
the write path; `AcceptLoop` with proofs; `Codec` with proofs; the theorems about time in
`TimingWheel` and those about `TcpServer`, after which every safety property of a
passing run is proved.

Next modules:

1. A composition of `TcpServer` with `InformQueue`, in which a REGISTER may be
   stranded.
2. A `Clear` that calls back into `Send` or `Stop`, as a variant of `EventLoop`.

Next theorems: those that the two modules need; in particular that what `InformQueue`
delivers late is delivered in the order in which `TcpServer` posted it.
