# A TLA+ model of cort_proto

cort_proto is a C++ library of stackless coroutines (`src/cort_proto.h`) with channels, futures, timers, an
epoll loop, TCP connections and stackful coroutines built on it. Everything happens on one thread, without a
scheduler: a coroutine runs inside the call that starts it or inside the `resume()` that wakes it, so the
difficult behaviours are not preemption but *nesting*. A coroutine woken in the middle of somebody else's loop
runs at once, and calls back into the object whose loop woke it.

The modules below are translated from the source, one action per operation. TLC checks small instances, and TLAPS
proves the core, the channels, the queue, the polling loop, the connections, the listener and the hooked calls for every value of the constants.

## The system and its parts

| Part | State | Operations | Interacts through | Hard behaviour | What makes it correct |
|---|---|---|---|---|---|
| Coroutine core, `cort_proto.h` | `cort_parent`, `cort_wait_count`, `run_function`, `cort_then_function` | `cort_start`, the `CO_AWAIT*`, `CO_UNTIL*`, `CO_YIELD`, `CO_EXIT`, `CO_END` macros, `then`, `on_finish`, `resume`, `cort_auto_delete` | pointers child to parent, nested calls | children end in any order, at any nesting; `resume()` saves the parent before the callback | wait counts are exact, no body is re-entered, no wakeup is lost or early |
| `cort_wait_n` and relatives | a helper coroutine, its count and the count of the rest | `CO_AWAIT_ANY_N`, `CO_UNTIL_ANY_N`, `cort_wait_range_any` | the core | the parent goes on while others still run, inside the helper's own activation | the parent is resumed with the n-th, neither earlier nor later; the helper is freed with the last |
| Channels, `cort_channel.h` | the objects, `pinned_object_count`, buffer size, newest waiter and queue of the older ones, per side | `wait_popable`, `get`, `pop`, `push`, `try_push`, `set_buffer_size`, `awake_all`, `close` | wakes coroutines inside its own loops | nested push and pop inside a wakeup | a promised object is there; nobody waits beside an object, a free slot or a closed channel |
| `cort_shared_future.h` | `cort_parent`, `parent_list`, `ref_count` | `start` with `add_parent` and its loops, `add_ref`, `release` | the core, `try_resume` | a resumed parent awaits again, lets others finish, or drops the last reference | each parent is known once and resumed; the future outlives its loops |
| Pod containers, `cort_util.h` | ring buffer `ptr`, `the_begin`, `the_size`, `the_capacity`; pool array | push, pop, growth | used by channels for their waiters | wrap-around with growth in two directions | first in, first out |
| Timers, `time/cort_timeout_waiter.*` | a list per timeout, a heap of lists, `that` | `set_timeout`, `clear_timeout`, `resume_on_timeout`, `~cort_timer` | resumes coroutines from the loop | lists leave and re-enter the heap; removal in the middle | the top of the heap ends first; nobody is early |
| Polling, `time/cort_timeout_waiter.*` | `epfd`, `epollfd_total_count`, per waiter `cort_fd`, `poll_request`, `ref_data` | `cort_timer_loop`, `cort_timer_poll`, `set_poll_request`, `remove_poll_request`, `close_cort_fd`, `cort_timer_destroy` | epoll, resumes coroutines in batches | a body closes or deletes the waiter of a later event of its batch | no event for one that is gone; the loop ends exactly when idle |
| TCP connections, `net/cort_tcp_ctrler.*` | send segments, receive buffer, keep-alive pool | connect, send, receive, keep alive | fd waiters, the core | partial sends, a pool of idle connections that time out | bytes in order and once; the pool holds live connections |
| TCP listener, `net/cort_tcp_listener.*` | listening fd, `accept_result`, a `cort_tcp_server_waiter` per connection | `start`, pause and resume, `stop_listen`, `keep_alive`, `remove_keep_alive` | starts coroutines in its loop; fd waiters | a ctrler ends, keeps its connection or stops the listener inside the loop over the batch; a request races its keep-alive timeout | no fd leaks; references are exact; no timeout hits a connection in service |
| Stackful coroutines, `stackful/cort_stackful.*` | stacks, local storage versions | switch, local storage | assembly context switch | storage ids reused | a value is never read under another id |
| Hooked system calls, `stackful/*fds_waiter*`, `*hook*` | `fds_array`, `current_thread_coroutine`, one timeout per coroutine | read, write, connect, accept, poll, select, sleep, dup, close, fcntl, ... | fd waiters, stack switches | a deadline of the program, timeouts of calls and sleeps share one timer; numbers of fds are reused | calls act for who runs; deadlines survive; nothing stays registered; nothing blocks the thread |
| `cort_lambda.h` | none of its own | wraps a lambda | the core | - | - |

Everything found hard to test is listed at its line in `PROJECT.json`, under `hazards`, with the property that covers it or the
reason why none does.

## Modules

### CortProto - the core (`MCCortProto`, `CortProtoProofs`)

The state is the code's: `parent`, `wait_count` and `then` are the members of `cort_proto`; `count` is the local
`current_wait_count` of an await statement; `save` is the local of `resume()` that holds the parent saved
before the callback, or the awaiter that called `cort_start`. `stack` is the part of the C++ call stack made
of coroutine bodies. Only the body on top makes a step. A body is any program written with the macros: each step
chooses the next statement, so one action stands for one statement or one return:

- `MainStart`, `StartDetached`, `AwaitStart`: `cort_start()` from the main program, from a body that does not wait, from an await statement;
- `EndAwait`, `Yield`, `Until`: the returns of a non-null pointer, with the linking (`set_parent`) and counting the awaiter does at once;
- `Finish`, `CallThen`, `Exit`: `on_finish()` and the part of `resume()` after it, including going on with the parent in the same loop;
- `Resume`: `resume()` called by an event or by another body.

Two disciplines of the callers are guards, and each is named where it stands: `Until` does not close a cycle of
coroutines that wait for each other, and `Resume` is not called on a coroutine of an await tree that is still
running. `ReentrantSpec` drops the second one, which the library itself does not keep (a channel resumes from inside
a body), and under it `NoLostWakeup` fails.

### Awaits - any n coroutines, and the shared future (`MCAwaits`, `AwaitsProofs`)

The two coroutines of the library that resume others *by hand* in the middle of their own body: `cort_wait_n`, which
`CO_AWAIT_ANY_N`, `CO_AWAIT_RANGE_ANY_N` and `CO_UNTIL_ANY_N` put between the coroutines and the one that awaits them, and `cort_shared_future`. The
coroutines that are awaited are leaves, which finish by an event of their own: from the loop, or from a body that runs, which
is how one finishes inside somebody else's activation. `stack` has a frame per activation: who, the parent that `resume()` saved, where
the body is (`wake`, `resuming` for the helper's call of `resume()`, `parents` and `check` for the future's loops), and whether this run of the
future holds a reference. `rest` is `rest_wait_count`, `phase` the resume point. `slips` is a history variable of the two mistakes below: the leaves that
finished while their helper was resuming its parent, and the awaiters that the future resumed once more. A future is counted (made by `create()`, with references of those that await it) or
not; both are initial states.

### CortChannel (`MCCortChannel`, `CortChannelProofs`)

`cort_channel` and `cort_event_channel` over `cort_channel_proto`. Objects are indistinguishable, so the container is its
size. The call stack is explicit, with a frame per running body and per loop that wakes waiters (`push`,
`awake_all` and `set_buffer_size`), and the loops' local variables are in the frames. A woken coroutine that also
waits for something else (`also`) does not run until that is done, which is when a promise can become
stale. `Close` includes the whole of `awake_all`; `awake_all` on an open channel is only in `AwakeSpec`. A `Setting` says which
coroutines push and pop, and in which amounts; `MCSettings` has a channel of objects that everybody pushes to and pops from, and one of
events with two producers and a consumer.

### PodQueue, Fifo (`MCPodQueue`, `ContainersProofs`)

`cort_pod_queue` as an array `ptr` with `the_begin`, `the_size` and `the_capacity`; `realloc` leaves `Junk` in the new part, so that reading
memory that was never written shows. `Fifo` is what it promises: a sequence with append and tail.
`IsFifo` is the refinement, with `Contents` as its mapping. The specification is called `QueueSpec`, so that `ContainersProofs` can extend the module beside `TimerHeap`.

### TimerHeap (`MCTimerHeap`, `ContainersProofs`)

The lists of equal timeouts and the heap of lists. `Up` and `Down` are `up_update_heap` and `down_update_heap`, with
their own index arithmetic (`pos>>1` for the parent, `2*pos+1` and `2*pos+2` for the children). The clock is relative: the program's
is never 0, so the special meaning of `until_ms == 0` does not arise.

### FdPoll (`MCFdPoll`, `FdPollProofs`)

`cort_timer_loop` and `cort_timer_poll` with the batch of one `epoll_wait`. `loop` is where the loop is, `body` who called the body
that runs, and `stop` where `~cort_timer` is, which runs bodies inside a body. `epoll` is the kernel's side:
the fds it watches; `EPOLL_CTL_DEL` fails exactly for one that it does not watch, and closing a fd removes it. Any
nonempty set of watched fds may be reported, in any order; a MOD only changes which events come, which the model does not tell
apart. Which timeout is next is abstracted: any that is set. A body that is being stopped does not set a new timeout.
`ref_data` is an index; one left over from a batch that was dropped points into the array of the next poll, which is the
same stack address.

### TcpConnection (`MCTcpConnection`, `TcpConnectionProofs`)

`cort_tcp_ctrler` with its `connection_waiter` (`held`), and the connections. A connection is a record of the members that decide
what it does: references, parent, whether it has a fd, the events it polls for and the result of the last poll, its timeout
(`timer`) and the flag of one that is over (`over`), its position in the pool, and its callback (`call`): the operation it
is in, `stop_poll` between operations, `pooled`, or `release`. Bodies are atomic; only the loop around `recv()` takes several
steps, during which `busy` keeps everything else out. `Notify` is what a resumed connection does, by its callback.

- `Connect`, `TrySend`, `TryRecv` call an operation, which may end at once; `RunConnect`, `RunSend` and `RunRecv` are the bodies when they are resumed by
  `TimedOut` or `Polled`. The ctrler's own code between operations is free: it goes on at once, as `cort_tcp_request_response` does, or waits for
  something else meanwhile, and events come between.
- `OnConnectionInactive`, `OnFinish`, `CloseConnection` and `Clear` end an exchange. `ClearKeepAlive` and a failed `connect` give up connections of
  the pool.
- Bytes to send are numbered, so the order and the cuts show; a slot of the array has the code's base, length and tag, and stays behind the array's
  end with its old content, as in the code. Memory blocks are known by their first byte. Received bytes are counted; `recv_check` may answer
  anything that fits its description, except a hint below what is there already. `connect`, `send`, `recv` and `malloc` may return anything. Which
  error is reported is not modelled.

All connections here have the same address, so the map of vectors is one vector.

### TcpListener (`MCTcpListener`, `TcpListenerProofs`)

The listener is one coroutine with the places of `start()` in `at`: `accept` and `create` are inside one activation, so nothing of the loop
happens there (`InLoop`), but the ctrlers it starts run there, and may end (`CtrlerEnds`), keep their connection or call `StopListen`. `accepted` is
`accept_result`, from whose end connections are handed out. `waiter` is the `cort_tcp_server_waiter` of each client: references, whether it
is kept, and its timeout. `KeptEvent` is `remove_keep_alive` after an event and `KeptTimeout` after a timeout. The kernel's backlog is reset when the listening fd
closes; a client has one connection at a time. A ctrler's work between start and end is in TcpConnection.

### StackfulFds (`MCStackfulFds`, `StackfulFdsProofs`)

Stackful coroutines and the system calls hooked for them. `running` says on whose stack the thread is and `current` is `current_thread_coroutine`: every
hooked call acts for `current`, and every switch has its assignment in the code or has none (`Nap` switches without one, `Finish` leaves the finished
coroutine there). A call that would block goes through the same tail, `WaitsFor`: a timeout unless one is set, `set_cort_fd`, `set_poll_request`, the yield; `Resumes` is the code
after the yield, for each kind of call. `Io` and `Accept` try again, `Connect` and the waits for events return at once. `table` is `fds_array` with
the order of its entries, since `find_fd` takes the first and `remove_fd` moves the last one into the gap. `raw` are fds that came from
neither `socket()` nor a copy of such a one. A timeout is kept as the time that is left; `deadline` is a ghost: the timeouts the program set itself.
The order of timeouts is any that is by time (`IsNext`); TimerHeap is about whether the heap gives it.

The program keeps two rules that the header asks for, as guards: a stackful coroutine is started from the usual stack, and an fd is used by
the coroutine that opened it (`Mine`). `Ties` lets a sleep end in the same millisecond as the deadline, which the run leaves out; see below.

## Runs

| Run | Instance | Shows |
|---|---|---|
| `cortproto` | 4 coroutines, one deletes itself, one has a then function; 3, 2, 1 and 1 statements (`MCFuel`) | `WaitCountExact`, `NoReentry`, `SavedParentWaits`, `NoLostWakeup`; `ResumedWhenAllDone`; `StartedFinishes` |
| `awaits` | 2 coroutines with two await statements each, any n of 3 leaves, a leaf, or a future; 2 helpers | `AnyExact`, `HelperLeavesWithLast`, `FutureKnowsWaiters`, `FutureOutlivesRuns`; `FutureServes` |
| `channel` | `Everybody`: 3 coroutines that push and pop, buffer 0 or 1; `Events`: 2 producers of 1 or 2 events, one consumer, buffer 0 or 2; 2 statements each | `GrantsBacked`, `NoRecverStranded`, `NoSenderStranded`, `WaitsInOnePlace`; `CloseReleases` |
| `pod_queue` | initial capacity 2, up to 8 elements: grows at 2, 3, 4 and 6 | `IsFifo` |
| `timer_heap` | 4 waiters, timeouts 0, 1, 3, 4, clock to 4 | `HeapExact`, `NextIsEarliest`; `NeverEarly` |
| `fd_poll` | 3 fd waiters, 3 fds in all, one failure of epoll_ctl | `CountExact`, `PendingValid`, `ReturnsIdle`; `IdleReturns` |
| `tcp_connection` | one ctrler that sends up to 4 bytes in segments of 1 or 2, one that sends 1 and receives up to 3 with timeouts, two that send or receive up to 1; 2 connections; `MCLoads` | `PoolExact`, `RefsExact`, `StreamExact`, `BlocksExact`, `RoomToRecv`, `WaitersPolled`; `IdleLeaves` |
| `listener` | 4 clients, room for 3 connections, batches of 2 | `FilesExact`, `RefsExact`, `ServedUntimed`; `KeptLeaves` |
| `hooks` | 2 coroutines, 2 fds, tables of 2 entries in all, sleeps of 1 and 2 ms, a deadline of 2, a timeout of a call of 1, timeouts up to 1 ms overdue | `CurrentIsSelf`, `WatchedExact`, `DeadlineKept`, `NothingBlocks`; `TimedCallsReturn` |
| `timer_late` (violation) | 8 waiters, each with its own timeout | `NextIsEarliest` fails |
| `listener_full` (violation) | the listener of `listener` | `EndsOnlyWhenStopped` fails after a pause |
| `shared_future` (violation) | the instance of `awaits` | `ResumedWhenDone` fails: a coroutine is resumed before the leaf it awaits has finished |

The runs check what could be wrong; that the state has its type (`TypeOK`) is a conjunct of the inductive invariants of
`CortProtoProofs`, `ContainersProofs` and `TcpListenerProofs`, and stands as documentation of the state in the other modules.

Every property of a passing run has a mutant in `PROJECT.json`: an operator `M...` that stands beside the one it would replace,
with the mistake a programmer could have made there, under which TLC finds the property violated.

**Bounds.** `Fuel` bounds the statements of one body; four coroutines give a parent with two or three children, and a nested
resume below and above them. In the channel, two statements per coroutine are a push and a wait, in either order, and three
coroutines are a waker, one that is woken and interferes, and one that suffers from it. The ring passes through both
directions of growth, from even and odd capacities, with every position of its first element. The heap
invariant breaks only when a list moves down into a place whose two notions of parent differ: TLC finds no violation with six
lists that are set at one moment and a first one with seven. So `timer_heap`, with four, holds, and its claim is about heaps of that size;
`timer_late` has more waiters. A batch of three events lets one body change the waiters of two later ones, and three fds in
all let one of two waiters reopen. Two connections are enough for the pool to move its last one into a gap; four bytes fill the three slots and
leave one to be added after a cut that moved the last slot to the front. The loads of `MCLoads`, and the two settings of
the channel, are separate behaviours of one run. Three leaves let two finish inside an activation and leave one that waits; two awaiters are
one that is resumed and one that is still in the future's list, and with two statements the resumed one comes back. The listener's
four clients with three files and batches of two give a full batch, a second one, and a client for whom there is no file. Two
stackful coroutines with two fds close and reuse each other's numbers, and the values of the timeouts make each of deadline, call and sleep the earliest in
some state. `SizeMod`, `IntMod` and `CountMod` keep the wrap-around of `size_t`, `int` and `uint32_t` at a small modulus;
they are larger than any legal value, so a wrap shows as a wrong value and never as a coincidence. In `Awaits` the future decrements
coroutines that do not wait for it any more, so a count goes below zero and stays there until it is set again: `SizeMod` is larger than the number of all decrements
there can be (`Decrements`, at most 10 with these instances), as 2^64 is.

**Deadlock** is checked for the TCP connections only: the other systems may stop, when the programs' fuel is used up, all coroutines
have finished, or the loop has returned.

**Fairness.** `CortProto` and `CortChannel` use `WF_vars(Next)`: the thread keeps running what is on its stack, and events that coroutines
yielded for come. Fuel makes every program finite, so nothing stronger is needed. `Awaits` says the same in two parts: activations go
on to their end, and from the loop the event of each leaf comes. `FdPoll` uses weak fairness
of the loop and strong fairness of `BodyReturns`: a body is a finite piece of code, so one that gets the processor again and again
returns, also when it runs `cort_timer_destroy` in between. `IdleReturns` assumes of the program only that from some moment on nothing is
set or watched. `TcpConnection` uses strong fairness of each timeout, since `cort_timer_loop` serves one that is over before it polls, also
when other bodies run in between, and weak fairness of a body that is at `recv()`. `TcpListener` has the same for the keep-alive timeouts, and every ctrler ends.
Its `accept()` loop does not return while clients keep arriving (`cort_tcp_listener.cpp:178`), so `KeptLeaves` has the premise that the thread is in its loop
again and again. `StackfulFds` assumes that a coroutine ends its calls or itself, that the loop resumes what it has to, and that time passes, with strong
fairness because other steps interrupt it.

## Proofs

`CortProtoProofs` proves `Spec => []IInv` for every finite set of coroutines, every fuel and every choice of auto-deleted
ones and then functions, and from it `TypeOK`, `WaitCountExact`, `NoReentry`, `SavedParentWaits`, `NoLostWakeup` and the action property `ResumedWhenAllDone`.
The only assumption is `CortAssumption`: the set is finite and its cardinality less than the modulus of `size_t`.

None of the checked invariants is inductive. That a wait count is exact depends on the parent which `resume()` decrements being a
parent that waits (`SavedParentWaits`); that depends on `save` still being the parent when the callback is over
(`Reports`), which depends on nobody changing the parent of a running coroutine, and that on no body
running above one that awaits it (`Apart`). `CountsLive` says where the two counters may be non-zero: `count` only in a running
body, `wait_count` exactly in one that awaits. `IInv` is the conjunction. The arguments about cardinalities are about
`Kids(c)`: a step adds or removes at most the coroutine on top, or adds the set `D` of an `Until`, and `FS_AddElement`,
`FS_RemoveElement` and `FS_Union` give the new number. `Awaits`, the transitive closure of `Kids`, is
defined by sets closed under `Kids` and not by recursion, so that a step is shown to keep `Apart` by
exhibiting one closed set (`AwaitsStep`). The discipline in `Resume` is used in exactly one place: for `Apart`. There is one lemma per action; `NextKeeps`
puts them together.

`ContainersProofs` is about the library's two containers. Of `PodQueue` it proves that the ring's indices stay in range and it never exposes junk (`QueueInvariant`) and that it
implements `Fifo` (`RingIsFifo`), for every initial capacity of at least 2 and any number of growths. `GrownRing` is the
heart: after either kind of reallocation the same elements are at the same logical positions; `PushAppends` and
`PopRemoves` lift it to `Contents`.

Of `TimerHeap` it proves `HeapExact` and the action property `NeverEarly`, for any waiters, timeouts and clock. `TimerInv` is the invariant: it ties an entry
to the list its waiter points into, bounds its end by the list's timeout from now (which keeps a list sorted when its next entry is put in front), and says that the heap has each list that is not empty
`Once`. The point is that `up_update_heap` and `down_update_heap`, whatever they compare, move elements along a path that meets no index twice
(`ShiftKeeps`); so the heap loses no list even where the two disagree on the parent and its order is lost. The paths are recursive: `WalkExists` and `WalkIsPath` prove for any walk on which a measure
falls that the recursive function exists and what it gives, by induction in first-order form: a set that has 0 and with a number the next has them all (`SetInduction`).
`NeverEarly` needs the hypothesis `Short`: the timeouts are below half the modulus of `int`, as those of the run are; a longer one may be truncated to a shorter wait.

`FdPollProofs` proves `CountExact`, `PendingValid` and `ReturnsIdle` for every finite set of waiters, any number of fds and any modulus of
the counter above the number of waiters (`FdAssumption`). None of the three is inductive: the count changes by one where a fd enters
or leaves epoll, so it is exact only because, until `epoll_ctl` fails, epoll watches exactly the fds with a request
(`RequestsWatched`), which `close_cort_fd` relies on when it looks at `poll_request` and not at epoll. `TakenOut` and `LetGo` are the two
ways a waiter leaves, watched or not; every body's operation is one of them. `BodyKeepsPending` is the argument about the batch: an
event still to come stays valid if what it is about does not change or its slot is emptied; a body may do anything else. `BodiesOK` says which
nested runs there can be, so that a loop that has returned has no body left.

`TcpListenerProofs` proves `FilesExact`, `RefsExact` and `ServedUntimed` for any number of clients, files and batches. The strengthening is
`OneConnection`: a client is in the backlog or open, and at most once in `accept_result`, so that handing out the last of the batch takes exactly that one
from it (`FrontLast`). The mistakes it excludes are those of the mutants: forgetting the rest of a batch, or a
reference or a timeout that survives `remove_keep_alive`.

`StackfulFdsProofs` has two invariants. `WaitInv` gives `CurrentIsSelf` and `WatchedExact`: that epoll watches exactly what suspended calls wait
for needs that only a suspended coroutine has a request, and that it waits for an fd it opened itself, so nobody else's `close()` takes it out.
`TableInv` gives `NothingBlocks`; its lemmas are about `fds_array`: what appending an entry, replacing one in place and moving the last one
into a gap leave in the table (`AppendHas`, `ReplaceHas`, `RemoveHas`), where several entries may have the same fd.
`TimeInv` gives `DeadlineKept`: a coroutine has at most one timeout and one sleeper; the timeout is its call's or its deadline, and a sleeper is set only
before a deadline that ends later (`TimesOf`). `~Ties` is a hypothesis of the theorem and used in one place, for "later": the loop then serves the sleeper
first. One lemma, `OneActs`, says that what a coroutine does to its own times leaves those of the others alone.

`CortChannelProofs` has three invariants, each resting on the ones before. `PlaceInv` gives `WaitsInOnePlace`, for any use of the channel,
and with `awake_all` on an open channel too: the stack holds each running body once (`StackOK`), a list exactly those that wait in it (`ListOK`), so a loop that takes the
oldest waiter and is then left alone by nobody, because the woken body pushes, pops and waits again inside it, still finds every waiter once. `GrantInv` gives
`GrantsBacked` and `NoRecverStranded`. It says what `after_push` has still to hand out (`HandsOut`), that receivers wait only for objects that are not there unless
an `after_push` is about to wake them (`RecversServed`), and that after `close()` some `awake_all` on the stack will find each waiter (`ClosedWoken`). It has two hypotheses.
`Disciplined`: objects are pushed one by one, or there is one consumer; without it the property is false (5 below). `Counts(most)`: no push is of more than `most`
objects, and as many as all statements could push stay below the modulus; `SizeBounded` turns that into a bound of `size`. Both settings of `MCSettings`
satisfy them (`most` is 2, and 12 < 15). `RoomInv` gives `NoSenderStranded`: with a single consumer that does not push, no more senders wait than objects exceed the buffer, counting the
sender that a push is about to suspend and the senders that `set_buffer_size` frames on the stack have still to wake (`Owed`), and none waits when the consumer does.

`TcpConnectionProofs` proves `ConnInv`, the conjunction that gives `PoolExact`, `RefsExact`, `WaitersPolled` and `RoomToRecv`, one lemma per action. `OwnersInv` says who
owns a connection by its callback: a ctrler that is in the very operation, a ctrler between operations, the pool, or nobody but its own `release`; the references follow.
`PoolExact` needs the arithmetic of taking connections out of a vector by moving the last into the gap, or by cutting off its end. `RecvInv` relates the
size of the buffer, what is received and what `recv_check` may hint at, so that each of the four paths that grow it leaves room.
The send buffers have an invariant of their own, `BufferInv`, which does not depend on `ConnInv`: the slots in use are segments without gaps, beginning where
the kernel stopped and ending with the last byte queued; only the first can be cut, so only its address can differ from what `malloc` gave; and `blocks` are those of the segments. `StreamExact` and `BlocksExact`
follow (`SegmentsJoin`, `SendSome`, `SegmentAdded`). `FlattenSeq` is a fold, but over at most three segments, so its recursive function can be written down and no induction is needed (`FlattenIs`).

`AwaitsProofs` proves `AwaitInv`, which gives `AnyExact`, `HelperLeavesWithLast`, `FutureOutlivesRuns` and `FutureKnowsWaiters`, for any finite sets of leaves,
awaiters and helpers. None of the four is inductive, since all depend on what a body may do inside somebody else's activation. `StackInv` says who may be below whom:
only who resumes by hand (`resuming`, `check`) or a body, and each but the future once. `HelperOK` relates a helper's count to its leaves in each of its
phases; while it resumes its parent the count is below zero by as many as finish then (`Slipped`), which is why the later assignment of `rest` is
right but for those. `ArmedOK` ties the helper to the statement it stands for. `BodyOK` is the argument about wrap-around: a body waits by its count exactly when
the count is 1, and every decrement that hits a body which does not wait uses up something there is only so much of (`Remaining`: a leaf, a run of the future, an entry of its
list, a statement), so the count never comes round to 1. `HoldsOK` says who keeps the future alive: those that await it, and each of its runs that has somebody left to
resume. The assumption on `SizeMod` (`AwaitsAssumption`) is used for `BodyOK` and for the helpers' counts. There is one lemma per action.

Only model-checked:

- all liveness (`StartedFinishes`, `FutureServes`, `CloseReleases`, `IdleReturns`, `IdleLeaves`, `KeptLeaves`, `TimedCallsReturn`), since the prover does not do fairness;
- `NextIsEarliest`, which is false for large heaps (1 below), so that no theorem can state it for all.

## What disagrees with its documentation

Three are runs that TLC finds violated and entries under `findings`:

1. The heap's upward and downward paths disagree on the parent (`cort_timeout_waiter.cpp:151`): `timer_late`.
2. A listener that found no fd left ends after its pause (`cort_tcp_listener.cpp:188`): `listener_full`.
3. A future resumes a parent that has gone on already, once more (`cort_shared_future.h:62`): `shared_future`.

Five can be seen with a property or a specification that stands in a module and is not among the runs:

4. `CO_AWAIT_ALL` sets its wait count after it has started all its coroutines (`cort_proto.h:298`), and a wakeup in between is lost: `NoLostWakeup` under `CortProto!ReentrantSpec`.
5. `after_push` pins more receivers than there are events (`cort_channel.h:95`): `PinnedAreObjects`, with two consumers of events.
6. A receiver woken by `awake_all` on an open channel pops without a pin (`cort_channel.h:124`): `PinnedAreObjects` under `AwakeSpec`.
7. A failed `EPOLL_CTL_ADD` is counted out but not in (`cort_timeout_waiter.cpp:575`): `CountAlwaysExact`.
8. A sleep that ends in the same millisecond as the deadline of its coroutine is abandoned when the deadline is served first; the sleeper then resumes the
   coroutine in a later call: `DeadlineKept` with `Ties = TRUE`.

The others showed while reading and modelling; no property is about them:

- `cort_wait_n` sets its count for the rest after it has resumed its parent (`cort_proto.h:723`): it leaks if one of the rest finished meanwhile (`slips`).
  `cort_wait_range_any` waits for all coroutines that wait, whatever the n (`cort_proto.h:782`).
- A producer that is woken inside `after_push`, by a consumer that another one's push has woken, can be left waiting although its objects fit: two producers
  and three consumers of single objects are enough, or one coroutine that does both. So `NoSenderStranded` is about a single consumer that does not push.
- The coroutine that the future resumes once more (3) goes on while what it awaits is unfinished. Later that resumes it out of its next statement, which may
  be to await the future: it then ends while the future still lists it. `FutureKnowsWaiters` leaves out the coroutines to which this happened (`slips`). Three
  statements show it; the run has two.
- A coroutine that always sets a timeout of 0 keeps the thread from polling its fds.
- TCP: a total that `recv_check` announces while the buffer is larger is waited for until the *buffer* is full (`cort_tcp_ctrler.cpp:441`; the comment at
  `cort_tcp_ctrler.h:205` speaks of x bytes in total); a receive buffer of the caller is replaced without copying what is in it when it must grow (`cort_tcp_ctrler.h:228`);
  `shrink_to_fit` shrinks exactly the buffers it must not (`cort_tcp_ctrler.h:250`); data that come between two operations clear the timeout of the
  exchange (`cort_tcp_ctrler.cpp:143`); the flag of a timeout that closed an idle connection makes its next connect fail, when that has no timeout of
  its own (`cort_tcp_ctrler.cpp:291`).
- The listener goes on with its local `listen_fd` when the callback of a connection has stopped it (`cort_tcp_listener.cpp:170`).
- Hooks, in `stackful/cort_stackful_fds_waiter.cpp`: `accept4` enters the listening fd into the table and not the accepted one, which stays blocking (368); the flag of a
  timeout stays set, so later calls that would block fail at once; timeouts of 0 of poll, epoll_wait and select wait for an event; select counts `nnfds` down before it looks,
  so it skips fd 0; setsockopt divides `tv_usec` by 10000; dup copies from an entry that `wait_fd` may have moved; a duplicate over a hooked fd leaves what it is in
  the table even when the new one is not hooked; a socket's timeout starts again after every spurious wakeup. A finished coroutine stays
  `current_thread_coroutine` until the next switch, and the nap of `usleep` does not reset it.

## Not modelled

- `await()` on a coroutine that has yielded; `CO_AWAIT_THIS`, which does not compile; the control-flow macros only choose the next statement.
- `~cort_timer`'s iteration by the address of entries, `cort_repeater`; truncation of timeouts above 2^31 ms is outside `timer_heap`'s values.
- TCP: several addresses in the pool, receive buffers of the caller, `shrink_to_fit`, socket options, the destruction of a ctrler, `close_connection` while an
  operation is awaited (which then is never resumed). A listener that is started a second time.
- Hooks: signals, the sets of fds that select and poll build, the second of the two timeouts of a socket, starting a stackful coroutine from another one.
- The versions of local storage (`cort_stackful.cpp` 27-131): storing and loading are array accesses under an id, and unregistering writes the smallest free
  index over element 0 of the list, which is its capacity (68). It is listed as a hazard.
- `cort_pod_pool`, which nothing in the library uses. `cort_lambda.h` adds no state. Tests, benchmarks, build files and vendored headers are not part
  of the library; the context switch is assembly.

## Plan

Done: every component of the library that keeps state of its own has a module, and each of them has proofs. Left, most important first:

1. An abstract pool of live connections per address that `TcpConnection` refines, and receive buffers of the caller.
2. `~cort_timer`'s iteration; local storage versions.
