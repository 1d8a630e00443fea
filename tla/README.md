# TLA+ models of the FIDL C++ bindings and the Dart system bridge

This directory holds the TLA+ specifications of the server side of the FIDL
bindings (`src/cpp/bindings`), of the Dart bridge to the kernel
(`src/dart/sdk_ext/src`) and of the echo server built on the bindings
(`src/examples/echo_server`), the TLC configurations that check them, and
`PROJECT.json`, which lists every component, run, property, source mapping,
finding and hazard.

## 1. The system

| Part | Source | What it does | Module |
|---|---|---|---|
| `Binding<Interface>` | `cpp/bindings/binding.h` | Ties one implementation to the server end of one channel: `Bind` (three overloads), `Close`, `Unbind`, `set_connection_error_handler`, `WaitForIncomingMethodCall`, `is_bound`, `handle`. | `Binding` |
| `BindingSet<Interface>` | `cpp/bindings/binding_set.h` | Owns a vector of Bindings; each member erases itself from the vector inside its own connection-error callback (`RemoveOnError`); an optional closure runs when an error empties the set. | `BindingSet` |
| `internal::Router` | used by `binding.h`, defined outside `src/` | Owns the channel handle, keeps one wait registered, reads one message per wake, runs the validator chain and the Stub, reports errors. | `Router` |
| Async Wait Service | used by `binding.h`, defined outside `src/` | `async_wait` / `cancel_wait`; callbacks run later from the message loop. | `Router` |
| Validators and Stub | named by `binding.h:123-127`, defined outside `src/` | Decide whether a message reaches the implementation. | `Router`, `Binding` |
| `fidl::dart::System` | `dart/sdk_ext/src/system.cc`, `system.h` | Twelve static methods called from Dart: create, write, read and resize channels, event pairs, sockets and VMOs. | `System` |
| `ByteDataScope` | `system.cc:28-81` | Borrows the bytes of a Dart `ByteData`, or allocates one; `Release` gives it back and zeroes the scope. | `System` |
| Dart `Handle` | `dart/sdk_ext/src/handle.h` | Wraps one kernel handle; `ReleaseHandle`, `Close`, finalizer. | `System` (without waiters) |
| Native table | `dart/sdk_ext/src/natives.cc` | `NativeLookup` and `NativeSymbol` resolve natives for the Dart VM, from the static array `Entries` and from a table created on first use in the global `g_natives`; `MxTime_Get`. | `Natives` |
| Echo server | `examples/echo_server/echo_server.cc` | One `EchoImpl` serving every client through a `BindingSet`; `EchoString` answers inside the dispatch. | `EchoServer`, against `EchoService` |
| `HandleWaiter` | `dart/sdk_ext/src/handle_waiter.h` | One asynchronous wait of a Dart `Handle`. | not modelled (section 7) |

The bindings are single-threaded: everything runs on one message loop. What
makes them hard is **reentrancy**. The Router calls into user code (a method of
the implementation, or the connection-error handler) from inside its own wait
callback, and that user code may close, unbind or rebind the very Binding whose
Router is on the stack, operate on another Binding, clear the whole set, or
pump messages with `WaitForIncomingMethodCall`, which runs further callbacks
nested inside the first. `BindingSet::RemoveOnError` destroys the Binding
whose Router is calling it.

The Dart bridge is different: the VM resolves natives on the thread of the
isolate that needs them, and `natives.cc` keeps its table in a global that
nothing protects. There the hard part is the **interleaving of threads**.

## 2. Modules

### Router.tla (written from spec.md; the code is outside `src/`)

State: `endpoint` (where the server end of each channel is: `"unborn"`,
`"held"` by user code or in a request, `"bound"` to a Router, `"closed"`),
`queue` (unread messages), `peerClosed`, `router` (per Binding address: `Nil`
or a record of channel and wait token), `error_handler` (the closure the
Router's error callback runs), `waits` (the registrations of the wait
service, each with the signals it has observed), `stack` (the callback frames
currently running, innermost last), and the history counters `nread` and
`nerrors`.

A message is abstracted to the name of the first stage that refuses it
(`"ok"`, `"bad_header"`, `"bad_request"`, `"bad_decode"`); bytes and attached
handles are left to module `System`.

Actions: `IncomingRequest`, `PeerWrite`, `PeerClose` (the remote end); `Observe` (the service
notices signals); `OnHandleReady` (the wait callback, with its three outcomes:
spurious wake and re-arm, dispatch into the Stub, error), `Return` (a callback
into user code returns, and the Router either re-arms its wait or, if it was
destroyed in the meantime, touches nothing). A frame of a destroyed Router is
marked `live = FALSE`; this is the Router's "am I still alive" check after a
callback.

The reading of spec.md 4.5 adopted throughout: a registration is consumed when
its callback is delivered; `cancel_wait` removes a registration that has not
been delivered, whatever it has observed; on the error path the handler is
called first and the channel is closed afterwards if the Router still exists.

### Binding.tla

Extends `Router`. Each public method of `Binding` is an action whose guard is
the method's `FTL_DCHECK` (the caller's contract) and whose effect is the body
of the method including the Router calls it makes. `NewBinding` is
`BindNewChannel` with the channel made by `client.NewRequest()`. `Bind` creates
the Router with the two validators and installs the lambda that forwards errors to
`connection_error_handler_`. User actions are enabled at top level and inside
any running callback, up to `MaxDepth` nested frames.

Two guards are not in `binding.h`. `Unbind` needs a Router, which the code
dereferences without a check (`:184`). `WaitForIncomingMethodCall` needs a
Router that has its channel and is not inside one of its own callbacks: the
method checks only `internal_router_` (`:168`), the rest is the contract of
`Router::WaitForIncomingMessage` in spec.md 4.1, which does not say what a
call that breaks it does. `Deliver`, the callback of the wait service into
the Router, is code outside `src/` as the Router is.

### BindingSet.tla

Extends `Router`, takes `RouterCreated`, `ValidatorChain` and the state
functions from an instance of `Binding`, and adds `bindings_` (a sequence of
addresses) and `on_empty_set_handler_`. `AddBinding` is `emplace_back` of a
new bound Binding followed by `set_connection_error_handler(RemoveOnError)`.
`RemoveOnError` is one action: find, erase (which destroys the Binding and its
Router, from inside that Router's callback), then test `bindings_.empty()` and
call the closure. `CloseAllBindings` is `bindings_.clear()`. Addresses are
reused: a new member may get the address of the one whose error callback is
still on the stack.

### System.tla

State: `object` (the kernel object behind each handle value: type and peer),
`inbox` (messages queued at each channel end, each with a byte count and a set
of attached handles), `buffered` (bytes in each socket end), `vmo_size`,
`wrapper` (the handle value each Dart `Handle` object holds, or `Nil`), and
`result` (what the last method returned to Dart: method, status, count and
`actual`, and `held`: whether byte data was still acquired when the object
was constructed).  A local that the code reads without having written it (`actual`
after a failed write) is any value of its type.

Every method of `System` is one action that follows the code in order: the
validity check of the `Handle` argument, `ByteDataScope::Acquire`, the kernel
call, the release loops, and the construction of the result. The kernel calls
(`mx_channel_write`, `mx_channel_read` with its size query, `mx_socket_write`,
`mx_socket_read`, the VMO calls) are written from the transport contract of
spec.md 6 to the detail `system.cc` can observe. Closing a channel end closes
every handle queued behind it, recursively (`Doomed`).

The constant `Used` is the set of methods the Dart program calls. The twelve
methods fall into two groups that do not interact except through handle
values, and they are checked separately (see the runs).

Byte data follows an acquire and release discipline. `ByteDataScope(size)`
and the `tonic::DartByteData` of a write (`DartByteData`) acquire the bytes of
a Dart object; Dart refuses to allocate until they are released. `Built` is
`ConstructDartObject` called with the byte data of the method in the state it
has at that line, and records in `held` whether it was still acquired.

`TypeOK` of `System` describes the state and is not among the properties of
a run: the ranges it states are those of the kernel model, and no line of
`system.cc` could leave them.

`EventpairCreate` takes an `options` argument and passes the constant 0 to
`mx_eventpair_create` (`system.cc:198`); the action therefore has no branch
for options the kernel refuses, unlike `ChannelCreate` and `SocketCreate`.

### Natives.tla

State: `g_natives` (`Nil`, or the number of the table it points to), the
history counter `ntables` (tables `InitNatives` has created), and per thread
`pc`, `call` and `answer`. A call of `NativeLookup` or `NativeSymbol` is up to
four steps of one thread, and the steps of the threads interleave:

| Step | Code | Action |
|---|---|---|
| scan `Entries`, return on a match | `natives.cc:82-89`, `96-102` | `Resolve` |
| `if (!g_natives)` | `:90`, `:103` | `CheckNatives` |
| `g_natives = InitNatives()` | `:91`, `:104` | `StoreNatives` |
| `return g_natives->...` | `:92`, `:105` | `UseNatives` |

`Entries` holds `MxTime_Get`; `InitNatives` is cut down to two natives with
different argument counts. The VM asks for every name with every count, for a
name nobody registered, and for the name of every function. A call through a
null `g_natives` answers `Crash`, a value outside the type invariant.
`MxTime_Get` is one step: an argument that is not an integer returns
`MX_ERR_INVALID_ARGS`, an integer is narrowed to the width of the kernel's
clock id (`ClockIdWidth`, scaled down from 2^32) and passed to `mx_time_get`.

### EchoService.tla and EchoServer.tla

`EchoService` is the abstract specification: what a client of the echo
server may rely on, with no Bindings, Routers, waits or callbacks. A
connection is `unborn`, `pending`, `served`, `failing` or `closed`; a client
connects, writes requests and hangs up when it likes; the service accepts a
pending connection, answers the oldest request of a served connection with
one reply (`Echo`), lets a connection go for a request it cannot accept
(`Refuse`) or once the client hung up and everything it wrote was taken
(`Lose`), and closes it (`Drop`).

`EchoServer` is the program: module `BindingSet` with the one variable
`replies` added and the next-state relation restricted to what
`echo_server.cc` does. `ServeRequest` is the handler registered with
`AddService<Echo>`, which calls `EchoImpl::AddBinding`; `EchoString` runs
inside a dispatch frame, writes one reply to the channel of the Binding that
dispatched, and returns to the Router. The program sets no on-empty closure,
never calls `CloseAllBindings` and never blocks in a wait, so those actions of
`BindingSet` are not part of `EchoNext`.

The refinement mapping (`Service == INSTANCE EchoService WITH ...`):

| Abstract | Detailed |
|---|---|
| `conn[c]` | from `endpoint[c]`: `held` is `pending`; `bound` is `failing` while `RemoveOnError` of the Binding that owns `c` is on the stack, `served` otherwise |
| `requests[c]` | `queue[c]`, with the message of the running dispatch of `c` put back in front: a request is taken when it is answered, not when it is read |
| `hungUp` | `peerClosed` |
| `replies` | `replies` |

Arming, observing and delivering a wait, a spurious wake, and reading a
message are stuttering steps of the service.

## 3. Runs

| Run | Module, cfg | Properties | Distinct states |
|---|---|---|---|
| `binding_safety` | `MCBinding`, `MCBinding.cfg` | `TypeOK`, `WaitsBelongToRouters`, `IdleRouterIsArmed`, `EndpointHasOneOwner`, `ErrorReportedOncePerBind`, `RouterGivesUpOnlyOnError` | 1.8 million |
| `binding_liveness` | `MCBinding`, `MCBindingLive.cfg` | `SignalsAreServed` | 246 thousand |
| `binding_unbound_after_error` | `MCBinding`, `MCBindingUnbound.cfg` | `UnboundAfterError` (violated) | |
| `bindingset` | `MCBindingSet`, `MCBindingSet.cfg` | `TypeOK`, `MembersAreBound`, `NothingOutlivesRemoval`, `OnEmptyExactlyOnErrorDrain`, `BrokenConnectionIsRemoved` | 473 thousand |
| `system_channels` | `MCSystem`, `MCSystem.cfg` | `ExclusiveOwnership`, `ReadsReportWhatTheyConsume` | 170 thousand |
| `system_bytes` | `MCSystem`, `MCSystemBytes.cfg` | `WritesReportWhatIsTaken`, `ReadsReportWhatTheyConsume` | 107 thousand |
| `system_vmo_read` | `MCSystem`, `MCSystemVmoRead.cfg` | `VmoReadReportsBytesRead` (violated) | |
| `system_failed_write` | `MCSystem`, `MCSystemWrite.cfg` | `FailedWriteReportsNoCount` (violated) | |
| `system_vmo_write` | `MCSystem`, `MCSystemVmoWrite.cfg` | `ResultBuiltAfterRelease` (violated) | |
| `natives` | `MCNatives`, `MCNatives.cfg` | `TypeOK`, `AnswersAsOneTable` | 71 thousand |
| `natives_once` | `MCNatives`, `MCNativesOnce.cfg` | `InitNativesRunsOnce` (violated) | |
| `echo_server` | `MCEchoServer`, `MCEchoServer.cfg` | `EchoTypeOK`, `ImplementsEchoService`, `ClientsAreServed` | 182 thousand |

What the properties say:

* **WaitsBelongToRouters** - no callback after teardown: every registration
  belongs to a live Router that owns the channel and remembers the token.
* **IdleRouterIsArmed** - outside its own callbacks a Router that owns a
  channel has a wait registered, so it never goes deaf.
* **EndpointHasOneOwner** - a server end is bound exactly when one Router owns
  it; no path leaks a handle or leaves two owners.
* **ErrorReportedOncePerBind** - the connection-error handler runs at most once
  between one `Bind` and the next. It holds for callers that keep the rule of
  spec.md 4.1, no blocking wait on a Router from inside its own callback;
  `binding.h:166-170` checks only that a Router exists.
* **RouterGivesUpOnlyOnError** - a Router that is alive and has let its
  channel go reported an error on that connection. `Close` inside the error
  callback, `Bind` on the same Binding, then the return of the callback: the
  close that follows an error callback must not fall on the new Router.
* **SignalsAreServed** - whatever a bound channel signals is eventually
  served: every queued message is read, and after them a hang-up of the peer
  makes the Router give the channel up; or the program took the channel away.
* **MembersAreBound**, **NothingOutlivesRemoval** - the vector holds exactly
  the live connections: no dead member, no Router, wait or open handle without
  a member.
* **OnEmptyExactlyOnErrorDrain** - the on-empty closure is called in exactly
  the steps in which an error removes the last member.
* **BrokenConnectionIsRemoved** - a member whose connection cannot go on,
  because the peer closed its end or wrote a message that the validators or
  the Stub refuse, is eventually erased, whatever was queued before and
  however the addresses were reused.
* **ExclusiveOwnership** - every kernel handle that exists is held by exactly
  one `Handle` object or travels in exactly one queued message.
* **WritesReportWhatIsTaken** - when bytes arrive at a socket end, Dart is
  told `MX_OK` and the number that arrived, also when the buffer took only a
  part of what was offered.
* **ReadsReportWhatTheyConsume** - when bytes or a message leave the kernel,
  Dart is told `MX_OK`, the right count, and gets a `Handle` for each handle
  the message carried.
* **AnswersAsOneTable** - whatever the threads do, a finished `NativeLookup`
  or `NativeSymbol` returned what one table of all natives returns; with
  `TypeOK` of `Natives`, no call went through a null `g_natives`.
* **ImplementsEchoService** - every behaviour of the echo server is a
  behaviour of `EchoService` under the refinement mapping: requests are
  answered one at a time in the order written, each with one reply on its own
  connection, and a connection is closed only for a refused request or after
  the client hung up.
* **ClientsAreServed** - the liveness of `EchoService`, checked on the
  program: a request on a pending or served connection is eventually taken,
  or the connection is let go.

Each property of a passing run has a mutant in `PROJECT.json`: a plausible
mistake in one definition that models code of `src/` (a `Close` that leaves
the wait registered, a `Bind` whose Router is taken for the one destroyed
before it, an `empty()` test before the erase, handles kept after a successful
write, the length offered reported for the bytes taken, a size read after
`Release`) under which TLC finds the property violated.

## 4. Findings

1. **`is_bound()` stays true after a connection error**
   (`binding.h:201`, run `binding_unbound_after_error`). spec.md 8 expects
   `is_bound()` to be false once the peer closed and the handler fired.
   `is_bound()` is `!!internal_router_`, and the error lambda of `Bind` only
   forwards to the user's handler; nothing resets `internal_router_`. After
   the error the Binding answers "bound" while its Router holds no channel.
   `BindingSet` is not affected because `RemoveOnError` destroys the Binding.

2. **`VmoRead` reports zero bytes read** (`system.cc:313`, run
   `system_vmo_read`). The method calls `bytes.Release()` at line 309, which
   sets `size_` to 0, and then builds the result from `bytes.size()` instead
   of `actual`. The `FTL_DCHECK(actual <= size)` two lines above and the
   sibling `SocketRead` (`ToDart(actual)`) show that the count of bytes read
   was meant. spec.md does not describe the Dart bridge, so the expectation
   rests on the code itself.

3. **A failed write reports an uninitialised count** (`system.cc:228`, run
   `system_failed_write`). `SocketWrite` declares `size_t actual;` and builds
   its result with `ToDart(actual)` whatever `mx_socket_write` returned. When
   the write fails (a full buffer, a closed peer) the kernel stored nothing
   and Dart receives an indeterminate number. `VmoWrite` (`:290`) and
   `VmoGetSize` (`:270`, `size`) do the same. The same methods return the
   status alone when the `Handle` is invalid, and the read methods return the
   status alone on every failure.

4. **`VmoWrite` constructs its result with byte data acquired**
   (`system.cc:294`, run `system_vmo_write`). `SocketWrite` calls
   `data.Release()` before each of its returns (`:224`, `:231`) and the read
   methods call `bytes.Release()` before theirs. `VmoWrite` has neither call:
   the `DartByteData` of its argument is released by its destructor, after
   `ConstructDartObject` ran at `:287` or `:294`. Dart does not allocate while
   typed data is acquired, so the caller gets an error object where the
   `WriteResult` should be. `tonic::DartByteData` is not in the repository;
   that it holds the data until `Release()` is read off the calls
   `SocketWrite` makes. The shortest counterexample is one `VmoWrite` on a
   null `Handle`, the return at `:287`; the return at `:294` is the same.

5. **`InitNatives` can run twice** (`natives.cc:90`, run `natives_once`).
   Two threads that resolve a native before the table exists both pass
   `if (!g_natives)`, both create a table, and the second store overwrites
   the first, which is never freed. Run `natives` shows that the answers are
   right all the same, since both tables hold the same natives, and that no
   interleaving calls through a null pointer.

## 5. Bounds

* **Bindings: 2 addresses, 2 channels.** Two are needed for a callback of one
  Binding to operate on another, for a channel to move from one Binding to the
  other through `Unbind` and `Bind`, and for the set to lose its members in
  either order and reuse an address while the callback that freed it runs.
* **`MaxMsgs` = 2** unread messages per channel (1 in `binding_liveness`):
  enough for an error or a close to arrive with a message still queued.
  `binding_liveness` with two messages has 2.5 million states before the
  liveness check and does not end in ten minutes; a message queued behind
  one being dispatched is covered by the liveness properties of `bindingset`
  (`MaxMsgs` = 2) and `echo_server` (`MaxMsgs` = 3).
* **`MaxDepth` = 2** nested callbacks: a dispatch that pumps, and the callback
  pumped inside it. The frames are independent, so a third level repeats the
  second.
* **`MaxErrors` = 2** caps the history counter `nerrors` one above the value
  the property allows.
* **System: 3 handle values, 3 `Handle` objects** (`MaxHandles`,
  `MaxWrappers`), `MaxQueue` = 1 message per channel end, `MaxAttached` = 1
  handle per message, `MaxBytes` = 1 (channels) or 2 (sockets and VMOs). Three
  handles give a pair and one more object, which is enough to send a handle
  through a channel, to send a channel end through its own peer, and to close
  an end with a handle queued behind it. Handles nested two levels deep in
  queued messages need four handle values and are not reached.
  `MaxBytes` = 2 lets a write be accepted in part and a read return less than
  was asked. `system_vmo_write` uses 2 handle values and the methods
  `VmoCreate` and `VmoWrite`, which is all the finding needs.
* **Natives: 2 threads**, one native in `Entries` and two in the table, 3
  names, 2 argument counts, clock ids `0..7` over a kernel width of 4. Two
  threads are what the race needs; every pair of calls is tried at every
  interleaving of their steps. A third thread adds a third table and no new
  kind of step.
* **Echo server: 2 clients, 2 Binding addresses, `MaxMsgs` = 3, `MaxDepth` =
  1**, messages `"ok"` and `"bad_request"`. Three requests let a client have
  one being answered, one queued behind it and a hang-up after both; two
  clients let one fail while the other is served and let the second get the
  address the first one's Binding had. The program never pumps inside a
  callback, so one frame is all the stack holds.
* Symmetry over Bindings and channels is used in `binding_safety`, over
  threads in the `Natives` runs; runs with a liveness property use none.

## 6. Fairness

The liveness runs assume only what the message loop and terminating user code
give:

* `Observe` is weakly fair: the wait service notices a signal that stays
  raised.
* `Deliver` (running a due callback) is strongly fair in `Binding`: a callback
  is due while the loop is busy with another one and must get its turn when
  the loop is idle again. In `BindingSet` weak fairness suffices.
* `Return` is strongly fair per stack depth in `Binding`: code called by the
  Router returns, and a callback that pumps nested callbacks is not returning
  while they run.
* `RemoveOnError` and `ReturnToRouter` are weakly fair in `BindingSet`:
  straight-line code.
* In `EchoServer`, `loop.Run()` (`echo_server.cc:56`) runs every task that is
  due: `ServeRequest` per request, `Observe` and `Deliver` per wait,
  `RemoveOnError` and `EchoString` are weakly fair. `EchoString` is two
  statements and returns.

`ClientsAreServed` is the abstract liveness property read through the
refinement mapping and checked under the fairness of the program; the
abstract specification itself states no fairness.

The echo run does not look for deadlock: the server has nothing to do once
every client has hung up, and `loop.Run()` then waits for ever. `Natives`
states no liveness: nothing in `natives.cc` waits for anything.

Nothing is assumed of the peer or of which methods the program calls, so the
liveness properties are conditional on the channel staying bound.

## 7. Not modelled

* **`HandleWaiter`, `Handle::AsyncWait`, `Handle::ReleaseWaiter`.** The
  headers declare them (`handle_waiter.h:31-49`, `handle.h:52-56`); the
  bodies are in files that are not in the repository, and spec.md does not
  describe the Dart bridge. What `Cancel` and `OnWaitComplete` do to
  `wait_id_` and to `Handle::waiters_`, and in which order, cannot be read
  from anything here, so a module would model an invention. The race of
  `Cancel` with `OnWaitComplete` is therefore not among the hazards checked.
* `Initialize` of `natives.cc`: it registers a class provider with the Dart
  state and touches nothing else in the file.
* Weak-memory effects of the race on `g_natives`: the threads of `Natives`
  see each other's stores at once. A thread that sees the pointer before the
  contents of the table is a behaviour of the hardware that the model does
  not have.
* Message bytes, headers and method ordinals in the bindings. All
  well-formed requests of a connection are alike, so the order of delivery
  shows only in the refinement mapping, where the request taken is the head
  of the queue.
* Signals and rights of kernel objects; the content of sockets and VMOs (only
  sizes).
* Delivery order as a property of `Binding`. A Router reads the head of its
  channel and `WaitForIncomingMethodCall` may not be called inside a callback
  of the same Router, so messages of one channel are dispatched in the order
  queued whatever the user does; a property saying so could not fail.
* The `ByteDataScope(Dart_Handle)` constructor (`system.cc:27-29`): no method
  of `System` uses it.
* `Dart_Handle` marshalling (`ToDart`, `DartConverter`) beyond the values it
  carries.
* An abstract specification of `BindingSet`. The set promises three things:
  its members are bound, a removed member leaves nothing behind, and the
  on-empty closure runs exactly when an error removes the last member. These
  are `MembersAreBound`, `NothingOutlivesRemoval` and
  `OnEmptyExactlyOnErrorDrain`, and the composition with a service is the
  refinement of `EchoService` by `EchoServer`. An abstract set of connections
  with `Add`, `Remove` and `CloseAll` would state the same once more: with
  two members a removal too many is a `CloseAll` to the abstract module, and
  the closures carry no argument a mapping could compare.
* The application context and its service registry (`echo_server.cc:34-35`):
  the arrival of a request is the step `IncomingRequest`.

## 8. Plan

1. A channel run with four handle values, for handles nested in queued
   messages. It does not finish in five minutes with the present model of
   the kernel.
2. `Binding::Bind` on a channel whose creation failed, once the behaviour of
   a Router on an invalid handle is pinned down.
3. The narrowing of the clock id in `MxTime_Get` (`natives.cc:127`), once
   something says what an id beyond 32 bits should return.
