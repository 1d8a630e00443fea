------------------------------- MODULE Router -------------------------------
(***************************************************************************)
(* The message pump behind one Binding: a Router that owns the server end  *)
(* of a channel, the Async Wait Service it arms on that end, the validator *)
(* chain every incoming message passes, and the callbacks the pump makes   *)
(* into user code.                                                         *)
(*                                                                         *)
(* internal::Router, FidlAsyncWaiter and mx::channel are used by           *)
(* src/cpp/bindings/binding.h but defined outside src/, so this module is  *)
(* written from spec.md sections 3 to 5.  The module has no specification  *)
(* of its own: Binding and BindingSet choose which of these steps their    *)
(* next-state relation takes.                                              *)
(*                                                                         *)
(* Dispatch is single threaded and cooperative.  A callback into user code *)
(* is a frame on `stack`; user code may call back into the library before  *)
(* it returns, and may destroy the very Router that called it.  A frame    *)
(* remembers whether its Router is still alive, which is the liveness      *)
(* check spec.md 4.1 asks for before the Router touches its own state      *)
(* after a callback.                                                       *)
(***************************************************************************)
EXTENDS Naturals, Sequences, FiniteSets, SequencesExt

CONSTANTS
    Bindings,   \* addresses of Binding objects; each holds at most one Router
    Channels,   \* channels whose server end the program may bind
    Messages,   \* the kinds of message a peer writes, a subset of MessageKinds
    MaxMsgs,    \* bound: messages a peer writes to one channel
    MaxDepth,   \* bound: callbacks nested by blocking waits inside callbacks
    MaxErrors,  \* bound: where the count of error reports per bind saturates
    Nil         \* no Router, no channel, no registration, no closure

\* A message is told apart by the first stage that refuses it.
MessageKinds == {"ok", "bad_header", "bad_request", "bad_decode"}

ASSUME /\ Messages \subseteq MessageKinds
       /\ MaxMsgs \in Nat /\ MaxDepth \in Nat /\ MaxErrors \in Nat \ {0}
       /\ IsFiniteSet(Bindings) /\ IsFiniteSet(Channels)

\* One wait token per Router that can exist at a time.  0 is "no wait".
WaitIds == 1..Cardinality(Bindings)

VARIABLES
    endpoint,       \* where the server end of a channel is:
                    \*   "unborn" not created, "held" in an InterfaceRequest
                    \*   or mx::channel in user hands, "bound" owned by a
                    \*   Router, "closed"
    queue,          \* messages the peer wrote that nobody read yet
    peerClosed,     \* the client end was closed
    nread,          \* history: messages read from the channel so far
    waits,          \* Async Wait Service: token -> registration or Nil
    router,         \* Binding -> its Router [channel, wait], or Nil
    error_handler,  \* Binding -> the closure its connection-error callback runs
    stack,          \* callbacks now running, innermost last
    nerrors         \* history: error reports since the Binding was bound

channelVars == <<endpoint, queue, peerClosed, nread>>
routerVars  == <<waits, router, error_handler, stack, nerrors>>
vars        == <<channelVars, routerVars>>

Frame(kind, b, m) == [kind |-> kind, b |-> b, live |-> TRUE, msg |-> m]

Registration == [b : Bindings, c : Channels,
                 pending : SUBSET {"readable", "peer_closed"}]

RouterTypeOK(handlers) ==
    /\ endpoint \in [Channels -> {"unborn", "held", "bound", "closed"}]
    /\ queue \in [Channels -> Seq(Messages)]
    /\ peerClosed \in [Channels -> BOOLEAN]
    /\ nread \in [Channels -> 0..MaxMsgs]
    /\ waits \in [WaitIds -> Registration \cup {Nil}]
    /\ router \in [Bindings ->
                     [channel : Channels \cup {Nil}, wait : WaitIds \cup {0}]
                     \cup {Nil}]
    /\ error_handler \in [Bindings -> handlers \cup {Nil}]
    /\ stack \in Seq([kind : {"dispatch", "on_empty"} \cup handlers,
                      b : Bindings, live : BOOLEAN,
                      msg : Messages \cup {Nil}])
    /\ nerrors \in [Bindings -> 0..MaxErrors]

RouterInit ==
    /\ endpoint = [c \in Channels |-> "unborn"]
    /\ queue = [c \in Channels |-> <<>>]
    /\ peerClosed = [c \in Channels |-> FALSE]
    /\ nread = [c \in Channels |-> 0]
    /\ waits = [i \in WaitIds |-> Nil]
    /\ router = [b \in Bindings |-> Nil]
    /\ error_handler = [b \in Bindings |-> Nil]
    /\ stack = <<>>
    /\ nerrors = [b \in Bindings |-> 0]

-----------------------------------------------------------------------------
(* The channel and its peer *)

\* What a wait on the server end of c would observe now.
SignalsOf(c) ==
    {s \in {"readable"} : queue[c] # <<>>} \cup
    {s \in {"peer_closed"} : peerClosed[c]}

MoveEndpoint(ep, c, to) == [x \in Channels |-> IF x = c THEN to ELSE ep[x]]

\* A client creates a channel and hands its server end over as a request.
IncomingRequest(c) ==
    /\ endpoint[c] = "unborn"
    /\ endpoint' = [endpoint EXCEPT ![c] = "held"]
    /\ UNCHANGED <<queue, peerClosed, nread, routerVars>>

PeerWrite(c, m) ==
    /\ endpoint[c] \in {"held", "bound"}
    /\ ~peerClosed[c]
    /\ nread[c] + Len(queue[c]) < MaxMsgs
    /\ queue' = [queue EXCEPT ![c] = Append(@, m)]
    /\ UNCHANGED <<endpoint, peerClosed, nread, routerVars>>

PeerClose(c) ==
    /\ endpoint[c] \in {"held", "bound"}
    /\ ~peerClosed[c]
    /\ peerClosed' = [peerClosed EXCEPT ![c] = TRUE]
    /\ UNCHANGED <<endpoint, queue, nread, routerVars>>

-----------------------------------------------------------------------------
(* The Async Wait Service (spec.md 4.5) *)

FreeId(ws) == CHOOSE i \in WaitIds :
                 /\ ws[i] = Nil
                 /\ \A j \in WaitIds : ws[j] = Nil => i <= j

AsyncWait(ws, b, c) ==
    [ws EXCEPT ![FreeId(ws)] = [b |-> b, c |-> c, pending |-> {}]]

\* Cancelling token 0, or a token already delivered, is a no-op.
CancelWait(ws, id) == [i \in WaitIds |-> IF i = id THEN Nil ELSE ws[i]]

\* The service sees the signals it waits for and queues the callback.  The
\* callback never runs inside async_wait: it runs later, from the loop.
Observe(id) ==
    /\ waits[id] # Nil
    /\ waits[id].pending = {}
    /\ SignalsOf(waits[id].c) # {}
    /\ waits' = [waits EXCEPT ![id].pending = SignalsOf(waits[id].c)]
    /\ UNCHANGED <<channelVars, router, error_handler, stack, nerrors>>

-----------------------------------------------------------------------------
(* The validator chain (spec.md 4.4) *)

Refuses(validator, m) ==
    \/ validator = "MessageHeaderValidator" /\ m = "bad_header"
    \/ validator = "RequestValidator" /\ m = "bad_request"

\* The chain stops at the first validator that refuses the message.
PassesChain(chain, m) == \A i \in DOMAIN chain : ~Refuses(chain[i], m)

\* Stub::Accept decodes the message and returns false when it cannot.
StubAccepts(m) == m # "bad_decode"

-----------------------------------------------------------------------------
(* The Router *)

HasChannel(b) == router[b] # Nil /\ router[b].channel # Nil

\* A callback of b's Router is running and the Router is still alive.
InCallback(b) == \E i \in DOMAIN stack : stack[i].b = b /\ stack[i].live

\* Arm the wait again unless one is still registered, which is the case
\* when the message was pumped by a blocking wait.
WaitToReadMore(b, rs, ws) ==
    IF rs[b].wait = 0
    THEN /\ router' = [rs EXCEPT ![b].wait = FreeId(ws)]
         /\ waits' = AsyncWait(ws, b, rs[b].channel)
    ELSE router' = rs /\ waits' = ws

\* The Router lets go of the connection: the wait is cancelled and the
\* handle closed.  The Router object itself stays.
CloseConnection(b, rs, ws) ==
    /\ router' = [rs EXCEPT ![b] = [channel |-> Nil, wait |-> 0]]
    /\ waits' = CancelWait(ws, rs[b].wait)
    /\ endpoint' = MoveEndpoint(endpoint, rs[b].channel, "closed")

\* Peer closed, transport error or a refused message: the connection-error
\* callback runs once, then the Router unbinds.  With no closure installed
\* there is nothing to wait for and the Router unbinds at once.
NotifyError(b, rs, ws) ==
    /\ nerrors' = [nerrors EXCEPT ![b] = IF @ < MaxErrors THEN @ + 1 ELSE @]
    /\ IF error_handler[b] = Nil
       THEN CloseConnection(b, rs, ws) /\ stack' = stack
       ELSE /\ stack' = Append(stack, Frame(error_handler[b], b, Nil))
            /\ router' = rs /\ waits' = ws /\ endpoint' = endpoint
    /\ UNCHANGED <<peerClosed, error_handler>>

\* The message goes to the Stub, which calls the implementation.
Dispatch(b, m, rs, ws) ==
    /\ stack' = Append(stack, Frame("dispatch", b, m))
    /\ router' = rs /\ waits' = ws
    /\ UNCHANGED <<endpoint, peerClosed, error_handler, nerrors>>

\* One non-blocking read of the channel and what the Router does with it.
\* rs and ws are the Router table and the registrations as the caller left
\* them.
ReadSingleMessage(chain, b, rs, ws) ==
    LET c == rs[b].channel IN
    \/ /\ queue[c] = <<>> /\ ~peerClosed[c]          \* SHOULD_WAIT
       /\ WaitToReadMore(b, rs, ws)
       /\ UNCHANGED <<channelVars, error_handler, stack, nerrors>>
    \/ /\ queue[c] = <<>> /\ peerClosed[c]           \* PEER_CLOSED
       /\ NotifyError(b, rs, ws)
       /\ UNCHANGED <<queue, nread>>
    \/ /\ queue[c] # <<>>
       /\ queue' = [queue EXCEPT ![c] = Tail(@)]
       /\ nread' = [nread EXCEPT ![c] = @ + 1]
       /\ IF PassesChain(chain, Head(queue[c])) /\ StubAccepts(Head(queue[c]))
          THEN Dispatch(b, Head(queue[c]), rs, ws)
          ELSE NotifyError(b, rs, ws)

\* The wait callback, run from the message loop: never inside another
\* callback.  The registration is spent before the Router looks at it.
OnHandleReady(chain, id) ==
    /\ stack = <<>>
    /\ waits[id] # Nil
    /\ waits[id].pending # {}
    /\ LET b  == waits[id].b
           rs == [router EXCEPT ![b].wait = 0]
           ws == CancelWait(waits, id)
       IN  IF "readable" \in waits[id].pending
           THEN ReadSingleMessage(chain, b, rs, ws)
           ELSE NotifyError(b, rs, ws) /\ UNCHANGED <<queue, nread>>

\* Router::WaitForIncomingMessage: pump one message on the caller's stack.
\* Finding nothing to read is the timeout.  It may not run while the same
\* Router is inside a callback.
WaitForIncomingMessage(chain, b) ==
    /\ HasChannel(b)
    /\ ~InCallback(b)
    /\ Len(stack) < MaxDepth
    /\ ReadSingleMessage(chain, b, router, waits)

\* Destroying a Router ends every callback of it that is still running.
Orphaned(st, gone) ==
    [i \in DOMAIN st |-> IF st[i].b \in gone
                         THEN [st[i] EXCEPT !.live = FALSE] ELSE st[i]]

\* ~Router for the Routers of the Bindings in `gone`: each cancels the wait
\* it remembers and lets its handle go to `fate`: "closed" when the Router
\* still owned it, "held" when PassChannel gave it back to the caller.
RoutersDestroyed(gone, fate) ==
    LET dying == {b \in gone : router[b] # Nil} IN
    /\ router' = [b \in Bindings |-> IF b \in gone THEN Nil ELSE router[b]]
    /\ waits' = [i \in WaitIds |->
                  IF \E b \in dying : router[b].wait = i THEN Nil ELSE waits[i]]
    /\ endpoint' = [c \in Channels |->
                  IF \E b \in dying : router[b].channel = c THEN fate
                                                              ELSE endpoint[c]]

\* The callbacks of the destroyed Routers that are still running go on
\* running, without a Router to return to.
DestroyRouters(gone, fate) ==
    /\ RoutersDestroyed(gone, fate)
    /\ stack' = Orphaned(stack, gone)

\* A callback returns to the Router that made it.
AfterCallback(f) ==
    \/ /\ ~f.live                        \* the Router is gone: touch nothing
       /\ UNCHANGED <<endpoint, waits, router>>
    \/ /\ f.live /\ f.kind = "dispatch"
       /\ WaitToReadMore(f.b, router, waits)
       /\ UNCHANGED endpoint
    \/ /\ f.live /\ f.kind # "dispatch"  \* the error callback returned
       /\ CloseConnection(f.b, router, waits)

Return ==
    /\ stack # <<>>
    /\ stack' = Front(stack)
    /\ AfterCallback(Last(stack))
    /\ UNCHANGED <<queue, peerClosed, nread, error_handler, nerrors>>

=============================================================================
