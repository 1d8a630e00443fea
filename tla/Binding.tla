------------------------------- MODULE Binding -------------------------------
(***************************************************************************)
(* fidl::Binding<Interface> of src/cpp/bindings/binding.h: the object that *)
(* ties one implementation to the server end of one channel.  Its state is *)
(* internal_router_ (the variable `router` of module Router: Nil is the    *)
(* empty unique_ptr) and connection_error_handler_ (`error_handler`: the   *)
(* lambda Bind installs in the Router reads the member when it runs, so    *)
(* one variable stands for both).  stub_ and impl_ never change.           *)
(*                                                                         *)
(* The Bindings of the model are constructed unbound (Binding(impl)) and   *)
(* live for the whole behaviour.  User code calls the operations at top    *)
(* level and from inside any callback, on any Binding.  What the code      *)
(* guards with FTL_DCHECK is a guard of the action: the caller's contract. *)
(***************************************************************************)
EXTENDS Router

UserHandler == "user_handler"

TypeOK == RouterTypeOK({UserHandler})

\* Binding(ImplPtr impl): nothing bound, no handler.
Init == RouterInit

\* Bind installs exactly these two validators, in this order.
ValidatorChain == <<"MessageHeaderValidator", "RequestValidator">>

is_bound(b) == router[b] # Nil

\* mx_handle_t handle() const
handle(b) == router[b].channel

\* internal_router_.reset(new Router(...)): the new Router owns c and has
\* armed its first wait; the Stub is its receiver, the lambda its error
\* callback.  c is Nil when the handle given to it is not valid.
\* (_NotArmed: a Router that is constructed without its first wait.)
RouterCreated_NotArmed(b, c) ==
    /\ router' = [router EXCEPT ![b] = [channel |-> c, wait |-> 0]]
    /\ waits' = waits
    /\ endpoint' = MoveEndpoint(endpoint, c, "bound")
    /\ nerrors' = [nerrors EXCEPT ![b] = 0]

RouterCreated(b, c) ==
    /\ router' = [router EXCEPT ![b] = [channel |-> c, wait |-> FreeId(waits)]]
    /\ waits' = AsyncWait(waits, b, c)
    /\ endpoint' = MoveEndpoint(endpoint, c, "bound")
    /\ nerrors' = [nerrors EXCEPT ![b] = 0]

\* void Bind(mx::channel handle), and Bind(InterfaceRequest) which passes
\* the request's channel to it.
\* (_AdoptsFrames: the new Router is taken for the one that was destroyed at
\* this Binding while its callback was running, as it is when the callback
\* on its return asks the Binding, and not the Router that called it,
\* whether anything is left to return to.)
Bind_AdoptsFrames(b, c) ==
    /\ ~is_bound(b)
    /\ endpoint[c] = "held"
    /\ RouterCreated(b, c)
    /\ stack' = [i \in DOMAIN stack |->
                   IF stack[i].b = b THEN [stack[i] EXCEPT !.live = TRUE]
                                     ELSE stack[i]]
    /\ UNCHANGED <<queue, peerClosed, nread, error_handler>>

Bind(b, c) ==
    /\ ~is_bound(b)
    /\ endpoint[c] = "held"
    /\ RouterCreated(b, c)
    /\ UNCHANGED <<queue, peerClosed, nread, error_handler, stack>>

\* void Bind(InterfaceHandle<Interface>* ptr): a new channel whose client
\* end goes to the caller and whose server end is bound.  The status of
\* mx::channel::create is not looked at; the model takes the call to
\* succeed.  (_CreateFails: the step if it did not, binding an invalid
\* handle.)
BindNewChannel_CreateFails(b) ==
    /\ ~is_bound(b)
    /\ RouterCreated(b, Nil)
    /\ UNCHANGED <<queue, peerClosed, nread, error_handler, stack>>

BindNewChannel(b) ==
    /\ ~is_bound(b)
    /\ \E c \in Channels : endpoint[c] = "unborn" /\ RouterCreated(b, c)
    /\ UNCHANGED <<queue, peerClosed, nread, error_handler, stack>>

\* InterfaceHandle<Interface> NewBinding(): the same, with the channel made
\* by client.NewRequest() and the client end returned.
NewBinding(b) == BindNewChannel(b)

\* void Close(): the Router is destroyed and takes the channel with it.
\* (_KeepsWait: a teardown that forgets to cancel the wait; _LeaksChannel:
\* one that forgets to close the handle.)
Close_KeepsWait(b) ==
    /\ is_bound(b)
    /\ router' = [router EXCEPT ![b] = Nil]
    /\ endpoint' = MoveEndpoint(endpoint, router[b].channel, "closed")
    /\ stack' = Orphaned(stack, {b})
    /\ UNCHANGED <<queue, peerClosed, nread, waits, error_handler, nerrors>>

Close_LeaksChannel(b) ==
    /\ is_bound(b)
    /\ router' = [router EXCEPT ![b] = Nil]
    /\ waits' = CancelWait(waits, router[b].wait)
    /\ stack' = Orphaned(stack, {b})
    /\ UNCHANGED <<channelVars, error_handler, nerrors>>

Close(b) ==
    /\ is_bound(b)
    /\ DestroyRouters({b}, "closed")
    /\ UNCHANGED <<queue, peerClosed, nread, error_handler, nerrors>>

\* InterfaceRequest<Interface> Unbind(): PassChannel hands the channel back
\* to the caller, then the Router is destroyed.  The code dereferences
\* internal_router_ without a check, so the call needs a Router.
Unbind(b) ==
    /\ is_bound(b)
    /\ DestroyRouters({b}, "held")
    /\ UNCHANGED <<queue, peerClosed, nread, error_handler, nerrors>>

set_connection_error_handler(b, h) ==
    /\ h # error_handler[b]
    /\ error_handler' = [error_handler EXCEPT ![b] = h]
    /\ UNCHANGED <<channelVars, waits, router, stack, nerrors>>

\* bool WaitForIncomingMethodCall(ftl::TimeDelta timeout).  The method
\* itself asks only for a Router (FTL_DCHECK(internal_router_)); that the
\* Router still has its channel and is not inside one of its own callbacks
\* is the contract of Router::WaitForIncomingMessage (spec.md 4.1 and 5),
\* which the caller has to keep.
\* (_Reentrant: the call made on a Router that is inside its own callback.)
WaitForIncomingMethodCall_Reentrant(b) ==
    /\ is_bound(b)
    /\ HasChannel(b)
    /\ Len(stack) < MaxDepth
    /\ ReadSingleMessage(ValidatorChain, b, router, waits)

WaitForIncomingMethodCall(b) ==
    /\ is_bound(b)
    /\ WaitForIncomingMessage(ValidatorChain, b)

\* The waiter's callback into the Router that Bind created.
Deliver(id) == OnHandleReady(ValidatorChain, id)

-----------------------------------------------------------------------------

Peer ==
    \E c \in Channels :
        \/ IncomingRequest(c)
        \/ PeerClose(c)
        \/ \E m \in Messages : PeerWrite(c, m)

Loop == \E id \in WaitIds : Observe(id) \/ Deliver(id)

User ==
    \E b \in Bindings :
        \/ \E c \in Channels : Bind(b, c)
        \/ BindNewChannel(b)
        \/ NewBinding(b)
        \/ Close(b)
        \/ Unbind(b)
        \/ \E h \in {Nil, UserHandler} : set_connection_error_handler(b, h)
        \/ WaitForIncomingMethodCall(b)

Next == Peer \/ Loop \/ Return \/ User

Spec == Init /\ [][Next]_vars

\* The message loop runs every callback that is due (spec.md 4.5: exactly
\* one callback fires per registration that is not cancelled), and every
\* callback into user code returns.  Both are strong: a callback is due
\* while the loop is busy with another one and gets its turn when the loop
\* is idle again, and a callback that pumps nested ones is not returning
\* while they run.  Nothing is assumed of the peer or of what the program
\* chooses to call.
Fairness ==
    /\ \A id \in WaitIds : WF_vars(Observe(id)) /\ SF_vars(Deliver(id))
    /\ \A depth \in 1..MaxDepth : SF_vars(Len(stack) = depth /\ Return)

FairSpec == Spec /\ Fairness

-----------------------------------------------------------------------------
(* Safety *)

\* No callback after teardown (spec.md 8.5): every registration with the
\* Async Wait Service belongs to a Router that is alive, still owns the
\* channel the wait is on and remembers the token; and a token a Router
\* remembers is registered.  Close, Unbind and the error path must cancel
\* the wait before the Router or its handle goes away.
WaitsBelongToRouters ==
    /\ \A id \in WaitIds : waits[id] # Nil =>
          /\ HasChannel(waits[id].b)
          /\ router[waits[id].b] = [channel |-> waits[id].c, wait |-> id]
    /\ \A b \in Bindings : is_bound(b) /\ router[b].wait # 0 =>
          waits[router[b].wait] # Nil

\* The Router never goes deaf (spec.md 3, Router invariant): outside its
\* own callbacks a Router has a wait armed exactly when it owns a channel.
\* Bind must arm the first wait, and every path out of OnHandleReady and out
\* of a callback - dispatch, spurious wake, blocking pump - must arm it
\* again, unless the connection failed.
IdleRouterIsArmed ==
    \A b \in Bindings : is_bound(b) /\ ~InCallback(b) =>
        (router[b].channel # Nil <=> router[b].wait # 0)

\* Exclusive ownership of the handle (spec.md 5): the server end of a
\* channel is "bound" exactly when one Router owns it, so Close, Unbind and
\* the error path neither leak a handle nor leave two owners.
EndpointHasOneOwner ==
    \A c \in Channels :
        Cardinality({b \in Bindings : HasChannel(b) /\ handle(b) = c})
            = IF endpoint[c] = "bound" THEN 1 ELSE 0

\* Errors are reported once (spec.md 7): between one Bind and the next the
\* connection-error callback of a Binding runs at most once, whether the
\* error came through the wait callback or through a blocking
\* WaitForIncomingMethodCall, and whatever user code called from inside a
\* callback, so long as it keeps the one rule of spec.md 4.1: no blocking
\* wait on a Router from inside that Router's own callbacks.  binding.h does
\* not enforce the rule, and without it the property fails.
ErrorReportedOncePerBind == \A b \in Bindings : nerrors[b] <= 1

\* A callback that outlives its Router leaves the next one alone (spec.md
\* 4.1: "the Router may be destroyed inside the callback").  A Router gives
\* its channel up by itself only for an error it reported on this very
\* connection.  Close or Unbind from inside the error callback, then Bind
\* on the same Binding, then the return of the callback: the Router that
\* made the callback is gone, and the close that follows an error callback
\* must not fall on the Router bound after it, whose connection is sound.
RouterGivesUpOnlyOnError ==
    \A b \in Bindings : is_bound(b) /\ ~HasChannel(b) => nerrors[b] > 0

\* spec.md 8.6 on a single Binding: "driver closes endpoint B; handler
\* fires exactly once; subsequent is_bound() is false".  is_bound() is
\* !!internal_router_, and the error lambda of Bind only forwards to the
\* user's handler.
UnboundAfterError ==
    \A b \in Bindings : nerrors[b] > 0 /\ ~InCallback(b) => ~is_bound(b)

-----------------------------------------------------------------------------
(* Liveness *)

\* The pump never stalls (spec.md 2: "drains and validates one message,
\* dispatches it, and re-registers the wait - this repeats"; spec.md 7: a
\* closed peer surfaces as a connection error): whatever a bound channel
\* signals is eventually served.  The messages the peer wrote are all read,
\* and after them a hang-up of the peer makes the Router give the channel
\* up; or the program took the channel away with Close or Unbind.  Bind arms
\* the first wait, and after every dispatch, every spurious wake and every
\* blocking pump a wait must be armed again, for both signals.
SignalsAreServed ==
    \A c \in Channels :
        (endpoint[c] = "bound" /\ SignalsOf(c) # {})
            ~> (endpoint[c] # "bound" \/ SignalsOf(c) = {})

=============================================================================
