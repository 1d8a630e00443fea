----------------------------- MODULE BindingSet -----------------------------
(***************************************************************************)
(* fidl::BindingSet<Interface> of src/cpp/bindings/binding_set.h: a vector *)
(* of heap-allocated Bindings, each removed by its own connection-error    *)
(* callback, and a closure called when such a removal empties the vector.  *)
(*                                                                         *)
(* The constant Bindings is the set of addresses the allocator hands out:  *)
(* an address is free when no member has it, and may be given out again as *)
(* soon as the Binding that had it is erased - also while the callback     *)
(* that erased it is still running.                                        *)
(*                                                                         *)
(* The member Bindings are private, so user code reaches them only through *)
(* the operations of the set.  It calls those from the message loop, from  *)
(* inside a method of the implementation (a "dispatch" frame) and from     *)
(* inside the on-empty closure.                                            *)
(***************************************************************************)
EXTENDS Router

VARIABLES
    bindings_,              \* the vector, as the sequence of its addresses
    on_empty_set_handler_   \* the closure, or Nil

setVars == <<bindings_, on_empty_set_handler_>>
allVars == <<vars, setVars>>

B == INSTANCE Binding

RemoveOnErrorClosure == "RemoveOnError"
OnEmptyClosure == "on_empty"

TypeOK ==
    /\ RouterTypeOK({RemoveOnErrorClosure})
    /\ bindings_ \in Seq(Bindings)
    /\ on_empty_set_handler_ \in {OnEmptyClosure, Nil}

\* BindingSet() {}
Init ==
    /\ RouterInit
    /\ bindings_ = <<>>
    /\ on_empty_set_handler_ = Nil

\* size_t size() const
size == Len(bindings_)

Members == ToSet(bindings_)

\* User code is running: the loop is idle and hands control to the program,
\* or a callback into the program has not returned yet.
TopKind(st) == IF st = <<>> THEN Nil ELSE Last(st).kind

InUserCode == TopKind(stack) \in {Nil, "dispatch", OnEmptyClosure}

\* bindings_.emplace_back(new Binding(...)) at a free address b, then
\* set_connection_error_handler(std::bind(&RemoveOnError, this, binding)).
Emplaced_NoHandler(b) ==
    /\ b \notin Members
    /\ bindings_' = Append(bindings_, b)
    /\ error_handler' = error_handler

Emplaced(b) ==
    /\ b \notin Members
    /\ bindings_' = Append(bindings_, b)
    /\ error_handler' = [error_handler EXCEPT ![b] = RemoveOnErrorClosure]

\* void AddBinding(ImplPtr impl, InterfaceRequest<Interface> request)
AddBinding(b, c) ==
    /\ InUserCode
    /\ endpoint[c] = "held"
    /\ Emplaced(b)
    /\ B!RouterCreated(b, c)
    /\ UNCHANGED <<queue, peerClosed, nread, stack, on_empty_set_handler_>>

\* InterfaceHandle<Interface> AddBinding(ImplPtr impl): the Binding binds
\* the server end of a channel it creates.
AddBindingNew_CreateFails(b) ==
    /\ InUserCode
    /\ Emplaced(b)
    /\ B!RouterCreated(b, Nil)
    /\ UNCHANGED <<queue, peerClosed, nread, stack, on_empty_set_handler_>>

AddBindingNew(b) ==
    /\ InUserCode
    /\ Emplaced(b)
    /\ \E c \in Channels : endpoint[c] = "unborn" /\ B!RouterCreated(b, c)
    /\ UNCHANGED <<queue, peerClosed, nread, stack, on_empty_set_handler_>>

\* The closures of the Bindings in `gone` die with them.
HandlersDestroyed(gone) ==
    error_handler' = [b \in Bindings |->
                        IF b \in gone THEN Nil ELSE error_handler[b]]

\* The frame in which the on-empty closure runs.  The Router that made the
\* error callback is gone by then.
OnEmptyFrame(b) == [Frame(OnEmptyClosure, b, Nil) EXCEPT !.live = FALSE]

\* void CloseAllBindings() { bindings_.clear(); } and ~BindingSet(), which
\* only calls it.  Every ~Binding destroys its Router.  Clearing an empty
\* vector changes nothing and is left out.
CloseAllBindings ==
    /\ InUserCode
    /\ bindings_ # <<>>
    /\ bindings_' = <<>>
    /\ DestroyRouters(Members, "closed")
    /\ HandlersDestroyed(Members)
    /\ UNCHANGED <<queue, peerClosed, nread, nerrors, on_empty_set_handler_>>

set_on_empty_set_handler(h) ==
    /\ InUserCode
    /\ h # on_empty_set_handler_
    /\ on_empty_set_handler_' = h
    /\ UNCHANGED <<vars, bindings_>>

\* bindings_.erase(it)
Erased(b) == SelectSeq(bindings_, LAMBDA x : x # b)

\* What RemoveOnError does once it has erased b and left `rest`: it calls
\* the on-empty closure, or returns through the lambda of Bind into the
\* Router that no longer exists.
AfterErase_ChecksBefore(b, rest) ==
    stack' = IF bindings_ = <<>> /\ on_empty_set_handler_ # Nil
             THEN Append(Front(stack), OnEmptyFrame(b))
             ELSE Front(stack)

AfterErase(b, rest) ==
    stack' = IF rest = <<>> /\ on_empty_set_handler_ # Nil
             THEN Append(Front(stack), OnEmptyFrame(b))
             ELSE Front(stack)

\* void RemoveOnError(Binding* binding), the closure the Router of b runs
\* on a connection error.  Erasing the unique_ptr destroys the Binding, its
\* Router and the closure that is running.  A Binding that is not found
\* aborts the program.
RemoveOnError_KeepsBinding ==
    /\ TopKind(stack) = RemoveOnErrorClosure
    /\ Last(stack).b \in Members
    /\ bindings_' = Erased(Last(stack).b)
    /\ AfterErase(Last(stack).b, Erased(Last(stack).b))
    /\ UNCHANGED <<channelVars, waits, router, error_handler, nerrors,
                   on_empty_set_handler_>>

RemoveOnError ==
    /\ TopKind(stack) = RemoveOnErrorClosure
    /\ Last(stack).b \in Members
    /\ bindings_' = Erased(Last(stack).b)
    /\ RoutersDestroyed({Last(stack).b}, "closed")
    /\ HandlersDestroyed({Last(stack).b})
    /\ AfterErase(Last(stack).b, Erased(Last(stack).b))
    /\ UNCHANGED <<queue, peerClosed, nread, nerrors, on_empty_set_handler_>>

\* The Routers the set creates have the validators of Binding::Bind.
Deliver(id) == OnHandleReady(B!ValidatorChain, id) /\ UNCHANGED setVars

\* A method of the implementation, or the on-empty closure, returns.
ReturnToRouter ==
    /\ TopKind(stack) \in {"dispatch", OnEmptyClosure}
    /\ Return
    /\ UNCHANGED setVars

-----------------------------------------------------------------------------

Peer ==
    /\ \E c \in Channels :
          \/ IncomingRequest(c)
          \/ PeerClose(c)
          \/ \E m \in Messages : PeerWrite(c, m)
    /\ UNCHANGED setVars

Loop ==
    \E id \in WaitIds :
        \/ Observe(id) /\ UNCHANGED setVars
        \/ Deliver(id)

User ==
    \/ \E b \in Bindings : \/ \E c \in Channels : AddBinding(b, c)
                           \/ AddBindingNew(b)
    \/ CloseAllBindings
    \/ \E h \in {OnEmptyClosure, Nil} : set_on_empty_set_handler(h)

Next == Peer \/ Loop \/ RemoveOnError \/ ReturnToRouter \/ User

Spec == Init /\ [][Next]_allVars

\* The message loop runs every callback that is due, and code that was
\* called returns: RemoveOnError is straight-line code, and the methods of
\* the implementation and the on-empty closure are assumed to terminate.
\* Nothing is assumed of the peer or of what the program chooses to call.
Fairness ==
    /\ \A id \in WaitIds : /\ WF_allVars(Observe(id) /\ UNCHANGED setVars)
                           /\ WF_allVars(Deliver(id))
    /\ WF_allVars(RemoveOnError)
    /\ WF_allVars(ReturnToRouter)

FairSpec == Spec /\ Fairness

-----------------------------------------------------------------------------
(* Safety *)

\* "Every member Binding is currently bound" (spec.md 3): a Binding in the
\* vector has a Router that owns an open channel, and no address is in the
\* vector twice.  AddBinding must install RemoveOnError, or a Binding whose
\* connection failed stays in the set and size() counts a dead connection.
MembersAreBound ==
    /\ \A b \in Members : HasChannel(b) /\ endpoint[B!handle(b)] = "bound"
    /\ \A i, j \in DOMAIN bindings_ : bindings_[i] = bindings_[j] => i = j

\* Nothing outlives its removal (spec.md 5, cancellation): a Router, a
\* registered wait or a bound channel always belongs to a member of the
\* set.  RemoveOnError erases the Binding from inside the callback of the
\* Binding's own Router, and CloseAllBindings may run inside a method call
\* of a member; both must leave no Router, wait or open handle behind.
NothingOutlivesRemoval ==
    /\ \A b \in Bindings : B!is_bound(b) => b \in Members
    /\ \A id \in WaitIds : waits[id] # Nil =>
          /\ waits[id].b \in Members
          /\ router[waits[id].b] = [channel |-> waits[id].c, wait |-> id]
    /\ \A c \in Channels : endpoint[c] = "bound" =>
          \E b \in Members : B!handle(b) = c

\* The on-empty closure starts running in this step.
OnEmptyCalled ==
    /\ TopKind(stack') = OnEmptyClosure
    /\ TopKind(stack) # OnEmptyClosure

\* This step is a connection error removing the last member.
ErrorDrain ==
    /\ TopKind(stack) = RemoveOnErrorClosure
    /\ bindings_ # <<>>
    /\ bindings_' = <<>>

\* spec.md 8: the on-empty-set handler fires "exactly once, only after the
\* last removal": RemoveOnError calls it in the step that erases the last
\* member, looking at the vector after the erase, and nothing else calls
\* it - CloseAllBindings and the destructor empty the set silently
\* (spec.md 4.3 and 9).
OnEmptyExactlyOnErrorDrain ==
    [][OnEmptyCalled <=> (ErrorDrain /\ on_empty_set_handler_ # Nil)]_allVars

-----------------------------------------------------------------------------
(* Liveness *)

\* The connection on c cannot go on: the peer closed its end,
\* or wrote a message that the validators or the Stub refuse.
Broken(c) ==
    \/ peerClosed[c]
    \/ \E i \in DOMAIN queue[c] :
          ~(PassesChain(B!ValidatorChain, queue[c][i]) /\ StubAccepts(queue[c][i]))

\* spec.md 8: "triggering peer-close on each must reduce size() to zero",
\* and spec.md 7: a malformed message ends the connection.  A member whose
\* connection is broken is eventually erased, whatever was queued before
\* the malformed message or the close, whatever the implementation did
\* inside its methods, and however the addresses were reused.
BrokenConnectionIsRemoved ==
    \A b \in Bindings :
        (b \in Members /\ HasChannel(b) /\ Broken(B!handle(b)))
            ~> (b \notin Members)

=============================================================================
