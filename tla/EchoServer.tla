----------------------------- MODULE EchoServer -----------------------------
(***************************************************************************)
(* src/examples/echo_server/echo_server.cc: one EchoImpl that serves every *)
(* client through a BindingSet.  The program is the BindingSet of module   *)
(* BindingSet used in one way: the service handler adds a Binding for each *)
(* request that arrives, EchoString answers from inside the dispatch and   *)
(* returns, and nothing else touches the set - no on-empty closure, no     *)
(* CloseAllBindings, no blocking wait.                                     *)
(*                                                                         *)
(* The module shows that this composition of Routers, waits and callbacks  *)
(* implements module EchoService.                                          *)
(***************************************************************************)
EXTENDS BindingSet

VARIABLE replies    \* channel -> responses EchoString has written to it

echoVars == <<allVars, replies>>

EchoTypeOK == TypeOK /\ replies \in [Channels -> 0..MaxMsgs]

\* main: the message loop and an EchoDelegate whose EchoImpl has an empty
\* BindingSet.
EchoInit == Init /\ replies = [c \in Channels |-> 0]

\* EchoImpl::AddBinding: the request goes into the set, at whatever address
\* the new Binding gets.
\* (_One: an EchoImpl that holds a single Binding in place of the set.)
EchoAddBinding_One(c) ==
    bindings_ = <<>> /\ \E b \in Bindings : AddBinding(b, c)

EchoAddBinding(c) == \E b \in Bindings : AddBinding(b, c)

\* The handler EchoDelegate registers with AddService<Echo>, run by the
\* loop for a request that arrived.
ServeRequest(c) ==
    /\ stack = <<>>
    /\ EchoAddBinding(c)
    /\ UNCHANGED replies

\* The channel of the Binding whose callback is running.
Current == router[Last(stack).b].channel

\* EchoImpl::EchoString: callback(value) writes the response to the channel
\* the request came from, and the method returns to the Router.
\* (_Silent: a method that returns without calling the callback; _Twice:
\* one that calls it a second time.)
EchoString_Twice ==
    /\ TopKind(stack) = "dispatch"
    /\ replies' = [replies EXCEPT ![Current] = @ + 2]
    /\ ReturnToRouter

EchoString_Silent ==
    /\ TopKind(stack) = "dispatch"
    /\ replies' = replies
    /\ ReturnToRouter

EchoString ==
    /\ TopKind(stack) = "dispatch"
    /\ replies' = [replies EXCEPT ![Current] = @ + 1]
    /\ ReturnToRouter

EchoNext ==
    \/ Peer /\ UNCHANGED replies
    \/ Loop /\ UNCHANGED replies
    \/ RemoveOnError /\ UNCHANGED replies
    \/ \E c \in Channels : ServeRequest(c)
    \/ EchoString

EchoSpec == EchoInit /\ [][EchoNext]_echoVars

\* loop.Run() runs every task and callback that is due: the service handler
\* for a request that arrived, the wait callbacks, and RemoveOnError and
\* EchoString, which are straight-line code.
EchoFairness ==
    /\ \A id \in WaitIds : /\ WF_echoVars(Observe(id) /\ UNCHANGED <<setVars, replies>>)
                           /\ WF_echoVars(Deliver(id) /\ UNCHANGED replies)
    /\ \A c \in Channels : WF_echoVars(ServeRequest(c))
    /\ WF_echoVars(RemoveOnError /\ UNCHANGED replies)
    /\ WF_echoVars(EchoString)

EchoFairSpec == EchoSpec /\ EchoFairness

-----------------------------------------------------------------------------
(* The refinement mapping *)

\* A callback of kind k of the Binding that owns c is running.
Running(c, kinds) ==
    /\ TopKind(stack) \in kinds
    /\ router[Last(stack).b] # Nil
    /\ Current = c

\* A connection is pending while its request is in nobody's set, served
\* while a Router owns it, and failing while RemoveOnError is about to
\* erase its Binding.
Connection(c) ==
    CASE endpoint[c] = "unborn" -> "unborn"
      [] endpoint[c] = "held"   -> "pending"
      [] endpoint[c] = "closed" -> "closed"
      [] endpoint[c] = "bound"  ->
            IF Running(c, {RemoveOnErrorClosure}) THEN "failing" ELSE "served"

\* The request EchoString is working on has left the channel and is not
\* answered yet.
Unanswered(c) ==
    IF Running(c, {"dispatch"}) THEN <<Last(stack).msg>> \o queue[c]
                                 ELSE queue[c]

Service == INSTANCE EchoService WITH
               conn <- [c \in Channels |-> Connection(c)],
               requests <- [c \in Channels |-> Unanswered(c)],
               hungUp <- peerClosed

\* The echo server implements the echo service: every step of the program
\* - a wait armed, observed or delivered, a message read, validated and
\* dispatched, a Binding added or erased inside its own error callback -
\* is a step of the service or changes nothing a client can see.
ImplementsEchoService == Service!Spec

\* Under the loop's fairness no client of the program waits for ever.
ClientsAreServed == Service!RequestsAreHandled

=============================================================================
