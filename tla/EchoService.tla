---------------------------- MODULE EchoService ----------------------------
(***************************************************************************)
(* What the echo server of src/examples/echo_server promises its clients,  *)
(* with nothing of how it keeps the promise: no Bindings, no Routers, no   *)
(* waits, no callbacks.  A client connects, writes requests and hangs up   *)
(* when it likes; the service takes the requests of a connection one at a  *)
(* time in the order they were written, answers each well-formed one with  *)
(* one reply, and lets a connection go only for a request it cannot accept *)
(* or after the client hung up and everything it wrote was taken.          *)
(***************************************************************************)
EXTENDS Naturals, Sequences

CONSTANTS
    Channels,   \* the connections clients may open
    Messages    \* the kinds of request a client writes; "ok" is well formed

VARIABLES
    conn,       \* connection -> "unborn", "pending" (the client asked for
                \*   the service), "served", "failing" (the service is
                \*   letting it go), "closed"
    requests,   \* connection -> the requests written and not yet taken
    hungUp,     \* connection -> the client closed its end
    replies     \* connection -> how many replies the service has sent

vars == <<conn, requests, hungUp, replies>>

Init ==
    /\ conn = [c \in Channels |-> "unborn"]
    /\ requests = [c \in Channels |-> <<>>]
    /\ hungUp = [c \in Channels |-> FALSE]
    /\ replies = [c \in Channels |-> 0]

\* The client's side of a connection is open.
Open(c) == conn[c] \in {"pending", "served", "failing"} /\ ~hungUp[c]

Connect(c) ==
    /\ conn[c] = "unborn"
    /\ conn' = [conn EXCEPT ![c] = "pending"]
    /\ UNCHANGED <<requests, hungUp, replies>>

Send(c, m) ==
    /\ Open(c)
    /\ requests' = [requests EXCEPT ![c] = Append(@, m)]
    /\ UNCHANGED <<conn, hungUp, replies>>

HangUp(c) ==
    /\ Open(c)
    /\ hungUp' = [hungUp EXCEPT ![c] = TRUE]
    /\ UNCHANGED <<conn, requests, replies>>

Accept(c) ==
    /\ conn[c] = "pending"
    /\ conn' = [conn EXCEPT ![c] = "served"]
    /\ UNCHANGED <<requests, hungUp, replies>>

\* The oldest request is well formed: it is answered.
Echo(c) ==
    /\ conn[c] = "served"
    /\ requests[c] # <<>> /\ Head(requests[c]) = "ok"
    /\ requests' = [requests EXCEPT ![c] = Tail(@)]
    /\ replies' = [replies EXCEPT ![c] = @ + 1]
    /\ UNCHANGED <<conn, hungUp>>

\* The oldest request is not well formed: it is taken and not answered,
\* and the connection is given up.
Refuse(c) ==
    /\ conn[c] = "served"
    /\ requests[c] # <<>> /\ Head(requests[c]) # "ok"
    /\ requests' = [requests EXCEPT ![c] = Tail(@)]
    /\ conn' = [conn EXCEPT ![c] = "failing"]
    /\ UNCHANGED <<hungUp, replies>>

\* The client is gone and nothing it wrote is left.
Lose(c) ==
    /\ conn[c] = "served"
    /\ requests[c] = <<>> /\ hungUp[c]
    /\ conn' = [conn EXCEPT ![c] = "failing"]
    /\ UNCHANGED <<requests, hungUp, replies>>

Drop(c) ==
    /\ conn[c] = "failing"
    /\ conn' = [conn EXCEPT ![c] = "closed"]
    /\ UNCHANGED <<requests, hungUp, replies>>

Next ==
    \E c \in Channels :
        \/ Connect(c) \/ HangUp(c) \/ \E m \in Messages : Send(c, m)
        \/ Accept(c) \/ Echo(c) \/ Refuse(c) \/ Lose(c) \/ Drop(c)

Spec == Init /\ [][Next]_vars

\* No client waits for ever: what a client has written to a connection it
\* asked for is taken, or the connection is given up.
RequestsAreHandled ==
    \A c \in Channels :
        (conn[c] \in {"pending", "served"} /\ requests[c] # <<>>)
            ~> (requests[c] = <<>> \/ conn[c] \in {"failing", "closed"})

=============================================================================
