---------------------------- MODULE MCEchoServer ----------------------------
(***************************************************************************)
(* EchoServer for TLC: two clients, and as many addresses as clients, so   *)
(* that the allocator always has an address for a new Binding.  Each       *)
(* client writes up to three requests: a malformed request can come        *)
(* between two well-formed ones, and the client can hang up with requests  *)
(* still queued.                                                           *)
(***************************************************************************)
EXTENDS EchoServer

CONSTANTS b1, b2, c1, c2

MCBindings == {b1, b2}
MCChannels == {c1, c2}

\* One well-formed request and one the RequestValidator refuses.
MCMessages == {"ok", "bad_request"}

=============================================================================
