---------------------------- MODULE MCBindingSet ----------------------------
(***************************************************************************)
(* BindingSet for TLC: two addresses and two channels, so that the set     *)
(* grows to two members, loses them in either order, and an address is     *)
(* reused while the callback that freed it is still running.               *)
(***************************************************************************)
EXTENDS BindingSet

CONSTANTS b1, b2, c1, c2

MCBindings == {b1, b2}
MCChannels == {c1, c2}

\* Every way a message can fail, and the one way it can succeed.
MCMessages == MessageKinds

=============================================================================
