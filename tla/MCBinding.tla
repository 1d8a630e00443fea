------------------------------ MODULE MCBinding ------------------------------
(***************************************************************************)
(* Binding instantiated for TLC: two Bindings and two channels, so that a  *)
(* channel can be unbound from one Binding and bound to the other and a    *)
(* callback of one Binding can operate on the other.                       *)
(***************************************************************************)
EXTENDS Binding

CONSTANTS b1, b2, c1, c2

MCBindings == {b1, b2}
MCChannels == {c1, c2}

\* One well-formed message and one of each kind a stage refuses.
MCMessages == MessageKinds

\* For liveness: one message that is dispatched and one that is refused.
MCFewMessages == {"ok", "bad_request"}

\* The two Bindings, and the two channels, are interchangeable.  Used for
\* safety only.
Symmetric == Permutations(MCBindings) \cup Permutations(MCChannels)

=============================================================================
