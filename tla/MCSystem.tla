------------------------------ MODULE MCSystem ------------------------------
(***************************************************************************)
(* System for TLC.  The methods fall into two groups that share no kernel  *)
(* state but the handle table, and each group is checked with the other    *)
(* one left out of the program.                                            *)
(***************************************************************************)
EXTENDS System

\* Messages and the handles that travel in them.  VMOs and event pairs are
\* what gets attached, next to the ends of other channels.
ChannelMethods == {"ChannelCreate", "ChannelWrite", "ChannelQueryAndRead",
                   "EventpairCreate", "VmoCreate"}

\* Byte streams and buffers.
ByteMethods == {"SocketCreate", "SocketWrite", "SocketRead", "VmoCreate",
                "VmoGetSize", "VmoSetSize", "VmoWrite", "VmoRead"}

\* One buffer, read at every offset and size.
VmoMethods == {"VmoCreate", "VmoSetSize", "VmoRead"}

\* A socket to write to and the Close that makes the write fail.
WriteMethods == {"SocketCreate", "SocketWrite"}

\* A buffer and writes to it.
VmoWriteMethods == {"VmoCreate", "VmoWrite"}

=============================================================================
