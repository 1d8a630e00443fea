------------------------------- MODULE System -------------------------------
(***************************************************************************)
(* fidl::dart::System of src/dart/sdk_ext/src/system.cc: the static        *)
(* methods through which a Dart program creates, writes and reads          *)
(* channels, sockets, event pairs and VMOs.  Each method checks the Handle *)
(* object it is given, makes one or two kernel calls and builds the result *)
(* object that Dart sees.                                                  *)
(*                                                                         *)
(* A Dart Handle object (handle.h) holds one kernel handle value; the      *)
(* variable `wrapper` is the handle_ member of every such object.  The     *)
(* kernel is outside the repository: its objects, queues and buffers are   *)
(* written down from the transport contract of spec.md 6, to the detail    *)
(* the methods can observe.  A Dart isolate runs one native call at a      *)
(* time, so every method is one step.                                      *)
(***************************************************************************)
EXTENDS Naturals, Sequences, FiniteSets, SequencesExt

CONSTANTS
    MaxHandles,   \* bound: kernel handles in existence at once
    MaxWrappers,  \* bound: Dart Handle objects in existence at once
    MaxBytes,     \* bound: bytes in a message, a socket buffer or a VMO
    MaxQueue,     \* bound: messages queued at one end of a channel
    MaxAttached,  \* bound: handles attached to one message
    Used,         \* the methods the Dart program calls
    Nil           \* null, or no such object

ASSUME /\ MaxHandles \in Nat /\ MaxWrappers \in Nat /\ MaxBytes \in Nat
       /\ MaxQueue \in Nat /\ MaxAttached \in Nat

HandleValues == 1..MaxHandles      \* MX_HANDLE_INVALID is 0
Wrappers == 1..MaxWrappers
Sizes == 0..MaxBytes

Types == {"channel", "socket", "eventpair", "vmo"}

Statuses == {"MX_OK", "MX_ERR_BAD_HANDLE", "MX_ERR_WRONG_TYPE",
             "MX_ERR_INVALID_ARGS", "MX_ERR_NO_MEMORY", "MX_ERR_NOT_SUPPORTED",
             "MX_ERR_PEER_CLOSED", "MX_ERR_SHOULD_WAIT", "MX_ERR_OUT_OF_RANGE",
             "MX_ERR_BUFFER_TOO_SMALL"}

Methods == {"ChannelCreate", "ChannelWrite", "ChannelQueryAndRead",
            "EventpairCreate", "SocketCreate", "SocketWrite", "SocketRead",
            "VmoCreate", "VmoGetSize", "VmoSetSize", "VmoWrite", "VmoRead"}

ASSUME Used \subseteq Methods

VARIABLES
    object,    \* kernel: handle value -> [type, peer], Nil when not in use;
               \*   peer is the other end of a pair, 0 once that end is closed
    inbox,     \* kernel: messages waiting to be read at a channel end
    buffered,  \* kernel: bytes waiting to be read at a socket end
    vmo_size,  \* kernel: size of a VMO
    wrapper,   \* Handle object -> its handle_, Nil when there is no such object
    result     \* what the last method returned to Dart, but for the Handle
               \*   objects in it; history: `actual` is what mx_vmo_read
               \*   stored in the out-parameter of VmoRead, `held` whether
               \*   byte data was acquired when the result was constructed

kernelVars == <<object, inbox, buffered, vmo_size>>
vars == <<kernelVars, wrapper, result>>

Message == [bytes : Sizes, handles : SUBSET HandleValues]

\* The shape of the state.
TypeOK ==
    /\ object \in [HandleValues -> [type : Types, peer : HandleValues \cup {0}]
                                   \cup {Nil}]
    /\ inbox \in [HandleValues -> Seq(Message)]
    /\ \A h \in HandleValues : Len(inbox[h]) <= MaxQueue
    /\ buffered \in [HandleValues -> Sizes]
    /\ vmo_size \in [HandleValues -> Sizes]
    /\ wrapper \in [Wrappers -> HandleValues \cup {0, Nil}]
    /\ result \in [op : Methods \cup {Nil}, status : Statuses \cup {Nil},
                   count : Sizes \cup {Nil}, actual : Sizes \cup {Nil},
                   held : BOOLEAN]

Reply(op, status) ==
    [op |-> op, status |-> status, count |-> Nil, actual |-> Nil,
     held |-> FALSE]

Init ==
    /\ object = [h \in HandleValues |-> Nil]
    /\ inbox = [h \in HandleValues |-> <<>>]
    /\ buffered = [h \in HandleValues |-> 0]
    /\ vmo_size = [h \in HandleValues |-> 0]
    /\ wrapper = [w \in Wrappers |-> Nil]
    /\ result = Reply(Nil, Nil)

-----------------------------------------------------------------------------
(* The kernel: spec.md 6, transport primitive contract *)

IsA(h, type) == h \in HandleValues /\ object[h] # Nil /\ object[h].type = type

PeerClosed(h) == object[h] # Nil /\ object[h].peer = 0

FreeValues == {h \in HandleValues : object[h] = Nil}

\* The status of the first check that fails.
FirstError(checks) ==
    LET failed == SelectSeq(checks, LAMBDA c : c[1])
    IN  IF failed = <<>> THEN "MX_OK" ELSE Head(failed)[2]

AtMost(a, b) == IF a <= b THEN a ELSE b

\* Closing a channel end discards what is queued there, and with it the
\* handles attached to those messages.
Attached(h) == UNION {m.handles : m \in ToSet(inbox[h])}

RECURSIVE Doomed(_)
Doomed(S) ==
    LET more == S \cup UNION {Attached(h) : h \in S}
    IN  IF more = S THEN S ELSE Doomed(more)

\* mx_handle_close of the values in S.
Closed(S) ==
    LET gone == Doomed(S) IN
    /\ object' = [h \in HandleValues |->
                    IF h \in gone \/ object[h] = Nil THEN Nil
                    ELSE IF object[h].peer \in gone
                         THEN [object[h] EXCEPT !.peer = 0] ELSE object[h]]
    /\ inbox' = [h \in HandleValues |-> IF h \in gone THEN <<>> ELSE inbox[h]]
    /\ buffered' = [h \in HandleValues |-> IF h \in gone THEN 0 ELSE buffered[h]]
    /\ vmo_size' = [h \in HandleValues |-> IF h \in gone THEN 0 ELSE vmo_size[h]]

mx_channel_write(h, hs) ==
    FirstError(<< <<~IsA(h, "channel"), "MX_ERR_WRONG_TYPE">>,
                  <<0 \in hs, "MX_ERR_BAD_HANDLE">>,
                  <<h \in hs, "MX_ERR_NOT_SUPPORTED">>,
                  <<PeerClosed(h), "MX_ERR_PEER_CLOSED">>,
                  <<IsA(h, "channel") /\ ~PeerClosed(h)
                      /\ Len(inbox[object[h].peer]) >= MaxQueue,
                    "MX_ERR_NO_MEMORY">> >>)

\* A read with no room for anything: the size query.  A message with no
\* bytes and no handles fits, and is read.
mx_channel_read_query(h) ==
    FirstError(<< <<~IsA(h, "channel"), "MX_ERR_WRONG_TYPE">>,
                  <<inbox[h] = <<>> /\ PeerClosed(h), "MX_ERR_PEER_CLOSED">>,
                  <<inbox[h] = <<>>, "MX_ERR_SHOULD_WAIT">>,
                  <<inbox[h] # <<>>
                      /\ Head(inbox[h]) # [bytes |-> 0, handles |-> {}],
                    "MX_ERR_BUFFER_TOO_SMALL">> >>)

mx_socket_write(h) ==
    FirstError(<< <<~IsA(h, "socket"), "MX_ERR_WRONG_TYPE">>,
                  <<PeerClosed(h), "MX_ERR_PEER_CLOSED">>,
                  <<IsA(h, "socket") /\ ~PeerClosed(h)
                      /\ buffered[object[h].peer] = MaxBytes,
                    "MX_ERR_SHOULD_WAIT">> >>)

mx_socket_read(h) ==
    FirstError(<< <<~IsA(h, "socket"), "MX_ERR_WRONG_TYPE">>,
                  <<buffered[h] = 0 /\ PeerClosed(h), "MX_ERR_PEER_CLOSED">>,
                  <<buffered[h] = 0, "MX_ERR_SHOULD_WAIT">> >>)

mx_vmo_access(h, offset) ==
    FirstError(<< <<~IsA(h, "vmo"), "MX_ERR_WRONG_TYPE">>,
                  <<offset > vmo_size[h], "MX_ERR_OUT_OF_RANGE">> >>)

-----------------------------------------------------------------------------
(* Handle and ByteDataScope *)

Objects == {w \in Wrappers : wrapper[w] # Nil}

\* A method may be given any Handle object, or null.
Arguments == Objects \cup {Nil}

\* !handle || !handle->is_valid()
is_valid(w) == w # Nil /\ wrapper[w] # 0

\* ByteDataScope::Acquire(): the data of a ByteData object of `size` bytes is
\* acquired; the scope is valid and has the size Dart reports.
Acquire(size) == [is_valid |-> TRUE, size |-> size]

\* ByteDataScope(size): a ByteData of `size` bytes is allocated and acquired.
ByteDataScope(size) == Acquire(size)

\* ByteDataScope::Release(), and Release() of a tonic::DartByteData.
Release(bytes) == [is_valid |-> FALSE, size |-> 0]

\* tonic::DartByteData, the `data` of a write: the bytes of the Dart object
\* are acquired when the argument is converted and stay acquired until
\* data.Release() or the end of the call.
DartByteData(length) == Acquire(length)

\* ConstructDartObject, called with the byte data of the method in the
\* state `bytes`.
Built(reply, bytes) == [reply EXCEPT !.held = bytes.is_valid]

\* Handle::Create(h) for each h of hs, in order: new Dart objects.
Wrapped(wr, hs) ==
    FoldLeft(LAMBDA acc, h :
                [acc EXCEPT ![Min({w \in Wrappers : acc[w] = Nil})] = h],
             wr, hs)

\* MakeHandleList: a Handle object for every handle that was read.
\* (_Empty: a list whose elements are never set.)
MakeHandleList_Empty(in_handles) == wrapper

MakeHandleList(in_handles) == Wrapped(wrapper, SetToSeq(in_handles))

CanWrap(n) == Cardinality(Wrappers \ Objects) >= n

-----------------------------------------------------------------------------
(* The methods *)

\* ChannelCreate, EventpairCreate and SocketCreate: a HandlePairResult with
\* the status alone, or with the status and a Handle object for each end.
HandlePairResult(op, type, options_ok) ==
    \/ /\ ~options_ok
       /\ result' = Reply(op, "MX_ERR_INVALID_ARGS")
       /\ UNCHANGED <<kernelVars, wrapper>>
    \/ /\ options_ok
       /\ Cardinality(FreeValues) < 2
       /\ result' = Reply(op, "MX_ERR_NO_MEMORY")
       /\ UNCHANGED <<kernelVars, wrapper>>
    \/ /\ options_ok
       /\ Cardinality(FreeValues) >= 2
       /\ CanWrap(2)
       /\ LET out0 == Min(FreeValues)
              out1 == Min(FreeValues \ {out0})
          IN  /\ object' = [object EXCEPT
                              ![out0] = [type |-> type, peer |-> out1],
                              ![out1] = [type |-> type, peer |-> out0]]
              /\ wrapper' = Wrapped(wrapper, <<out0, out1>>)
              /\ result' = Reply(op, "MX_OK")
       /\ UNCHANGED <<inbox, buffered, vmo_size>>

ChannelCreate(options_ok) ==
    HandlePairResult("ChannelCreate", "channel", options_ok)

\* The options are not passed on: mx_eventpair_create(0, ...).
EventpairCreate ==
    HandlePairResult("EventpairCreate", "eventpair", TRUE)

SocketCreate(options_ok) ==
    HandlePairResult("SocketCreate", "socket", options_ok)

\* The handles that were written belong to the message: ReleaseHandle()
\* on each Handle object.  (_KeepsHandles: the loop left out.)
Transferred_KeepsHandles(handles) == wrapper

Transferred(handles) ==
    [w \in Wrappers |-> IF w \in handles THEN 0 ELSE wrapper[w]]

ChannelWrite(channel, length, handles) ==
    \/ /\ ~is_valid(channel)
       /\ result' = Reply("ChannelWrite", "MX_ERR_BAD_HANDLE")
       /\ UNCHANGED <<kernelVars, wrapper>>
    \/ /\ is_valid(channel)
       /\ LET mx_handles == {wrapper[w] : w \in handles}
              status == mx_channel_write(wrapper[channel], mx_handles)
          IN  /\ result' = Reply("ChannelWrite", status)
              /\ IF status = "MX_OK"
                 THEN /\ inbox' = [inbox EXCEPT
                            ![object[wrapper[channel]].peer] =
                                Append(@, [bytes |-> length,
                                           handles |-> mx_handles])]
                      /\ wrapper' = Transferred(handles)
                 ELSE UNCHANGED <<inbox, wrapper>>
       /\ UNCHANGED <<object, buffered, vmo_size>>

\* The query, and when it says MX_ERR_BUFFER_TOO_SMALL the read into
\* buffers of the sizes it reported.  The result carries actual_bytes.
\* Nothing runs between the two kernel calls and nobody else reads this
\* end, so the second read finds the message the query saw: its failure
\* return has no step.
ChannelQueryAndRead(channel) ==
    \/ /\ ~is_valid(channel)
       /\ result' = Reply("ChannelQueryAndRead", "MX_ERR_BAD_HANDLE")
       /\ UNCHANGED <<kernelVars, wrapper>>
    \/ /\ is_valid(channel)
       /\ mx_channel_read_query(wrapper[channel]) # "MX_ERR_BUFFER_TOO_SMALL"
       /\ result' = Reply("ChannelQueryAndRead",
                          mx_channel_read_query(wrapper[channel]))
       /\ inbox' = IF mx_channel_read_query(wrapper[channel]) = "MX_OK"
                   THEN [inbox EXCEPT ![wrapper[channel]] = Tail(@)]
                   ELSE inbox
       /\ UNCHANGED <<object, buffered, vmo_size, wrapper>>
    \/ /\ is_valid(channel)
       /\ mx_channel_read_query(wrapper[channel]) = "MX_ERR_BUFFER_TOO_SMALL"
       /\ LET m == Head(inbox[wrapper[channel]])
          IN  /\ CanWrap(Cardinality(m.handles))
              /\ inbox' = [inbox EXCEPT ![wrapper[channel]] = Tail(@)]
              /\ wrapper' = MakeHandleList(m.handles)
              /\ result' = Built([Reply("ChannelQueryAndRead", "MX_OK")
                                     EXCEPT !.count = m.bytes],
                                 Release(ByteDataScope(m.bytes)))
       /\ UNCHANGED <<object, buffered, vmo_size>>

\* A write that fails leaves `actual` as it was: not initialized.  The
\* WriteResult carries it all the same.
WriteResult(op, status, actual) ==
    IF status = "MX_OK"
    THEN {[Reply(op, status) EXCEPT !.count = actual]}
    ELSE {[Reply(op, status) EXCEPT !.count = garbage] : garbage \in Sizes}

\* What the socket takes of `length` bytes.
Accepted(socket, length) ==
    AtMost(length, MaxBytes - buffered[object[wrapper[socket]].peer])

\* The count of the WriteResult of SocketWrite: `actual`, which the kernel
\* stored.  (_Length: data.length_in_bytes() passed instead.)
SocketWriteCount_Length(length, actual) == length

SocketWriteCount(length, actual) == actual

\* data.Release() comes before both returns.
SocketWrite(socket, length) ==
    \/ /\ ~is_valid(socket)
       /\ result' = Built(Reply("SocketWrite", "MX_ERR_BAD_HANDLE"),
                          Release(DartByteData(length)))
       /\ UNCHANGED <<kernelVars, wrapper>>
    \/ /\ is_valid(socket)
       /\ LET status == mx_socket_write(wrapper[socket])
              actual == IF status = "MX_OK" THEN Accepted(socket, length)
                                            ELSE 0
          IN  /\ buffered' = IF status = "MX_OK"
                             THEN [buffered EXCEPT
                                     ![object[wrapper[socket]].peer] = @ + actual]
                             ELSE buffered
              /\ result' \in {Built(r, Release(DartByteData(length))) :
                                r \in WriteResult("SocketWrite", status,
                                         SocketWriteCount(length, actual))}
       /\ UNCHANGED <<object, inbox, vmo_size, wrapper>>

\* The count of a ReadResult.  SocketRead passes `actual`.
\* (_SizeAfterRelease: bytes.size() passed instead, after bytes.Release().)
SocketReadCount_SizeAfterRelease(bytes, actual) == Release(bytes).size

SocketReadCount(bytes, actual) == actual

SocketRead(socket, size) ==
    \/ /\ ~is_valid(socket)
       /\ result' = Reply("SocketRead", "MX_ERR_BAD_HANDLE")
       /\ UNCHANGED <<kernelVars, wrapper>>
    \/ /\ is_valid(socket)
       /\ LET status == mx_socket_read(wrapper[socket])
              actual == AtMost(size, buffered[wrapper[socket]])
          IN  IF status = "MX_OK"
              THEN /\ buffered' = [buffered EXCEPT ![wrapper[socket]] =
                                                      @ - actual]
                   /\ result' = Built([Reply("SocketRead", status) EXCEPT
                            !.count = SocketReadCount(ByteDataScope(size), actual)],
                         Release(ByteDataScope(size)))
              ELSE /\ result' = Built(Reply("SocketRead", status),
                                      Release(ByteDataScope(size)))
                   /\ UNCHANGED buffered
       /\ UNCHANGED <<object, inbox, vmo_size, wrapper>>

VmoCreate(size, options_ok) ==
    \/ /\ ~options_ok
       /\ result' = Reply("VmoCreate", "MX_ERR_INVALID_ARGS")
       /\ UNCHANGED <<kernelVars, wrapper>>
    \/ /\ options_ok
       /\ FreeValues = {}
       /\ result' = Reply("VmoCreate", "MX_ERR_NO_MEMORY")
       /\ UNCHANGED <<kernelVars, wrapper>>
    \/ /\ options_ok
       /\ FreeValues # {}
       /\ CanWrap(1)
       /\ LET vmo == Min(FreeValues)
          IN  /\ object' = [object EXCEPT ![vmo] = [type |-> "vmo", peer |-> 0]]
              /\ vmo_size' = [vmo_size EXCEPT ![vmo] = size]
              /\ wrapper' = Wrapped(wrapper, <<vmo>>)
              /\ result' = Reply("VmoCreate", "MX_OK")
       /\ UNCHANGED <<inbox, buffered>>

\* `size` is not initialized either when mx_vmo_get_size fails.
VmoGetSize(vmo) ==
    /\ \/ /\ ~is_valid(vmo)
          /\ result' = Reply("VmoGetSize", "MX_ERR_BAD_HANDLE")
       \/ /\ is_valid(vmo)
          /\ result' \in WriteResult("VmoGetSize",
                                     mx_vmo_access(wrapper[vmo], 0),
                                     vmo_size[wrapper[vmo]])
    /\ UNCHANGED <<kernelVars, wrapper>>

VmoSetSize(vmo, size) ==
    \/ /\ ~is_valid(vmo)
       /\ result' = Reply("VmoSetSize", "MX_ERR_BAD_HANDLE")
       /\ UNCHANGED <<kernelVars, wrapper>>
    \/ /\ is_valid(vmo)
       /\ result' = Reply("VmoSetSize", mx_vmo_access(wrapper[vmo], 0))
       /\ vmo_size' = IF IsA(wrapper[vmo], "vmo")
                      THEN [vmo_size EXCEPT ![wrapper[vmo]] = size]
                      ELSE vmo_size
       /\ UNCHANGED <<object, inbox, buffered, wrapper>>

\* The bytes of a VMO are not modelled: a write changes nothing the
\* methods can tell apart.  Neither return is preceded by data.Release().
VmoWrite(vmo, offset, length) ==
    /\ \/ /\ ~is_valid(vmo)
          /\ result' = Built(Reply("VmoWrite", "MX_ERR_BAD_HANDLE"),
                             DartByteData(length))
       \/ /\ is_valid(vmo)
          /\ result' \in
                {Built(r, DartByteData(length)) :
                    r \in WriteResult("VmoWrite",
                                      mx_vmo_access(wrapper[vmo], offset),
                                      AtMost(length, vmo_size[wrapper[vmo]] - offset))}
    /\ UNCHANGED <<kernelVars, wrapper>>

\* The ReadResult carries bytes.size(), read after bytes.Release().
VmoRead(vmo, offset, size) ==
    /\ \/ /\ ~is_valid(vmo)
          /\ result' = Reply("VmoRead", "MX_ERR_BAD_HANDLE")
       \/ /\ is_valid(vmo)
          /\ mx_vmo_access(wrapper[vmo], offset) # "MX_OK"
          /\ result' = Built(Reply("VmoRead",
                                   mx_vmo_access(wrapper[vmo], offset)),
                             Release(ByteDataScope(size)))
       \/ /\ is_valid(vmo)
          /\ mx_vmo_access(wrapper[vmo], offset) = "MX_OK"
          /\ result' = Built([Reply("VmoRead", "MX_OK") EXCEPT
                   !.count = Release(ByteDataScope(size)).size,
                   !.actual = AtMost(size, vmo_size[wrapper[vmo]] - offset)],
                Release(ByteDataScope(size)))
    /\ UNCHANGED <<kernelVars, wrapper>>

\* Handle::Close(), declared in handle.h: the kernel handle is closed and
\* the object left invalid.
Close(w) ==
    /\ w \in Objects
    /\ is_valid(w)
    /\ Closed({wrapper[w]})
    /\ wrapper' = [wrapper EXCEPT ![w] = 0]
    /\ UNCHANGED result

\* Dart collects a Handle object; ~Handle closes what the object still
\* holds.
Finalize(w) ==
    /\ w \in Objects
    /\ Closed({wrapper[w]} \ {0})
    /\ wrapper' = [wrapper EXCEPT ![w] = Nil]
    /\ UNCHANGED result

-----------------------------------------------------------------------------

\* The program calls any method it uses, with any arguments.
Create ==
    \/ /\ "ChannelCreate" \in Used
       /\ \E options_ok \in BOOLEAN : ChannelCreate(options_ok)
    \/ /\ "SocketCreate" \in Used
       /\ \E options_ok \in BOOLEAN : SocketCreate(options_ok)
    \/ /\ "VmoCreate" \in Used
       /\ \E size \in Sizes, options_ok \in BOOLEAN : VmoCreate(size, options_ok)
    \/ /\ "EventpairCreate" \in Used
       /\ EventpairCreate

Channel ==
    \E channel \in Arguments :
        \/ /\ "ChannelWrite" \in Used
           /\ \E length \in Sizes, handles \in SUBSET Objects :
                 /\ Cardinality(handles) <= MaxAttached
                 /\ ChannelWrite(channel, length, handles)
        \/ /\ "ChannelQueryAndRead" \in Used
           /\ ChannelQueryAndRead(channel)

Socket ==
    \E socket \in Arguments, size \in Sizes :
        \/ "SocketWrite" \in Used /\ SocketWrite(socket, size)
        \/ "SocketRead" \in Used /\ SocketRead(socket, size)

Vmo ==
    \E vmo \in Arguments :
        \/ "VmoGetSize" \in Used /\ VmoGetSize(vmo)
        \/ "VmoSetSize" \in Used /\ \E size \in Sizes : VmoSetSize(vmo, size)
        \/ /\ "VmoWrite" \in Used
           /\ \E offset, size \in Sizes : VmoWrite(vmo, offset, size)
        \/ /\ "VmoRead" \in Used
           /\ \E offset, size \in Sizes : VmoRead(vmo, offset, size)

Dart == \E w \in Wrappers : Close(w) \/ Finalize(w)

Next == Create \/ Channel \/ Socket \/ Vmo \/ Dart

Spec == Init /\ [][Next]_vars

-----------------------------------------------------------------------------
(* Properties *)

\* The Handle objects made in this step.
Created == {w \in Wrappers : wrapper[w] = Nil /\ wrapper'[w] # Nil}

\* Number of queued messages that carry h.
InFlight(h) ==
    Cardinality({<<e, i>> \in HandleValues \X (1..MaxQueue) :
                    i <= Len(inbox[e]) /\ h \in inbox[e][i].handles})

\* Handle transfer (spec.md 5 and 8): a kernel handle that exists is held
\* by exactly one Handle object or travels in exactly one queued message,
\* and a handle that does not exist is held by nobody.  ChannelWrite must
\* release the attached handles when, and only when, the write succeeded;
\* ChannelQueryAndRead must wrap every handle of the message it took; and
\* closing a channel end must not strand what was queued there.
ExclusiveOwnership ==
    \A h \in HandleValues :
        Cardinality({w \in Wrappers : wrapper[w] = h}) + InFlight(h)
            = IF object[h] # Nil THEN 1 ELSE 0

\* Bytes are read from the socket end h in this step.
SocketDrained(h) == object'[h] # Nil /\ buffered'[h] < buffered[h]

\* A message is read from the channel end h in this step.
MessageTaken(h) == object'[h] # Nil /\ Len(inbox'[h]) < Len(inbox[h])

\* A read reports what it consumed: when bytes leave a socket or a message
\* leaves a channel and the end stays open, the step is a read that
\* returns MX_OK to Dart, with a count equal to the bytes that left, and
\* with Handle objects for exactly the handles the message carried.  A
\* message of no bytes and no handles is returned on the path of the size
\* query, with the status alone.
ReadsReportWhatTheyConsume ==
    [][\A h \in HandleValues :
        /\ SocketDrained(h) =>
              /\ result'.op = "SocketRead" /\ result'.status = "MX_OK"
              /\ result'.count = buffered[h] - buffered'[h]
        /\ MessageTaken(h) =>
              /\ result'.op = "ChannelQueryAndRead" /\ result'.status = "MX_OK"
              /\ inbox'[h] = Tail(inbox[h])
              /\ Head(inbox[h]) # [bytes |-> 0, handles |-> {}] =>
                    /\ result'.count = Head(inbox[h]).bytes
                    /\ {wrapper'[w] : w \in Created} = Head(inbox[h]).handles
       ]_vars

\* Bytes arrive at the socket end h in this step.
SocketFilled(h) == object'[h] # Nil /\ buffered'[h] > buffered[h]

\* A write reports what the socket took: when bytes arrive at the end of a
\* socket, the step is a SocketWrite that returns MX_OK to Dart with a count
\* equal to the bytes that arrived.  A socket whose buffer is nearly full
\* takes the part that fits, and Dart, which writes the rest later, must be
\* told how much that was and not how much it offered.
WritesReportWhatIsTaken ==
    [][\A h \in HandleValues :
        SocketFilled(h) =>
            /\ result'.op = "SocketWrite" /\ result'.status = "MX_OK"
            /\ result'.count = buffered'[h] - buffered[h]
      ]_vars

\* The ReadResult of a successful VmoRead tells Dart how many bytes were
\* read, as the ReadResult of SocketRead and of ChannelQueryAndRead does:
\* its count is the `actual` of mx_vmo_read, which the method checks
\* against `size` (FTL_DCHECK(actual <= size)).
VmoReadReportsBytesRead ==
    result.op = "VmoRead" /\ result.status = "MX_OK"
        => result.count = result.actual

\* A write that failed reports no count: SocketWrite, VmoWrite and
\* VmoGetSize return the status alone when the Handle is not valid, as the
\* read methods do for every failure, and after a failed kernel call
\* `actual` (or `size`) was never given a value.
FailedWriteReportsNoCount ==
    result.op \in {"SocketWrite", "VmoWrite", "VmoGetSize"}
        /\ result.status # "MX_OK" => result.count = Nil

\* Every result object is constructed with no byte data acquired: Dart
\* refuses to allocate while typed data is acquired, so ConstructDartObject
\* then returns an error in place of the result.  SocketWrite calls
\* data.Release() before each of its returns, and ChannelQueryAndRead,
\* SocketRead and VmoRead call bytes.Release() before theirs.
ResultBuiltAfterRelease == ~result.held

=============================================================================
