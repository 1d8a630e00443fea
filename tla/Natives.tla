------------------------------- MODULE Natives -------------------------------
(***************************************************************************)
(* src/dart/sdk_ext/src/natives.cc: the resolver the Dart VM calls to turn *)
(* the name of a native into its function (NativeLookup) and a function    *)
(* back into its name (NativeSymbol).  One native, MxTime_Get, is in the   *)
(* static array Entries; the others are in a DartLibraryNatives table that *)
(* is created on first use and kept in the global g_natives.               *)
(*                                                                         *)
(* The VM resolves natives on the thread of the isolate that needs them,   *)
(* and nothing in the file synchronises the isolates: a call is a sequence *)
(* of steps of one thread, and the steps of the threads interleave.        *)
(***************************************************************************)
EXTENDS Naturals, FiniteSets

CONSTANTS
    Threads,    \* the threads of the isolates that resolve natives
    Nil         \* nullptr

\* A native is told apart by its name.  What a call returns: the pointer
\* to a native's function, the C string of its name, a status, a time.
Fn(name) == [function |-> name]
Symbol(name) == [symbol |-> name]
Status(name) == [status |-> name]
Time(t) == [time |-> t]

Entry(name, count) ==
    [name |-> name, function |-> Fn(name), argument_count |-> count]

\* Entries[] = {FIDL_NATIVE_LIST(REGISTER_FUNCTION)}
Entries == {Entry("MxTime_Get", 1)}

\* What InitNatives registers, cut down to two natives that differ in
\* their number of arguments.
InitNatives == {Entry("Handle_Close", 1), Entry("System_VmoRead", 3)}

\* What the VM may ask for: every native, a name nobody registered, and
\* every count of arguments a native has.
Names == {e.name : e \in Entries \cup InitNatives} \cup {"Unknown"}
Counts == {e.argument_count : e \in Entries \cup InitNatives}
Functions == {Fn(n) : n \in Names}

\* The call dereferenced nullptr.
Crash == Status("crash")

\* mx_time_get takes a 32-bit clock id and MxTime_Get reads a 64-bit one:
\* the ids of the model are twice as wide as the ids the kernel sees.
ClockIdWidth == 4
ClockIds == 0..(2 * ClockIdWidth - 1)
Clocks == 0..2      \* MX_CLOCK_MONOTONIC, MX_CLOCK_UTC, MX_CLOCK_THREAD

Resolutions == [op : {"NativeLookup"}, name : Names, argument_count : Counts]
               \cup [op : {"NativeSymbol"}, function : Functions]

\* The argument of MxTime_Get is an integer or something else, which has
\* no clock id to tell apart.
Calls == Resolutions \cup
         {c \in [op : {"MxTime_Get"}, is_integer : BOOLEAN, clock_id : ClockIds] :
             ~c.is_integer => c.clock_id = 0}

VARIABLES
    g_natives,  \* the global: Nil, or the number of the table it points to
    ntables,    \* history: DartLibraryNatives objects created so far
    pc,         \* thread -> where it is in its call
    call,       \* thread -> the call it is in, or the last one it made
    answer      \* thread -> what its last call returned, Nil for nullptr

vars == <<g_natives, ntables, pc, call, answer>>

TypeOK ==
    /\ g_natives \in 1..Cardinality(Threads) \cup {Nil}
    /\ ntables \in 0..Cardinality(Threads)
    /\ pc \in [Threads -> {"idle", "check", "init", "use"}]
    /\ call \in [Threads -> Calls \cup {Nil}]
    /\ answer \in [Threads -> Functions \cup {Symbol(n) : n \in Names} \cup
                             {Nil, Status("MX_ERR_INVALID_ARGS"),
                              Time(0), Time(1)}]

Init ==
    /\ g_natives = Nil
    /\ ntables = 0
    /\ pc = [t \in Threads |-> "idle"]
    /\ call = [t \in Threads |-> Nil]
    /\ answer = [t \in Threads |-> Nil]

\* The one element of S, or nullptr when S is empty.
Found(S) == IF S = {} THEN Nil ELSE CHOOSE x \in S : TRUE

\* The loop of NativeLookup over Entries.
\* (_AnyCount: the loop without the comparison of argument_count.)
StaticFunction_AnyCount(c) ==
    Found({e.function : e \in {e \in Entries : e.name = c.name}})

StaticFunction(c) ==
    Found({e.function : e \in {e \in Entries :
              e.name = c.name /\ e.argument_count = c.argument_count}})

\* The loop of NativeSymbol over Entries.
StaticSymbol(c) ==
    Found({Symbol(e.name) : e \in {e \in Entries : e.function = c.function}})

\* DartLibraryNatives::GetNativeFunction and GetSymbol on a table that
\* InitNatives filled.
GetNativeFunction(c) ==
    Found({e.function : e \in {e \in InitNatives :
              e.name = c.name /\ e.argument_count = c.argument_count}})

GetSymbol(c) ==
    Found({Symbol(e.name) : e \in {e \in InitNatives : e.function = c.function}})

-----------------------------------------------------------------------------

\* The VM calls NativeLookup or NativeSymbol on thread t.  A native of
\* Entries is answered at once; any other call goes on to g_natives.
Resolve(t, c) ==
    /\ pc[t] = "idle"
    /\ c \in Resolutions
    /\ call' = [call EXCEPT ![t] = c]
    /\ LET entry == IF c.op = "NativeLookup" THEN StaticFunction(c)
                                             ELSE StaticSymbol(c)
       IN  IF entry # Nil
           THEN answer' = [answer EXCEPT ![t] = entry] /\ pc' = pc
           ELSE pc' = [pc EXCEPT ![t] = "check"] /\ answer' = answer
    /\ UNCHANGED <<g_natives, ntables>>

\* if (!g_natives)
\* (_SymbolSkips: NativeSymbol relying on NativeLookup to have made the
\* table.)
CheckNatives_SymbolSkips(t) ==
    /\ pc[t] = "check"
    /\ pc' = [pc EXCEPT ![t] = IF g_natives = Nil /\ call[t].op = "NativeLookup"
                                THEN "init" ELSE "use"]
    /\ UNCHANGED <<g_natives, ntables, call, answer>>

CheckNatives(t) ==
    /\ pc[t] = "check"
    /\ pc' = [pc EXCEPT ![t] = IF g_natives = Nil THEN "init" ELSE "use"]
    /\ UNCHANGED <<g_natives, ntables, call, answer>>

\* g_natives = InitNatives(): a new table, whatever g_natives holds by now.
StoreNatives(t) ==
    /\ pc[t] = "init"
    /\ ntables' = ntables + 1
    /\ g_natives' = ntables + 1
    /\ pc' = [pc EXCEPT ![t] = "use"]
    /\ UNCHANGED <<call, answer>>

\* return g_natives->GetNativeFunction(...) or g_natives->GetSymbol(...)
UseNatives(t) ==
    /\ pc[t] = "use"
    /\ answer' = [answer EXCEPT ![t] =
                    IF g_natives = Nil THEN Crash
                    ELSE IF call[t].op = "NativeLookup"
                         THEN GetNativeFunction(call[t])
                         ELSE GetSymbol(call[t])]
    /\ pc' = [pc EXCEPT ![t] = "idle"]
    /\ UNCHANGED <<g_natives, ntables, call>>

\* mx_time_get: the time of a clock that exists, 0 for any other id.
mx_time_get(clock_id) == Time(IF clock_id \in Clocks THEN 1 ELSE 0)

\* void MxTime_Get(Dart_NativeArguments): CHECK_INTEGER_ARGUMENT returns
\* MX_ERR_INVALID_ARGS for an argument that is not an integer; an integer
\* is narrowed to the kernel's clock id.
MxTime_Get(t, c) ==
    /\ pc[t] = "idle"
    /\ c \in Calls \ Resolutions
    /\ call' = [call EXCEPT ![t] = c]
    /\ answer' = [answer EXCEPT ![t] =
                    IF ~c.is_integer THEN Status("MX_ERR_INVALID_ARGS")
                    ELSE mx_time_get(c.clock_id % ClockIdWidth)]
    /\ UNCHANGED <<g_natives, ntables, pc>>

Next ==
    \E t \in Threads :
        \/ \E c \in Calls : Resolve(t, c) \/ MxTime_Get(t, c)
        \/ CheckNatives(t)
        \/ StoreNatives(t)
        \/ UseNatives(t)

Spec == Init /\ [][Next]_vars

-----------------------------------------------------------------------------

\* What a resolver over all the natives answers: the function with that
\* name and that number of arguments, or the name of that function.
Native(c) ==
    IF c.op = "NativeLookup"
    THEN Found({e.function : e \in {e \in Entries \cup InitNatives :
                   e.name = c.name /\ e.argument_count = c.argument_count}})
    ELSE Found({Symbol(e.name) : e \in {e \in Entries \cup InitNatives :
                   e.function = c.function}})

\* Every call is answered as by one table of all natives, wherever the
\* native is kept and whatever the other threads do: NativeLookup and
\* NativeSymbol search Entries first and g_natives second, each creates the
\* table when it finds none, and a native of Entries asked for with a
\* different number of arguments is not resolved.
AnswersAsOneTable ==
    \A t \in Threads : pc[t] = "idle" /\ call[t] \in Resolutions =>
        answer[t] = Native(call[t])

\* The table is made on first use and once: `if (!g_natives)` is there so
\* that InitNatives runs only while there is no table.
InitNativesRunsOnce == ntables <= 1

=============================================================================
