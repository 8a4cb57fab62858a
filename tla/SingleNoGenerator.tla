-------------------------- MODULE SingleNoGenerator --------------------------
(***************************************************************************)
(* SingleNoGeneratorUtils.generateByType, called by several threads of one *)
(* process with the one type flag it ever gets.  An order number is the    *)
(* time to a tenth of a second, a number for host and process, and a       *)
(* sequence number of six digits: within a process and a tenth of a second *)
(* only the sequence number tells two orders apart.  It comes from an      *)
(* AtomicInteger that is installed on first use and set back to 0 past     *)
(* maxInteger.  The flag is a literal, so "synchronized (typeFlag)" is a   *)
(* real monitor here; getAndIncrement does not take it.                    *)
(***************************************************************************)
EXTENDS Integers, Sequences

CONSTANTS Threads,
          maxInteger,  \* 999999 in the code
          MaxCalls,    \* bound: calls made in one behaviour
          None         \* null

ASSUME MaxAssumption == maxInteger \in Nat /\ MaxCalls \in Nat
ASSUME NoneAssumption == None \notin Threads

VARIABLES
    pc,          \* where each thread is in generateByType
    type,        \* the counter under the flag, named by its creator, or None
    count,       \* the value of each counter object
    local,       \* the local atomicInteger
    increment,   \* the local increment
    monitor,     \* the thread inside synchronized (typeFlag), or None
    calls,       \* calls made so far
    drawn,       \* every value getAndIncrement returned, in order (history)
    resetAt,     \* per thread, how much had been drawn at its set(0) (history)
    redundant    \* did anybody reset a counter not above maxInteger (history)

vars == <<pc, type, count, local, increment, monitor, calls, drawn, resetAt,
          redundant>>

PCs == {"idle", "get", "install", "reget", "draw", "over", "redraw", "format"}

Init ==
    /\ pc = [t \in Threads |-> "idle"]
    /\ type = None
    /\ count = [t \in Threads |-> 0]
    /\ local = [t \in Threads |-> None]
    /\ increment = [t \in Threads |-> 0]
    /\ monitor = None
    /\ calls = 0
    /\ drawn = << >>
    /\ resetAt = [t \in Threads |-> 0]
    /\ redundant = FALSE

GoTo(t, l) == pc' = [pc EXCEPT ![t] = l]

\* increment = atomicInteger.getAndIncrement()
GetAndIncrement(t) ==
    /\ increment' = [increment EXCEPT ![t] = count[local[t]]]
    /\ count' = [count EXCEPT ![local[t]] = @ + 1]
    /\ drawn' = Append(drawn, count[local[t]])

-----------------------------------------------------------------------------

\* generateOrderNo is called.
Call(t) ==
    /\ pc[t] = "idle"
    /\ calls < MaxCalls
    /\ calls' = calls + 1
    /\ GoTo(t, "get")
    /\ UNCHANGED <<type, count, local, increment, monitor, drawn, resetAt, redundant>>

\* atomicInteger = type.get(typeFlag); null sends the thread to the monitor.
Get(t) ==
    /\ pc[t] = "get"
    /\ local' = [local EXCEPT ![t] = type]
    /\ GoTo(t, IF type = None THEN "install" ELSE "reget")
    /\ UNCHANGED <<type, count, increment, monitor, calls, drawn, resetAt, redundant>>

\* Mutant of Install: put where the code has putIfAbsent.
InstallAlways(t) ==
    /\ pc[t] = "install"
    /\ monitor = None
    /\ local' = [local EXCEPT ![t] = t]
    /\ type' = t
    /\ GoTo(t, "reget")
    /\ UNCHANGED <<count, increment, monitor, calls, drawn, resetAt, redundant>>

\* synchronized: the second test is of the local variable, still null, so every
\* thread that gets here makes a counter; putIfAbsent keeps the first.
Install(t) ==
    /\ pc[t] = "install"
    /\ monitor = None
    /\ local' = [local EXCEPT ![t] = t]
    /\ type' = IF type = None THEN t ELSE type
    /\ GoTo(t, "reget")
    /\ UNCHANGED <<count, increment, monitor, calls, drawn, resetAt, redundant>>

\* atomicInteger = type.get(typeFlag), now the one that was kept.
ReGet(t) ==
    /\ pc[t] = "reget"
    /\ local' = [local EXCEPT ![t] = type]
    /\ GoTo(t, "draw")
    /\ UNCHANGED <<type, count, increment, monitor, calls, drawn, resetAt, redundant>>

\* The number is drawn; above maxInteger the thread goes for the monitor.
Draw(t) ==
    /\ pc[t] = "draw"
    /\ GetAndIncrement(t)
    /\ GoTo(t, IF count[local[t]] > maxInteger THEN "over" ELSE "format")
    /\ UNCHANGED <<type, local, monitor, calls, resetAt, redundant>>

\* synchronized: atomicInteger.set(0), without another look at its value.
Reset(t) ==
    /\ pc[t] = "over"
    /\ monitor = None
    /\ monitor' = t
    /\ count' = [count EXCEPT ![local[t]] = 0]
    /\ resetAt' = [resetAt EXCEPT ![t] = Len(drawn)]
    /\ redundant' = (redundant \/ count[local[t]] <= maxInteger)
    /\ GoTo(t, "redraw")
    /\ UNCHANGED <<type, local, increment, calls, drawn>>

\* A second getAndIncrement, not compared with maxInteger; the monitor is free.
Redraw(t) ==
    /\ pc[t] = "redraw"
    /\ GetAndIncrement(t)
    /\ monitor' = None
    /\ GoTo(t, "format")
    /\ UNCHANGED <<type, local, calls, resetAt, redundant>>

\* The time is read, the number is put together and returned.
Format(t) ==
    /\ pc[t] = "format"
    /\ local' = [local EXCEPT ![t] = None]
    /\ GoTo(t, "idle")
    /\ UNCHANGED <<type, count, increment, monitor, calls, drawn, resetAt, redundant>>

Step(t) ==
    \/ Get(t) \/ Install(t) \/ ReGet(t) \/ Draw(t)
    \/ Reset(t) \/ Redraw(t) \/ Format(t)

Next == \E t \in Threads : Call(t) \/ Step(t)

Spec == Init /\ [][Next]_vars

-----------------------------------------------------------------------------
(* Properties *)

\* Every variable keeps its type.
TypeOK ==
    /\ pc \in [Threads -> PCs]
    /\ type \in Threads \cup {None}
    /\ count \in [Threads -> Nat]
    /\ local \in [Threads -> Threads \cup {None}]
    /\ increment \in [Threads -> Nat]
    /\ monitor \in Threads \cup {None}
    /\ calls \in 0 .. MaxCalls
    /\ drawn \in Seq(Nat)
    /\ resetAt \in [Threads -> Nat]
    /\ redundant \in BOOLEAN

\* However many threads make a counter on first use, all draw from the same
\* one, and never from null.
OneCounter ==
    \A t \in Threads :
        pc[t] \in {"draw", "over", "redraw", "format"}
          => local[t] # None /\ local[t] = type

\* Two equal sequence numbers are at least a whole lap of the counter apart (so
\* their times differ), unless two threads past maxInteger both reset it.
EqualOnlyALapApart ==
    \/ redundant
    \/ \A i, j \in 1 .. Len(drawn) :
          i < j /\ drawn[i] = drawn[j] => j - i > maxInteger

\* A sequence number handed out has at most six digits, unless the others drew
\* all of them between this thread's set(0) and its getAndIncrement.
SixDigits ==
    [][\A t \in Threads :
          pc[t] # "format" /\ pc'[t] = "format" /\ increment'[t] > maxInteger
            => Len(drawn) - resetAt[t] > maxInteger]_vars
=============================================================================
