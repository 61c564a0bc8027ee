------------------------------ MODULE BufPool -------------------------------
(***************************************************************************)
(* What the buffer core promises its users, without its counters, states   *)
(* and bit maps: a pool in which a buffer is lent to one user at a time,   *)
(* that user may share it, and the moment the last claim on it is given up *)
(* the buffer is the last of a first-in first-out queue.                   *)
(*                                                                         *)
(* BufCore implements this pool (BufCoreImpl).  The promise ends with the  *)
(* first completion callback that returns or lends a buffer which STREAMOFF*)
(* has taken from it meanwhile: the core cannot tell such a callback from  *)
(* the rightful owner.                                                     *)
(***************************************************************************)
EXTENDS Naturals, Sequences

CONSTANT Bufs

VARIABLES
    known,      \* the buffers that have been handed to the driver
    claims,     \* how many claims there are on each buffer
    fifo,       \* the buffers that can be taken
    broken      \* a callback has touched a buffer it no longer owned

vars == <<known, claims, fifo, broken>>

PoolInit ==
    /\ known = {}
    /\ claims = [b \in Bufs |-> 0]
    /\ fifo = <<>>
    /\ broken = FALSE

\* The application hands a new buffer to the driver and keeps a claim on it.
Add(b) ==
    /\ b \notin known
    /\ known' = known \cup {b}
    /\ claims' = [claims EXCEPT ![b] = 1]
    /\ UNCHANGED <<fifo, broken>>

\* It takes back a buffer only the application has a claim on.
Remove(b) ==
    /\ b \in known /\ \A i \in DOMAIN fifo : fifo[i] # b
    /\ claims[b] = 1
    /\ known' = known \ {b}
    /\ claims' = [claims EXCEPT ![b] = 0]
    /\ UNCHANGED <<fifo, broken>>

\* A user takes the buffer that has waited longest; nobody else has it.
Take ==
    /\ fifo # <<>>
    /\ claims[fifo[1]] = 0
    /\ claims' = [claims EXCEPT ![fifo[1]] = 1]
    /\ fifo' = Tail(fifo)
    /\ UNCHANGED <<known, broken>>

\* A buffer that somebody has is shared with one more user.
Share(b) ==
    /\ b \in known /\ claims[b] > 0
    /\ claims' = [claims EXCEPT ![b] = @ + 1]
    /\ UNCHANGED <<known, fifo, broken>>

\* A claim is given up; the last one puts the buffer behind the others.
GiveUp(b) ==
    /\ b \in known /\ claims[b] > 0
    /\ claims' = [claims EXCEPT ![b] = @ - 1]
    /\ fifo' = IF claims[b] = 1 THEN Append(fifo, b) ELSE fifo
    /\ UNCHANGED <<known, broken>>

\* STREAMOFF: every buffer is the application's alone.
Recall ==
    /\ claims' = [b \in Bufs |-> IF b \in known THEN 1 ELSE 0]
    /\ fifo' = <<>>
    /\ UNCHANGED <<known, broken>>

\* The end of the promise.
Intrude == broken' = TRUE

PoolNext ==
    /\ ~broken
    /\ \/ \E b \in Bufs : Add(b) \/ Remove(b) \/ Share(b) \/ GiveUp(b)
       \/ Take \/ Recall \/ Intrude

PoolSpec == PoolInit /\ [][PoolNext]_vars
=============================================================================
