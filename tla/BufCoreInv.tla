----------------------------- MODULE BufCoreInv -----------------------------
(***************************************************************************)
(* The inductive invariant behind BufCore's safety properties.             *)
(*                                                                         *)
(* RefExact alone is not inductive.  Whether an operation of the core      *)
(* really moves a reference depends on the state it finds the entry in     *)
(* (fill and done refuse some states and return early), on whether the DI  *)
(* manager has the buffer already, and on the entry having been through    *)
(* the free queue since the last reset.  The parts below tie each of these *)
(* to the user that has the buffer and to the progress of STREAMOFF.       *)
(***************************************************************************)
EXTENDS BufCore

\* The items of a chain after the source are downstream users, and none of
\* them is the source again.
ChainOK ==
    \A b \in Bufs : \A i \in 2..Len(chain[b]) :
        /\ chain[b][i] \in {"GE2D", "VPP", "SINK"}
        /\ chain[b][i] # chain[b][1]

\* A user that has the buffer is on its chain; the decoder, and whoever took
\* the buffer from the free queue, is the chain's source and not its end.
UsersOnChain ==
    \A b \in Bufs :
        /\ where[b] \in {"DEC"} \cup PostProcs => Places(b, where[b]) # {}
        /\ (where[b] = "DEC" \/ (where[b] \in PostProcs /\ bst[b] = "USE")) =>
              Len(chain[b]) >= 2 /\ chain[b][1] = where[b]

\* The state of an entry tells who can have the buffer.
StateOK ==
    \A b \in tbl :
        /\ where[b] = "DEC" => bst[b] \in {"USE", "REF"}
        /\ where[b] \in PostProcs => bst[b] \in {"USE", "REF", "DONE"}
        /\ where[b] \in {"SINK", "lost"} => bst[b] \in {"REF", "DONE"}
        /\ where[b] \in {"app", "parked"} => bst[b] \in {"INIT", "REF", "DONE"}
        /\ where[b] = "idle" => bst[b] \in {"REF", "FREE"} \/ (bst[b] = "INIT" /\ ~inited[b])
        /\ bst[b] = "FREE" => ref[b] = 0

\* An entry that has not been through the free queue since the last reset is
\* still the application's, or waits for the DI manager to report it.
FreshOK ==
    \A b \in Bufs :
        /\ (b \in tbl /\ ~inited[b]) =>
              /\ where[b] \in {"app", "parked", "idle"}
              /\ bst[b] = "INIT"
              /\ decRef[b] = 0
              /\ where[b] # "idle" => di[b] \notin {"ref", "kept"} /\ b \notin work
        /\ b \notin tbl => ~inited[b]

\* The DI manager has no buffer that a user before the sink works on, and the
\* ones it kept over a reset have not been queued since.
DiOK ==
    \A b \in Bufs :
        /\ where[b] \in {"DEC"} \cup PostProcs => di[b] = "no" /\ b \notin work
        /\ di[b] # "no" => DiPost
        /\ di[b] = "stale" => ~inited[b] /\ where[b] # "idle"
        /\ di[b] = "kept" => stop \in {"vppreset", "flushed"}
        /\ di[b] = "ref" => stop \notin {"vppreset", "flushed"}
        /\ di[b] \in {"ref", "kept"} => b \notin work

\* What is not in the table is held by nobody.
TableOK ==
    /\ \A b \in Bufs :
        /\ b \in tbl <=> where[b] # "none"
        /\ b \notin tbl => /\ decRef[b] = 0 /\ di[b] \notin {"ref", "kept"}
                          /\ b \notin work /\ bst[b] \in {"INIT", "ERR"}
    /\ tbl # {} => bm_state = "ACTIVE"

\* A completion callback that is past its is_stream_off test still has its
\* buffer, or STREAMOFF is over and STREAMON has not followed.
PassedAt(b) ==
    passed[b] # NoCall =>
        \/ /\ where[b] = passed[b].u
           /\ (passed[b].op = "fill") <=> IsLast(b, passed[b].u)
        \/ off /\ stop = "run"

PassedOK == \A b \in Bufs : PassedAt(b)

\* The progress of STREAMOFF: after it nothing is held, queued or pending.
StopOK ==
    /\ ~off => stop = "run"
    /\ ~wq_on => off /\ stop \in {"run", "flushed"}
    /\ stop = "flushed" => work = {}
    /\ released => off /\ stop = "run"
    /\ (off /\ stop = "run") =>
          /\ free_que = <<>> /\ work = {}
          /\ \A b \in Bufs : /\ where[b] \in {"none", "parked", "app"}
                             /\ decRef[b] = 0
                             /\ di[b] \notin {"ref", "kept"}
                             /\ ~inited[b]

\* The inductive invariant.  After an intrusion (see PPAct) only the types
\* are left.
Inv ==
    /\ TypeOK
    /\ ~intruded =>
        /\ RefExact /\ FreeQueExact /\ CoreRefExact
        /\ ChainOK /\ UsersOnChain /\ StateOK /\ FreshOK /\ DiOK /\ TableOK
        /\ PassedOK /\ StopOK

(* The holder counters.  They are not in Inv: they are only right where no *)
(* GE2D takes buffers from the free queue, and as long as the decoder's    *)
(* references fit into their four bits.                                    *)

\* The word the holders of an entry amount to.
Word(b) ==
    decRef[b] + B2N(where[b] = "DEC") + 16 * B2N(where[b] = "GE2D") + 256 * B2N(where[b] = "VPP")
        + 4096 * B2N(where[b] \in {"SINK", "app", "parked"})
        + 65536 * (B2N(di[b] \in {"ref", "kept"}) + B2N(b \in work))

\* An entry that has been through the free queue has it, unless the sink has
\* dropped the buffer.
WordAt(b) == inited[b] /\ where[b] # "lost" => bits[b] = Word(b)

\* A chain names no user twice and not GE2D: the giver is the previous user.
GiverAt(b) == /\ \A i, j \in 1..Len(chain[b]) : chain[b][i] = chain[b][j] => i = j
              /\ \A i \in 1..Len(chain[b]) : chain[b][i] # "GE2D"

WordInv == ~intruded => \A b \in Bufs : WordAt(b) /\ GiverAt(b)
=============================================================================
