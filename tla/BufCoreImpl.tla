---------------------------- MODULE BufCoreImpl -----------------------------
(***************************************************************************)
(* The buffer core implements the pool of BufPool.  The claims are those   *)
(* the users have (Claims: who works on the buffer, the decoder's          *)
(* prediction references, the DI manager with its pending work), never the *)
(* core's own count: that entry->ref, the entry states and the free queue  *)
(* keep up with them is what has to be shown.                              *)
(***************************************************************************)
EXTENDS BufCoreInv

claimsNow == [b \in Bufs |-> Claims(b)]

Pool == INSTANCE BufPool WITH known <- tbl, claims <- claimsNow,
                              fifo <- free_que, broken <- intruded

\* Every step of aml_buf_core.c is a step of the pool or leaves it alone: a
\* buffer is queued in the very step in which its last user lets go, whichever
\* of put_ref, fill and the DI manager's recycle work that is, buffers are
\* taken in the order in which they came, and nobody takes one that the
\* application, the decoder or the DI manager still has.
ImplementsPool == Pool!PoolSpec
=============================================================================
