------------------------------ MODULE BufCore -------------------------------
(***************************************************************************)
(* The buffer core of the V4L2 decoder (amvdec_ports/aml_buf_core.c with   *)
(* the hooks of aml_buf_mgr.c): reference-counted capture buffers that     *)
(* travel between the application, the decoder, the VPP and GE2D post      *)
(* processors, the V4L2 sink and the DI manager, and come back to a free   *)
(* queue from which the next user takes them.                              *)
(*                                                                         *)
(* Every operation of the core runs under bc->mutex and is one action.     *)
(* What is not atomic in the code is split: a post processor's callback    *)
(* tests ctx->is_stream_off before it takes the mutex (PPCheck, PPAct), a  *)
(* DI callback only queues work (DiRelease, RecycleWork), and STREAMOFF is *)
(* the sequence StopBegin, VdecReset, VppReset, FlushWork, Reset, any of   *)
(* which the others may run between.                                       *)
(*                                                                         *)
(* Dynamic (DMA pool) mode, field pairs (sub_entry) and the AVBC wrapper   *)
(* are not part of this module.                                            *)
(***************************************************************************)
EXTENDS Pipeline, Integers, FiniteSets, Functions

CONSTANTS Bufs,       \* capture buffers (dmabuf keys)
          Ctx,        \* the post processors of this V4L2 context
          DiPost,     \* ctx->enable_di_post: a DI manager follows the sink
          MaxDecRef   \* bound on the references the decoder keeps per buffer

ASSUME BufsAssumption   == IsFiniteSet(Bufs)
ASSUME CtxAssumption    == Ctx \in Contexts /\ ~Ctx.avbc
\* vpp_needed answers no when ctx->enable_di_post is set.
ASSUME DiPostAssumption == DiPost \in BOOLEAN /\ (DiPost => ~Ctx.vpp)
ASSUME DecRefAssumption == MaxDecRef \in Nat

VARIABLES
    (* struct buf_core_mgr_s *)
    tbl,        \* keys of bc->buf_table
    free_que,   \* bc->free_que
    free_num,   \* bc->free_num
    bm_state,   \* bc->state
    core_ref,   \* bc->core_ref
    wq_on,      \* bc->workqueue_enabled
    work,       \* entries whose recycle_buf_ref_work is pending
    (* struct buf_core_entry, by key *)
    bst,        \* entry->state
    ref,        \* entry->ref
    bits,       \* entry->ref_bit_map
    holder,     \* entry->holder
    inited,     \* entry->inited
    chain,      \* the users of the entry's task chain, source first
    (* the users *)
    where,      \* who has the buffer: the one reference that travels with it
    decRef,     \* references the decoder keeps for prediction
    di,         \* DI manager: "no", "ref" (counted), "kept" (counted, but not
                \* reported any more), "stale" (kept over a reset)
    passed,     \* post processor callback that passed its is_stream_off test
    off,        \* ctx->is_stream_off
    stop,       \* progress of STREAMOFF
    released,   \* buf_core_mgr_release ran
    intruded    \* ghost: a callback from before a STREAMOFF returned a buffer that
                \* is the application's again, or lent it to the DI manager

coreVars  == <<free_que, free_num, bst, ref, bits, holder, inited>>
entryVars == <<tbl, bm_state, core_ref, chain>>
userVars  == <<where, decRef, di, passed>>
ctlVars   == <<wq_on, work, off, stop, released, intruded>>
vars == <<coreVars, entryVars, userVars, ctlVars>>

-----------------------------------------------------------------------------
PostProcs == {"VPP", "GE2D"}

\* What a post processor's completion callback does with the buffer.
Calls  == [u : PostProcs, op : {"done", "fill"}]
NoCall == [u |-> NoType, op |-> "none"]

Where == {"none",     \* no vb2 buffer and no entry
          "parked",   \* vb2 buffer released, entry kept (UVM dmabuf)
          "app",      \* with the application
          "idle",     \* queued to the driver and held by no user
          "DEC", "VPP", "GE2D", "SINK",
          "lost"}     \* dropped by the sink because the stream is off

Stops == {"run", "off", "decreset", "vppreset", "flushed"}

TypeOK ==
    /\ tbl \subseteq Bufs
    /\ free_que \in Seq(Bufs)
    /\ free_num \in Int
    /\ bm_state \in {"INIT", "ACTIVE", "EXIT"}
    /\ core_ref \in Int
    /\ wq_on \in BOOLEAN
    /\ work \subseteq Bufs
    /\ bst \in [Bufs -> {"INIT", "FREE", "USE", "REF", "DONE", "ERR"}]
    /\ ref \in [Bufs -> Int]
    /\ bits \in [Bufs -> Int]
    /\ holder \in [Bufs -> {"DEC", "VPP", "GE2D", "SINK", "DI", "FREE"}]
    /\ inited \in [Bufs -> BOOLEAN]
    /\ chain \in [Bufs -> Seq(TaskTypes)]
    /\ where \in [Bufs -> Where]
    /\ decRef \in [Bufs -> 0..MaxDecRef]
    /\ di \in [Bufs -> {"no", "ref", "kept", "stale"}]
    /\ passed \in [Bufs -> Calls \cup {NoCall}]
    /\ off \in BOOLEAN
    /\ stop \in Stops
    /\ released \in BOOLEAN
    /\ intruded \in BOOLEAN

bc_sanity_check == bm_state = "ACTIVE"

-----------------------------------------------------------------------------
(* Holder bookkeeping: ref_bit_map is one word of 4-bit counters, and the  *)
(* code adds and subtracts the counters' units without looking at borrows. *)

Shift(u) == CASE u = "DEC" -> 1 [] u = "GE2D" -> 16 [] u = "VPP" -> 256
              [] u = "SINK" -> 4096 [] u = "DI" -> 65536

\* The counter of user u in the word w (w & u's mask, shifted down).
Count(w, u) == (w \div Shift(u)) % 16

\* The places of user u on the entry's task chain; Pos is meant for the users
\* that are on it.
Places(b, u) == {i \in 1..Len(chain[b]) : chain[b][i] = u}
Pos(b, u)    == CHOOSE i \in Places(b, u) : TRUE
IsLast(b, u) == Pos(b, u) = Len(chain[b])

\* bc->get_pre_user / bc->get_next_user (TaskChain!LinksFollowPipeline).
PreUser(b, u)  == IF Places(b, u) # {} /\ Pos(b, u) > 1
                  THEN chain[b][Pos(b, u) - 1] ELSE NoType
NextUser(b, u) == IF Places(b, u) # {} /\ Pos(b, u) < Len(chain[b])
                  THEN chain[b][Pos(b, u) + 1] ELSE NoType

\* Fault: the sink takes its unit and leaves the giver's in the word.
direction_buf_get_KeepGiver(r, u, pre) ==
    [w |-> r.w + Shift(u), h |-> IF u = "DI" THEN r.h ELSE u]

\* direction_buf_get on [w |-> ref_bit_map, h |-> holder] when `pre' is what
\* get_pre_user answers.
direction_buf_get(r, u, pre) ==
    CASE u = "DEC"  -> [w |-> r.w + Shift("DEC"), h |-> "DEC"]
      [] u = "VPP"  -> [w |-> r.w + Shift("VPP")
                              - (IF pre \in {"DEC", "GE2D"} THEN Shift(pre) ELSE 0),
                        h |-> "VPP"]
      [] u = "GE2D" -> [w |-> r.w + Shift("GE2D") - Shift("DEC"), h |-> "GE2D"]
      [] u = "SINK" -> [w |-> r.w + Shift("SINK")
                              - (IF pre \in {"VPP", "DEC", "GE2D"} THEN Shift(pre) ELSE 0),
                        h |-> "SINK"]
      [] u = "DI"   -> [r EXCEPT !.w = @ + Shift("DI")]

direction_buf_put(r, u) ==
    LET w    == IF u = "DEC" /\ Count(r.w, "DEC") = 0 THEN r.w ELSE r.w - Shift(u)
        Has(v) == Count(w, v) # 0
    IN  [w |-> w,
         h |-> CASE u = "DEC"  -> IF Has("SINK") THEN "SINK"
                                  ELSE IF Has("VPP") THEN "VPP"
                                  ELSE IF Has("GE2D") THEN "GE2D" ELSE r.h
                 [] u = "VPP"  -> IF Has("VPP") THEN "VPP"
                                  ELSE IF Has("DEC") THEN "DEC"
                                  ELSE IF Has("GE2D") THEN "GE2D" ELSE r.h
                 [] u = "GE2D" -> IF Has("GE2D") THEN "GE2D" ELSE "DEC"
                 [] u = "SINK" -> IF Has("SINK") THEN "SINK"
                                  ELSE IF Has("DI") THEN "DI"
                                  ELSE IF Has("DEC") THEN "DEC" ELSE r.h
                 [] u = "DI"   -> r.h]

Book(b) == [w |-> bits[b], h |-> holder[b]]

SetBook(b, r) ==
    /\ bits' = [bits EXCEPT ![b] = r.w]
    /\ holder' = [holder EXCEPT ![b] = r.h]

-----------------------------------------------------------------------------
(* The core's internal steps *)

\* list_add_valid refuses only an entry that is already the last of the queue.
list_add_valid(b) == free_que = <<>> \/ free_que[Len(free_que)] # b

\* Fault: the entry is added at the head of the queue.
buf_core_free_que_AtHead(b) ==
    /\ bst' = [bst EXCEPT ![b] = "FREE"]
    /\ SetBook(b, [w |-> 0, h |-> "FREE"])
    /\ inited' = [inited EXCEPT ![b] = TRUE]
    /\ IF list_add_valid(b)
       THEN /\ free_que' = <<b>> \o free_que
            /\ free_num' = free_num + 1
       ELSE UNCHANGED <<free_que, free_num>>

buf_core_free_que(b) ==
    /\ bst' = [bst EXCEPT ![b] = "FREE"]
    /\ SetBook(b, [w |-> 0, h |-> "FREE"])
    /\ inited' = [inited EXCEPT ![b] = TRUE]
    /\ IF list_add_valid(b)
       THEN /\ free_que' = Append(free_que, b)
            /\ free_num' = free_num + 1
       ELSE UNCHANGED <<free_que, free_num>>

\* The common tail of put_ref, fill and vpp_cb: the last reference sends the
\* entry to the free queue, any other leaves it referenced.
DropRef(b, u) ==
    /\ ref' = [ref EXCEPT ![b] = @ - 1]
    /\ IF ref[b] - 1 = 0
       THEN buf_core_free_que(b)
       ELSE /\ bst' = [bst EXCEPT ![b] = "REF"]
            /\ SetBook(b, direction_buf_put(Book(b), u))
            /\ UNCHANGED <<free_que, free_num, inited>>

\* The users' view after a step of `from' that gives the buffer up or passes
\* it on.  Once STREAMOFF has handed the buffers back to the application a
\* callback that is still running no longer owns what it touches.
Move(b, from, to) ==
    where' = IF where[b] = from THEN [where EXCEPT ![b] = to] ELSE where

-----------------------------------------------------------------------------
(* Operations of the users *)

\* buf_core_get by `u' (aml_buf_get), with aml_buf_prepare redrawing the
\* chain; the decoder attaches itself to it as soon as the call returns.
buf_core_get(u) ==
    /\ bc_sanity_check
    /\ free_que # <<>>
    /\ LET b == free_que[1]
       IN  /\ free_que' = Tail(free_que)
           /\ free_num' = free_num - 1
           /\ bst' = [bst EXCEPT ![b] = "USE"]
           /\ ref' = [ref EXCEPT ![b] = @ + 1]
           /\ chain' = [chain EXCEPT ![b] = Route(Ctx, u)]
           /\ SetBook(b, direction_buf_get(Book(b), u, NoType))
           /\ Move(b, "idle", u)
    /\ UNCHANGED <<inited, tbl, bm_state, core_ref, decRef, di, passed, ctlVars>>

\* The decoder runs until aml_vdec_reset has stopped it.
DecRuns == ~off \/ stop = "off"

\* aml_buf_get of each requester.  The post processors' threads run on until
\* the next STREAMON rebuilds them.
DecGet == DecRuns /\ buf_core_get("DEC")
PPGet  == \E u \in Requesters(Ctx) \ {"DEC"} : buf_core_get(u)

\* aml_buf_get_ref: the picture being decoded enters the reference set.
buf_core_get_ref(b) ==
    /\ DecRuns /\ bc_sanity_check
    /\ where[b] = "DEC" /\ decRef[b] < MaxDecRef
    /\ bst' = [bst EXCEPT ![b] = "REF"]
    /\ ref' = [ref EXCEPT ![b] = @ + 1]
    /\ SetBook(b, direction_buf_get(Book(b), "DEC", NoType))
    /\ decRef' = [decRef EXCEPT ![b] = @ + 1]
    /\ UNCHANGED <<free_que, free_num, inited, entryVars, where, di, passed, ctlVars>>

buf_core_put_ref(b) ==
    IF ref[b] = 0 /\ ~bc_sanity_check
    THEN UNCHANGED coreVars
    ELSE DropRef(b, "DEC")

\* aml_buf_put_ref: the picture leaves the decoder's reference set.
PutRef(b) ==
    /\ DecRuns
    /\ decRef[b] > 0
    /\ decRef' = [decRef EXCEPT ![b] = @ - 1]
    /\ buf_core_put_ref(b)
    /\ UNCHANGED <<entryVars, where, di, passed, ctlVars>>

\* aml_buf_put_ref on a picture that will not be shown (decode error, drop).
DropPic(b) ==
    /\ DecRuns
    /\ where[b] = "DEC"
    /\ where' = [where EXCEPT ![b] = "idle"]
    /\ buf_core_put_ref(b)
    /\ UNCHANGED <<entryVars, decRef, di, passed, ctlVars>>

\* buf_core_done by `u' -> task->submit -> fill_buffer of the next item.  The
\* sink (fill_capture_done_cb) ignores the buffer when the stream is off.
\* `dq' says whether the DI manager takes a reference (vpp_dque returns 0).
buf_core_done(b, u, dq) ==
    IF ~bc_sanity_check \/ bst[b] \notin {"USE", "REF", "DONE"}
    THEN UNCHANGED <<coreVars, where, di>>
    ELSE LET next  == NextUser(b, u)
             toDi  == DiPost /\ next = "SINK" /\ dq
             book1 == IF toDi THEN direction_buf_get(Book(b), "DI", NoType) ELSE Book(b)
             lost  == next = "SINK" /\ off
         IN  /\ bst' = [bst EXCEPT ![b] = "DONE"]
             /\ ref' = IF toDi THEN [ref EXCEPT ![b] = @ + 1] ELSE ref
             /\ di'  = IF toDi THEN [di EXCEPT ![b] = "ref"] ELSE di
             /\ SetBook(b, IF lost THEN book1
                           ELSE direction_buf_get(book1, next, PreUser(b, next)))
             /\ Move(b, u, IF lost THEN "lost" ELSE next)
             /\ UNCHANGED <<free_que, free_num, inited>>

DecDone(b) ==
    /\ DecRuns
    /\ where[b] = "DEC"
    /\ \E dq \in BOOLEAN : buf_core_done(b, "DEC", dq)
    /\ UNCHANGED <<entryVars, decRef, passed, ctlVars>>

\* buf_core_fill by `u'.  In DI post mode a buffer the DI manager kept over a
\* reset (vpp_que returns 0 and the entry never reached the free queue since)
\* is not taken back here: DI's callback will do it.
buf_core_fill(b, u) ==
    IF ~bc_sanity_check
    THEN UNCHANGED <<coreVars, di>>
    ELSE IF DiPost /\ u = "SINK" /\ di[b] # "no" /\ ~inited[b]
    THEN /\ di' = [di EXCEPT ![b] = "ref"]
         /\ UNCHANGED coreVars
    ELSE IF bst[b] \notin {"INIT", "DONE", "REF"}
    THEN UNCHANGED <<coreVars, di>>
    ELSE DropRef(b, u) /\ UNCHANGED di

\* VIDIOC_QBUF -> vb2ops_vdec_buf_queue.
BufQueue(b) ==
    /\ ~off
    /\ where[b] = "app"
    /\ where' = [where EXCEPT ![b] = "idle"]
    /\ buf_core_fill(b, "SINK")
    /\ UNCHANGED <<entryVars, decRef, passed, ctlVars>>

\* A post processor's completion callback tests is_stream_off ...
PPCheck(b) ==
    /\ ~off
    /\ where[b] \in PostProcs
    /\ passed[b] = NoCall
    /\ passed' = [passed EXCEPT ![b] =
                    [u |-> where[b], op |-> IF IsLast(b, where[b]) THEN "fill" ELSE "done"]]
    /\ UNCHANGED <<coreVars, entryVars, where, decRef, di, ctlVars>>

\* ... and then forwards the buffer (aml_buf_done) or, where its own output
\* goes to another buffer, gives it back (aml_buf_fill).
PPAct(b) ==
    /\ passed[b] # NoCall
    /\ LET u == passed[b].u
       IN  IF passed[b].op = "fill"
           THEN buf_core_fill(b, u) /\ Move(b, u, "idle")
           ELSE \E dq \in BOOLEAN : buf_core_done(b, u, dq)
    /\ passed' = [passed EXCEPT ![b] = NoCall]
    /\ intruded' = (intruded \/ (passed[b].op = "fill" /\ where[b] # passed[b].u)
                             \/ (di' # di /\ stop \in {"vppreset", "flushed"}))
    /\ UNCHANGED <<entryVars, decRef, wq_on, work, off, stop, released>>

\* aml_thread_capture_worker: a buffer the sink queued goes to the application
\* (post_frame_to_upper), or is skipped when the stream is off.
Post(b) ==
    /\ where[b] = "SINK"
    /\ stop \in {"run", "off"}
    /\ where' = [where EXCEPT ![b] = IF off THEN "lost" ELSE "app"]
    /\ UNCHANGED <<coreVars, entryVars, decRef, di, passed, ctlVars>>

\* The DI manager is done with the buffer: aml_buf_vpp_callback queues the
\* recycle work if the work queue is enabled.
DiRelease(b) ==
    /\ di[b] = "ref"
    /\ di' = [di EXCEPT ![b] = "no"]
    /\ work' = IF b \in tbl /\ wq_on THEN work \cup {b} ELSE work
    /\ UNCHANGED <<coreVars, entryVars, where, decRef, passed, wq_on, off, stop, released, intruded>>

\* Fault: pending work waits for the flush of STREAMOFF.
RecycleWork_AtFlush(b) ==
    /\ b \in work
    /\ stop = "vppreset"
    /\ work' = work \ {b}
    /\ DropRef(b, "DI")
    /\ UNCHANGED <<entryVars, where, decRef, di, passed, wq_on, off, stop, released, intruded>>

\* aml_buf_ref_recycle_worker -> buf_core_vpp_cb.
RecycleWork(b) ==
    /\ b \in work
    /\ work' = work \ {b}
    /\ DropRef(b, "DI")
    /\ UNCHANGED <<entryVars, where, decRef, di, passed, wq_on, off, stop, released, intruded>>

-----------------------------------------------------------------------------
(* STREAMON, STREAMOFF and the life of the entries.  The vb2 queue lock    *)
(* keeps these ioctls from overlapping each other and QBUF.                *)

\* Fault: the post processors, and with them their callbacks, live on.
StreamOn_NoRebuild ==
    /\ off /\ stop = "run" /\ ~released
    /\ off' = FALSE
    /\ wq_on' = TRUE
    /\ UNCHANGED <<coreVars, entryVars, userVars, work, stop, released, intruded>>

\* vidioc_decoder_streamon: the post processors are rebuilt, then the flags.
StreamOn ==
    /\ off /\ stop = "run" /\ ~released
    /\ off' = FALSE
    /\ wq_on' = TRUE
    /\ passed' = [b \in Bufs |-> NoCall]
    /\ UNCHANGED <<coreVars, entryVars, where, decRef, di, work, stop, released, intruded>>

StopStep(from, to) == stop = from /\ stop' = to

\* vidioc_decoder_streamoff
StopBegin ==
    /\ ~off
    /\ off' = TRUE
    /\ StopStep("run", "off")
    /\ UNCHANGED <<coreVars, entryVars, userVars, wq_on, work, released, intruded>>

\* vb2ops_vdec_stop_streaming up to the core's reset: aml_vdec_reset stops the
\* decoder, whatever references it has not put yet, and the capture fifo is
\* emptied.  The vb2 buffers are given back as well, but the application
\* cannot act on them before the ioctl ends: `where' changes with the reset.
VdecReset ==
    /\ StopStep("off", "decreset")
    /\ UNCHANGED <<coreVars, entryVars, userVars, wq_on, work, off, released, intruded>>

\* buf_core_reset: bc->vpp_reset.  The DI manager keeps the buffers it still
\* reads and reports them only after they have been queued to it again.
VppReset ==
    /\ StopStep("decreset", "vppreset")
    /\ di' = [b \in Bufs |-> IF di[b] = "ref" THEN "kept" ELSE di[b]]
    /\ UNCHANGED <<coreVars, entryVars, where, decRef, passed, wq_on, work, off, released, intruded>>

\* buf_core_reset: flush_workqueue returns when no work is pending.
FlushWork ==
    /\ StopStep("vppreset", "flushed")
    /\ work = {}
    /\ wq_on' = FALSE
    /\ UNCHANGED <<coreVars, entryVars, userVars, work, off, released, intruded>>

\* After STREAMOFF every buffer that has not been released is the
\* application's, the decoder's references are forgotten, and DI's are no
\* longer counted.
StoppedUsers ==
    /\ where' = [b \in Bufs |-> IF where[b] \in {"none", "parked"}
                                THEN where[b] ELSE "app"]
    /\ decRef' = [b \in Bufs |-> 0]
    /\ di' = [b \in Bufs |-> IF di[b] = "kept" THEN "stale" ELSE di[b]]
    /\ UNCHANGED passed

\* Fault: the counts are not set back to the application's one reference.
buf_core_reset_KeepRef ==
    /\ StopStep("flushed", "run")
    /\ free_que' = <<>>
    /\ free_num' = 0
    /\ bst' = [b \in Bufs |-> IF b \in tbl THEN "INIT" ELSE bst[b]]
    /\ inited' = [b \in Bufs |-> IF b \in tbl THEN FALSE ELSE inited[b]]
    /\ StoppedUsers
    /\ UNCHANGED <<ref, bits, holder, entryVars, wq_on, work, off, released, intruded>>

\* Fault: the entries stay linked in the free queue.
buf_core_reset_KeepQueue ==
    /\ StopStep("flushed", "run")
    /\ bst' = [b \in Bufs |-> IF b \in tbl THEN "INIT" ELSE bst[b]]
    /\ inited' = [b \in Bufs |-> IF b \in tbl THEN FALSE ELSE inited[b]]
    /\ ref' = [b \in Bufs |-> IF b \in tbl THEN 1 ELSE ref[b]]
    /\ StoppedUsers
    /\ UNCHANGED <<free_que, free_num, bits, holder, entryVars, wq_on, work,
                   off, released, intruded>>

\* buf_core_reset: the part under bc->mutex, and the end of STREAMOFF.
\* ref_bit_map and holder keep their values until the entry goes through the
\* free queue.
buf_core_reset ==
    /\ StopStep("flushed", "run")
    /\ free_que' = <<>>
    /\ free_num' = 0
    /\ bst' = [b \in Bufs |-> IF b \in tbl THEN "INIT" ELSE bst[b]]
    /\ inited' = [b \in Bufs |-> IF b \in tbl THEN FALSE ELSE inited[b]]
    /\ ref' = [b \in Bufs |-> IF b \in tbl THEN 1 ELSE ref[b]]
    /\ StoppedUsers
    /\ UNCHANGED <<bits, holder, entryVars, wq_on, work, off, released, intruded>>

\* vb2ops_vdec_buf_init -> buf_core_attach of a new key.
AttachNew(b) ==
    /\ stop = "run" /\ ~released
    /\ b \notin tbl
    /\ tbl' = tbl \cup {b}
    /\ bst' = [bst EXCEPT ![b] = "INIT"]
    /\ ref' = [ref EXCEPT ![b] = 1]
    /\ bits' = [bits EXCEPT ![b] = 0]
    /\ holder' = [holder EXCEPT ![b] = "DEC"]
    /\ inited' = [inited EXCEPT ![b] = FALSE]
    /\ chain' = [chain EXCEPT ![b] = <<>>]
    /\ bm_state' = "ACTIVE"
    /\ core_ref' = core_ref + 1
    /\ where' = [where EXCEPT ![b] = "app"]
    /\ UNCHANGED <<free_que, free_num, decRef, di, passed, ctlVars>>

\* buf_core_attach of a key that is still in the table: only the state is set.
AttachReuse(b) ==
    /\ stop = "run" /\ ~released
    /\ where[b] = "parked"
    /\ bst' = [bst EXCEPT ![b] = "INIT"]
    /\ where' = [where EXCEPT ![b] = "app"]
    /\ UNCHANGED <<free_que, free_num, ref, bits, holder, inited, entryVars,
                   decRef, di, passed, ctlVars>>

\* vb2ops_vdec_buf_cleanup of a UVM dmabuf: the entry stays in the table.
Cleanup(b) ==
    /\ stop = "run"
    /\ where[b] = "app"
    /\ where' = [where EXCEPT ![b] = "parked"]
    /\ UNCHANGED <<coreVars, entryVars, decRef, di, passed, ctlVars>>

\* Fault: the entry's reference on the manager is not dropped.
PutCore_Leak ==
    UNCHANGED <<core_ref, free_que, free_num, bm_state>>

\* kref_put(&bc->core_ref, buf_core_destroy)
PutCore ==
    /\ core_ref' = core_ref - 1
    /\ IF core_ref - 1 = 0
       THEN free_que' = <<>> /\ free_num' = 0 /\ bm_state' = "EXIT"
       ELSE UNCHANGED <<free_que, free_num, bm_state>>

\* buf_core_detach, when the stream is off: from vb2ops_vdec_buf_cleanup, or
\* when the last user of a UVM dmabuf lets go of it (aml_uvm_buf_free).
buf_core_detach(b) ==
    /\ off /\ stop = "run"
    /\ b \in tbl
    /\ tbl' = tbl \ {b}
    /\ bst' = [bst EXCEPT ![b] = "ERR"]
    /\ PutCore
    /\ where' = [where EXCEPT ![b] = "none"]
    /\ UNCHANGED <<ref, bits, holder, inited, chain, decRef, di, passed, ctlVars>>

\* buf_core_mgr_release
MgrRelease ==
    /\ off /\ stop = "run" /\ ~released
    /\ work = {}
    /\ released' = TRUE
    /\ wq_on' = FALSE
    /\ PutCore
    /\ UNCHANGED <<bst, ref, bits, holder, inited, tbl, chain, userVars, work, off, stop, intruded>>

-----------------------------------------------------------------------------
\* buf_core_mgr_init on zeroed memory; the stream has not been started.
Init ==
    /\ tbl = {} /\ free_que = <<>> /\ free_num = 0
    /\ bm_state = "INIT" /\ core_ref = 1
    /\ wq_on = FALSE /\ work = {}
    /\ bst = [b \in Bufs |-> "INIT"]
    /\ ref = [b \in Bufs |-> 0]
    /\ bits = [b \in Bufs |-> 0]
    /\ holder = [b \in Bufs |-> "DEC"]
    /\ inited = [b \in Bufs |-> FALSE]
    /\ chain = [b \in Bufs |-> <<>>]
    /\ where = [b \in Bufs |-> "none"]
    /\ decRef = [b \in Bufs |-> 0]
    /\ di = [b \in Bufs |-> "no"]
    /\ passed = [b \in Bufs |-> NoCall]
    /\ off = TRUE /\ stop = "run" /\ released = FALSE /\ intruded = FALSE

\* After an intrusion two users believe that they own one buffer; `where' can
\* name one only, so the model ends there.
Next ==
    /\ ~intruded
    /\ \/ DecGet
       \/ PPGet
       \/ \E b \in Bufs :
            \/ buf_core_get_ref(b)
            \/ PutRef(b)
            \/ DropPic(b)
            \/ DecDone(b)
            \/ BufQueue(b)
            \/ PPCheck(b)
            \/ PPAct(b)
            \/ Post(b)
            \/ DiRelease(b)
            \/ RecycleWork(b)
            \/ AttachNew(b)
            \/ AttachReuse(b)
            \/ Cleanup(b)
            \/ buf_core_detach(b)
       \/ StreamOn
       \/ StopBegin
       \/ VdecReset
       \/ VppReset
       \/ FlushWork
       \/ buf_core_reset
       \/ MgrRelease

Spec == Init /\ [][Next]_vars

\* The kernel runs queued work, and the DI manager gives back what it read.
FairSpec ==
    Spec /\ \A b \in Bufs : WF_vars(RecycleWork(b)) /\ WF_vars(DiRelease(b))

-----------------------------------------------------------------------------
B2N(x) == IF x THEN 1 ELSE 0

\* The references that exist: the one that travels with the buffer, the
\* decoder's, and the DI manager's until its recycle work has run.
Claims(b) ==
    B2N(where[b] \notin {"none", "idle"}) + decRef[b]
        + B2N(di[b] \in {"ref", "kept"}) + B2N(b \in work)

\* entry->ref counts exactly the users that hold the buffer: no user can be
\* robbed of it by another's put, and none is forgotten.  The one way to break
\* it is a post processor callback that slept through a whole STREAMOFF
\* between its is_stream_off test and its aml_buf_fill (see FreeIsIdle).
RefExact ==
    ~intruded => \A b \in tbl : ref[b] = Claims(b)

\* The free queue holds each FREE entry of the table once and nothing else,
\* and free_num (what aml_buf_ready_num tells the decoder) is its length.
FreeQueExact ==
    ~intruded =>
        /\ free_num = Len(free_que)
        /\ \A i, j \in DOMAIN free_que : free_que[i] = free_que[j] => i = j
        /\ Range(free_que) = {b \in tbl : bst[b] = "FREE"}

\* aml_buf_core.h: BUF_STATE_FREE is "The idle state of the buffer that can be
\* used".  A buffer that can be taken is held by nobody: not shown by the
\* application, not read by the decoder or DI, not in a post processor.
FreeIsIdle ==
    \A b \in Range(free_que) : Claims(b) = 0

\* The 4-bit counters tell who holds the buffer once it has been through the
\* free queue: get_pre_user moved exactly the giver's unit at every hand-over.
BitsTellHolders ==
    \A b \in tbl : (~intruded /\ bst[b] # "INIT" /\ where[b] # "lost") =>
        /\ Count(bits[b], "DEC")  = decRef[b] + B2N(where[b] = "DEC")
        /\ Count(bits[b], "VPP")  = B2N(where[b] = "VPP")
        /\ Count(bits[b], "GE2D") = B2N(where[b] = "GE2D")
        /\ Count(bits[b], "SINK") = B2N(where[b] \in {"SINK", "app", "parked"})
        /\ Count(bits[b], "DI")   = B2N(di[b] \in {"ref", "kept"}) + B2N(b \in work)

\* A buffer that was queued again and that the decoder no longer references
\* comes back to the free queue: DI's callback, the work queue and QBUF may
\* run in any order, before and after STREAMOFF, without losing it.
Recycles ==
    \A b \in Bufs :
        (where[b] = "idle" /\ decRef[b] = 0) ~> (b \in Range(free_que) \/ off \/ intruded)

\* The manager is destroyed by the last of its own reference and one per
\* entry: never while an entry is left.
CoreRefExact ==
    /\ core_ref = Cardinality(tbl) + B2N(~released)
    /\ (bm_state = "EXIT") <=> (released /\ tbl = {})
=============================================================================
