----------------------------- MODULE VdecInput ------------------------------
(***************************************************************************)
(* The frame input of a decoder instance                                   *)
(* (frame_provider/decoder/utils/vdec_input.c): one writer copies frames   *)
(* into blocks and appends a chunk per frame, the decoder consumes the     *)
(* first chunk, and the decoder's work and the scheduler thread release    *)
(* consumed chunks and recycle their blocks.                               *)
(*                                                                         *)
(* Sections under input->lock are single actions; the code between them is *)
(* where the threads meet.  Modes: "copy" (frames are copied into blocks   *)
(* of the driver), "dma" (each frame is a buffer of its own, given back by *)
(* a callback) and "secure" (given back by vdec_input_get_freed_handle).   *)
(* Only VDEC_TYPE_FRAME_BLOCK is modelled: no caller asks for              *)
(* VDEC_TYPE_FRAME_CIRCULAR.  Block read pointers are left out, they are   *)
(* read in circular mode only.                                             *)
(***************************************************************************)
EXTENDS Integers, FiniteSetsExt, Functions, Lists

CONSTANTS
    Blocks, Chunks,     \* addresses kzalloc may return
    Handles,            \* buffers of the application ("dma", "secure")
    Null,               \* the null pointer
    Modes,              \* the modes of an instance to consider
    Releasers,          \* threads that release consumed chunks
    FrameSizes,         \* frame sizes, without padding
    Pad,                \* need_padding_size
    Extra,              \* EXTRA_PADDING_SIZE
    BlockSize,          \* VFRAME_BLOCK_SIZE
    BlockSizeMax,       \* VFRAME_BLOCK_SIZE_MAX
    Prepared,           \* blocks vdec_input_prepare_bufs allocates
    MinLevel, MaxLevel, \* VFRAME_BLOCK_MIN_LEVEL, VFRAME_BLOCK_MAX_LEVEL
    ManyFrames,         \* 30 in vdec_input_have_blocks_enough
    MaxTotal,           \* VFRAME_BLOCK_MAX_TOTAL_SIZE
    MaxFails,           \* bound on the block allocations that fail
    FirstMayFail,       \* may it be the first one of vdec_input_prepare_bufs?
    ReuseHeld           \* may kzalloc return a chunk a releaser still points to?

ASSUME AddressAssumption == IsFiniteSet(Blocks) /\ Null \notin Blocks \cup Chunks \cup Handles
ASSUME ModeAssumption == Modes \subseteq {"copy", "dma", "secure"}
ASSUME SizeAssumption ==
    /\ FrameSizes \subseteq Nat \ {0} /\ Pad \in Nat \ {0} /\ Extra \in Nat \ {0}
    /\ BlockSize \in Nat \ {0} /\ BlockSizeMax \in Nat /\ Prepared \in Nat \ {0}
    /\ {MinLevel, MaxLevel, ManyFrames, MaxTotal} \subseteq Nat
    /\ MaxFails \in Nat /\ FirstMayFail \in BOOLEAN /\ ReuseHeld \in BOOLEAN

VARIABLES
    blk,        \* struct vframe_block_list_s, by address
    chk,        \* struct vframe_chunk_s, by address
    mode,       \* how this instance gets its frames
    (* struct vdec_input_s *)
    block_list, \* vframe_block_list (its order is never used)
    free_list,  \* vframe_block_free_list
    chunk_list, \* vframe_chunk_list
    wr_block, input_size, block_nums, have_frame_num, default_block_size, no_mem_err_cnt,
    (* the threads *)
    w,          \* the writer in vdec_input_add_chunk: pc, frame size, block
    dec,        \* the chunk the decoder reads, or Null
    r,          \* the releasers: pc, chunk, block, kfree the block
    fails,      \* failed allocations so far
    unread      \* ghost: some chunk was released before the decoder consumed it

inputVars == <<block_list, free_list, chunk_list, wr_block, input_size, block_nums,
               have_frame_num, default_block_size, no_mem_err_cnt>>
threadVars == <<w, dec, r, fails, unread>>
vars == <<blk, chk, mode, inputVars, threadVars>>

\* kfree'd memory.
NoBlock == [size |-> 0, wp |-> 0, count |-> 0, handle |-> Null]
NoChunk == [block |-> Null, off |-> 0, size |-> 0, consumed |-> FALSE]

alive == {b \in Blocks : blk[b] # NoBlock}

NoRel == [pc |-> "idle", c |-> Null, b |-> Null, kfree |-> FALSE]

WriterPcs == {"idle", "recycle", "getfree", "alloc", "fill"}

TypeOK ==
    /\ blk \in [Blocks -> [size : Nat, wp : Nat, count : Nat, handle : Handles \cup {Null}]]
    /\ chk \in [Chunks -> [block : Blocks \cup {Null}, off : Nat, size : Nat, consumed : BOOLEAN]]
    /\ mode \in Modes
    /\ block_list \subseteq Blocks
    /\ free_list \in Seq(Blocks) /\ chunk_list \in Seq(Chunks)
    /\ wr_block \in Blocks \cup {Null}
    /\ input_size \in Nat /\ block_nums \in Nat /\ have_frame_num \in Nat
    /\ default_block_size \in Nat /\ no_mem_err_cnt \in Nat
    /\ w \in [pc : WriterPcs, n : FrameSizes \cup {0}, b : Blocks \cup {Null}]
    /\ dec \in Chunks \cup {Null}
    /\ r \in [Releasers -> [pc : {"idle", "has", "rel", "tail"}, c : Chunks \cup {Null},
                            b : Blocks \cup {Null}, kfree : BOOLEAN]]
    /\ fails \in 0..MaxFails
    /\ unread \in BOOLEAN

-----------------------------------------------------------------------------
(* The blocks *)

vframe_block_space(b) == blk[b].size - blk[b].wp

\* total_wr_count - total_rd_count: what is written and not released yet.
vdec_input_level == SumFunction([i \in DOMAIN chunk_list |-> chk[chunk_list[i]].size])

\* Fault: blocks leave the lists but not the accounts.
vdec_input_del_block_locked_Leak(b) ==
    /\ block_nums' = block_nums - 1
    /\ UNCHANGED input_size

\* The accounts of a block that leaves both lists.
vdec_input_del_block_locked(b) ==
    /\ input_size' = input_size - blk[b].size
    /\ block_nums' = block_nums - 1

\* vdec_input_alloc_new_block at address b: the new block is the last of the
\* list and the one to write.
vdec_input_alloc_new_block(b, size, h) ==
    /\ b \in Blocks \ alive
    /\ blk' = [blk EXCEPT ![b] = [size |-> size, wp |-> 0, count |-> 0, handle |-> h]]
    /\ block_list' = block_list \cup {b}
    /\ input_size' = input_size + size
    /\ block_nums' = block_nums + 1
    /\ wr_block' = b

\* vdec_input_have_blocks_enough; `long' says that more than
\* MAX_FRAME_DURATION_S lies between the last time stamps in and out.
vdec_input_have_blocks_enough(long) ==
    (IF vdec_input_level > MinLevel THEN 1 ELSE 0)
        + (IF vdec_input_level >= MaxLevel THEN 2 ELSE 0)
        + (IF long THEN 4 ELSE 0)
        + (IF have_frame_num > ManyFrames THEN 8 ELSE -8)
        + (IF input_size >= MaxTotal THEN 100 ELSE 0)

\* The default size after a frame of `size' bytes was met: doubled until two
\* frames fit or the maximum is passed.  With d <= 2 * size that is at most
\* 4 * size.
Doubled(d, size) ==
    LET Ends(x) == x > 2 * size \/ x > BlockSizeMax
    IN  Min({x \in 1 .. 4 * size : Ends(x) /\ \E k \in 1..size : x = d * 2^k} \cup {4 * size})

GrownSize(size) ==
    IF default_block_size > size * 2 THEN default_block_size
    ELSE IF Doubled(default_block_size, size) < size
         THEN size + 1     \* ALIGN(size + 64, 128K)
         ELSE Doubled(default_block_size, size)

-----------------------------------------------------------------------------
(* The writer: vdec_input_add_chunk.  A frame that got -EAGAIN is offered  *)
(* again by the caller (w.n stays).                                        *)

Offer(n) ==
    /\ w.pc = "idle"
    /\ IF w.n = 0 THEN n \in FrameSizes ELSE n = w.n

\* Up to the first lock: does the frame fit into the block being written?
\* wr_block and its wp change in this thread only.
AddChunk(n) ==
    /\ mode = "copy"
    /\ Offer(n)
    /\ w' = [w EXCEPT !.n = n, !.b = wr_block,
                      !.pc = IF wr_block = Null THEN "getfree"
                             ELSE IF vframe_block_space(wr_block) > n + Pad THEN "fill"
                             ELSE "recycle"]
    /\ UNCHANGED <<blk, chk, inputVars, dec, r, fails, unread, mode>>

\* Fault: a full block that holds no frame any more stays the block to write.
Recycle_Never ==
    /\ w.pc = "recycle"
    /\ w' = [w EXCEPT !.pc = "getfree", !.b = Null]
    /\ UNCHANGED <<blk, chk, inputVars, dec, r, fails, unread, mode>>

\* "have block but not enough space. recycle the no enough blocks."
Recycle ==
    /\ w.pc = "recycle"
    /\ IF wr_block = w.b /\ blk[w.b].count = 0
       THEN /\ blk' = [blk EXCEPT ![w.b].wp = 0]
            /\ block_list' = block_list \ {w.b}
            /\ free_list' = Append(free_list, w.b)
            /\ wr_block' = Null
       ELSE UNCHANGED <<blk, block_list, free_list, wr_block>>
    /\ w' = [w EXCEPT !.pc = "getfree", !.b = Null]
    /\ UNCHANGED <<chk, chunk_list, input_size, block_nums,
                   have_frame_num, default_block_size, no_mem_err_cnt,
                   dec, r, fails, unread, mode>>

\* The space a frame needs in a block it is the first of.
Need(n) == n + Pad + Extra

\* vdec_input_get_free_block, first half: the first free block if it is large
\* enough; one that is too small is freed.
vdec_input_get_free_block ==
    /\ w.pc = "getfree"
    /\ \/ /\ free_list # <<>> /\ blk[free_list[1]].size >= Need(w.n)
          /\ block_list' = block_list \cup {free_list[1]}
          /\ free_list' = Tail(free_list)
          /\ wr_block' = free_list[1]
          /\ w' = [w EXCEPT !.pc = "fill", !.b = free_list[1]]
          /\ UNCHANGED <<blk, input_size, block_nums>>
       \/ /\ free_list # <<>> /\ blk[free_list[1]].size < Need(w.n)
          /\ vdec_input_del_block_locked(free_list[1])
          /\ blk' = [blk EXCEPT ![free_list[1]] = NoBlock]
          /\ free_list' = Tail(free_list)
          /\ w' = [w EXCEPT !.pc = "alloc"]
          /\ UNCHANGED <<block_list, wr_block>>
       \/ /\ free_list = <<>>
          /\ w' = [w EXCEPT !.pc = "alloc"]
          /\ UNCHANGED <<blk, block_list, free_list, wr_block, input_size, block_nums>>
    /\ UNCHANGED <<chk, chunk_list, have_frame_num,
                   default_block_size, no_mem_err_cnt, dec, r, fails, unread, mode>>

\* Second half: no free block, allocate one unless there are enough.
AllocRefused(long) ==
    /\ w.pc = "alloc"
    /\ vdec_input_have_blocks_enough(long) > 13 \/ no_mem_err_cnt > 3
    /\ w' = [w EXCEPT !.pc = "idle"]
    /\ UNCHANGED <<blk, chk, inputVars, dec, r, fails, unread, mode>>

MayAlloc(long) ==
    /\ w.pc = "alloc"
    /\ vdec_input_have_blocks_enough(long) <= 13
    /\ no_mem_err_cnt <= 3
    /\ default_block_size' = GrownSize(Need(w.n))

AllocBlock(long) ==
    /\ MayAlloc(long)
    /\ \E b \in Blocks : /\ vdec_input_alloc_new_block(b, default_block_size', Null)
                         /\ w' = [w EXCEPT !.pc = "fill", !.b = b]
    /\ no_mem_err_cnt' = 0
    /\ UNCHANGED <<chk, free_list, chunk_list, have_frame_num, dec, r, fails, unread, mode>>

\* The contiguous memory is short.
AllocFails(long) ==
    /\ MayAlloc(long)
    /\ fails < MaxFails
    /\ fails' = fails + 1
    /\ no_mem_err_cnt' = no_mem_err_cnt + 1
    /\ w' = [w EXCEPT !.pc = "idle"]
    /\ UNCHANGED <<blk, chk, block_list, free_list, chunk_list, wr_block, input_size,
                   block_nums, have_frame_num, dec, r, unread, mode>>

\* In "dma" and "secure" mode every frame brings its own block.
AddDmaChunk(n, h) ==
    /\ mode # "copy"
    /\ w.pc = "idle" /\ n \in FrameSizes
    /\ h \notin {blk[b].handle : b \in alive}
    /\ \E b \in Blocks : /\ vdec_input_alloc_new_block(b, Need(n), h)
                         /\ w' = [pc |-> "fill", n |-> n, b |-> b]
    /\ UNCHANGED <<chk, free_list, chunk_list, have_frame_num, default_block_size,
                   no_mem_err_cnt, dec, r, fails, unread, mode>>

\* Fault: the write pointer is moved by the frame without its padding.
vframe_block_add_chunk_NoPad(b) ==
    [blk EXCEPT ![b].wp = @ + w.n, ![b].count = @ + 1]

\* vframe_block_add_chunk on the writer's block
vframe_block_add_chunk(b) ==
    LET wp == blk[b].wp + w.n + Pad
    IN  [blk EXCEPT ![b].wp = IF wp >= blk[b].size THEN wp - blk[b].size ELSE wp,
                    ![b].count = @ + 1]

\* The frame is copied (vframe_chunk_fill) while w.pc = "fill"; then the chunk
\* is appended.
FillDone ==
    /\ w.pc = "fill"
    /\ \E c \in Chunks :
          /\ chk[c] = NoChunk
          /\ ReuseHeld \/ \A t \in Releasers : r[t].c # c
          /\ chk' = [chk EXCEPT ![c] = [block |-> w.b, off |-> blk[w.b].wp, size |-> w.n,
                                        consumed |-> FALSE]]
          /\ chunk_list' = Append(chunk_list, c)
    /\ blk' = vframe_block_add_chunk(w.b)
    /\ wr_block' = w.b
    /\ have_frame_num' = have_frame_num + 1
    /\ w' = [pc |-> "idle", n |-> 0, b |-> Null]
    /\ UNCHANGED <<block_list, free_list, input_size, block_nums,
                   default_block_size, no_mem_err_cnt, dec, r, fails, unread, mode>>

-----------------------------------------------------------------------------
(* The decoder *)

\* vdec_prepare_input gives the first chunk to the hardware; the scheduler
\* has released consumed chunks before it runs the decoder again.
PrepareInput ==
    /\ dec = Null
    /\ chunk_list # <<>> /\ ~chk[chunk_list[1]].consumed
    /\ dec' = chunk_list[1]
    /\ UNCHANGED <<blk, chk, inputVars, w, r, fails, unread, mode>>

\* vdec_vframe_dirty: the frame is decoded.
VframeDirty ==
    /\ dec # Null
    /\ chk' = [chk EXCEPT ![dec].consumed = TRUE]
    /\ dec' = Null
    /\ UNCHANGED <<blk, inputVars, w, r, fails, unread, mode>>

-----------------------------------------------------------------------------
(* The releasers: vdec_clean_input in the decoder's work, and the same     *)
(* loop in vdec_core_thread.                                               *)

SetR(t, rel) == r' = [r EXCEPT ![t] = rel]

\* vdec_input_next_chunk
NextChunk(t) ==
    /\ r[t].pc = "idle"
    /\ chunk_list # <<>>
    /\ SetR(t, [NoRel EXCEPT !.pc = "has", !.c = chunk_list[1]])
    /\ UNCHANGED <<blk, chk, inputVars, w, dec, fails, unread, mode>>

\* Fault: the flag is not tested.
TestConsumed_Any(t) ==
    /\ r[t].pc = "has"
    /\ chk[r[t].c] # NoChunk
    /\ SetR(t, [r[t] EXCEPT !.pc = "rel", !.b = chk[r[t].c].block])
    /\ UNCHANGED <<blk, chk, inputVars, w, dec, fails, unread, mode>>

\* The test of VFRAME_CHUNK_FLAG_CONSUMED, and chunk->block is read: both
\* without the lock.  Memory that is free can hold anything.
TestConsumed(t) ==
    /\ r[t].pc = "has"
    /\ LET c == r[t].c
       IN  \/ chk[c] # NoChunk /\ chk[c].consumed
              /\ SetR(t, [r[t] EXCEPT !.pc = "rel", !.b = chk[c].block])
           \/ chk[c] = NoChunk
              /\ \E b \in alive : SetR(t, [r[t] EXCEPT !.pc = "rel", !.b = b])
           \/ ~chk[c].consumed /\ SetR(t, NoRel)
    /\ UNCHANGED <<blk, chk, inputVars, w, dec, fails, unread, mode>>

\* Fault: the released chunk is counted off twice.
ReleaseBlock_CountTwice(t, b) ==
    /\ blk' = [blk EXCEPT ![b].count = @ - 2]
    /\ SetR(t, [r[t] EXCEPT !.pc = "tail"])
    /\ UNCHANGED <<block_list, free_list, input_size, block_nums>>

\* "don't free used block": b has no chunk left and is not being written.
Unused(b) == mode = "copy" /\ blk[b].count = 1 /\ wr_block # b

\* What becomes of the block of a released chunk, under the lock: it leaves
\* the lists and is freed after the unlock, it becomes free, or it stays.
ReleaseBlock(t, b) ==
    \/ /\ mode = "dma" \/ (Unused(b) /\ blk[b].size < default_block_size)
       /\ block_list' = block_list \ {b}
       /\ vdec_input_del_block_locked(b)
       /\ blk' = [blk EXCEPT ![b].count = @ - 1]
       /\ SetR(t, [r[t] EXCEPT !.pc = "tail", !.kfree = TRUE])
       /\ UNCHANGED free_list
    \/ /\ mode = "secure" \/ (Unused(b) /\ blk[b].size >= default_block_size)
       /\ block_list' = block_list \ {b}
       /\ free_list' = Append(free_list, b)
       /\ blk' = [blk EXCEPT ![b].count = @ - 1, ![b].wp = IF mode = "copy" THEN 0 ELSE @]
       /\ SetR(t, [r[t] EXCEPT !.pc = "tail"])
       /\ UNCHANGED <<input_size, block_nums>>
    \/ /\ mode = "copy" /\ ~Unused(b)
       /\ blk' = [blk EXCEPT ![b].count = @ - 1]
       /\ SetR(t, [r[t] EXCEPT !.pc = "tail"])
       /\ UNCHANGED <<block_list, free_list, input_size, block_nums>>

\* vdec_input_release_chunk up to the unlock.  "2 threads go here, the other
\* done the deletion,so return"
ReleaseChunk(t) ==
    /\ r[t].pc = "rel"
    /\ \/ /\ r[t].c \notin Range(chunk_list)
          /\ SetR(t, NoRel)
          /\ UNCHANGED <<blk, block_list, free_list, chunk_list, input_size, block_nums,
                         have_frame_num, unread>>
       \/ /\ r[t].c \in Range(chunk_list)
          /\ chunk_list' = Without(chunk_list, {r[t].c})
          /\ have_frame_num' = have_frame_num - 1
          /\ ReleaseBlock(t, r[t].b)
          /\ unread' = (unread \/ ~chk[r[t].c].consumed)
    /\ UNCHANGED <<chk, wr_block, default_block_size, no_mem_err_cnt, w, dec, fails, mode>>

\* Fault: a block that has left the lists is not freed.
ReleaseTail_Leak(t) ==
    /\ r[t].pc = "tail"
    /\ chk' = [chk EXCEPT ![r[t].c] = NoChunk]
    /\ SetR(t, NoRel)
    /\ UNCHANGED <<blk, inputVars, w, dec, fails, unread, mode>>

\* ... and after it: the free callback (read from the block), and kfree.  In
\* "dma" mode the callback gives the buffer back to the application.
ReleaseTail(t) ==
    /\ r[t].pc = "tail"
    /\ blk' = IF r[t].kfree THEN [blk EXCEPT ![r[t].b] = NoBlock] ELSE blk
    /\ chk' = [chk EXCEPT ![r[t].c] = NoChunk]
    /\ SetR(t, NoRel)
    /\ UNCHANGED <<inputVars, w, dec, fails, unread, mode>>

\* vdec_input_get_freed_handle: the application asks for a buffer that is
\* free again.
GetFreedHandle ==
    /\ mode = "secure"
    /\ free_list # <<>>
    /\ vdec_input_del_block_locked(free_list[1])
    /\ blk' = [blk EXCEPT ![free_list[1]] = NoBlock]
    /\ free_list' = Tail(free_list)
    /\ UNCHANGED <<chk, block_list, chunk_list, wr_block, have_frame_num, default_block_size,
                   no_mem_err_cnt, w, dec, r, fails, unread, mode>>

-----------------------------------------------------------------------------
(* Life cycle *)

Prepare(bs) == [b \in Blocks |-> IF b \in bs THEN [NoBlock EXCEPT !.size = BlockSize] ELSE NoBlock]

\* vdec_input_prepare_bufs allocates the blocks in bs; fewer than Prepared
\* when an allocation fails.  Only a successful one clears wr_block.
vdec_input_prepare_bufs(bs) ==
    /\ bs \subseteq Blocks
    /\ IF mode # "copy" THEN bs = {} /\ fails' = fails
       ELSE \/ Cardinality(bs) = Prepared /\ fails' = fails
            \/ /\ Cardinality(bs) < Prepared /\ (bs = {} => FirstMayFail)
               /\ fails < MaxFails /\ fails' = fails + 1
    /\ blk' = Prepare(bs)
    /\ free_list' \in {s \in [1..Cardinality(bs) -> bs] : Range(s) = bs}
    /\ input_size' = Cardinality(bs) * BlockSize
    /\ block_nums' = Cardinality(bs)
    /\ wr_block' = IF bs = {} THEN wr_block ELSE Null

\* vdec_reset, vdec_v4l2_reset: with the threads at rest, vdec_input_release
\* frees chunks and blocks, vdec_input_init clears the lists, and the first
\* blocks are prepared again.
Reset ==
    /\ w.pc = "idle" /\ dec = Null /\ \A t \in Releasers : r[t].pc = "idle"
    /\ \E bs \in SUBSET Blocks : vdec_input_prepare_bufs(bs)
    /\ block_list' = {} /\ chunk_list' = <<>>
    /\ have_frame_num' = have_frame_num - Len(chunk_list)
    /\ default_block_size' = BlockSize
    /\ chk' = [c \in Chunks |-> NoChunk]
    /\ UNCHANGED <<no_mem_err_cnt, w, dec, r, unread, mode>>

\* vdec_input_init on zeroed memory, and vdec_init's first prepare_bufs.
Init ==
    /\ mode \in Modes
    /\ \E bs \in SUBSET Blocks :
          /\ Cardinality(bs) = IF mode = "copy" THEN Prepared ELSE 0
          /\ blk = Prepare(bs)
    /\ chk = [c \in Chunks |-> NoChunk]
    /\ block_list = {}
    /\ free_list \in {s \in [1..Cardinality(alive) -> alive] : Range(s) = alive}
    /\ chunk_list = <<>>
    /\ wr_block = Null
    /\ input_size = Cardinality(alive) * BlockSize /\ block_nums = Cardinality(alive)
    /\ have_frame_num = 0 /\ default_block_size = BlockSize /\ no_mem_err_cnt = 0
    /\ w = [pc |-> "idle", n |-> 0, b |-> Null]
    /\ dec = Null
    /\ r = [t \in Releasers |-> NoRel]
    /\ fails = 0 /\ unread = FALSE

Writer ==
    \/ \E n \in FrameSizes : AddChunk(n)
    \/ Recycle
    \/ vdec_input_get_free_block
    \/ \E long \in BOOLEAN : AllocRefused(long) \/ AllocBlock(long) \/ AllocFails(long)
    \/ \E n \in FrameSizes, h \in Handles : AddDmaChunk(n, h)
    \/ FillDone

Decoder == PrepareInput \/ VframeDirty

Releaser(t) == NextChunk(t) \/ TestConsumed(t) \/ ReleaseChunk(t) \/ ReleaseTail(t)

Next ==
    \/ Writer
    \/ Decoder
    \/ \E t \in Releasers : Releaser(t)
    \/ GetFreedHandle
    \/ Reset

Spec == Init /\ [][Next]_vars

\* The caller offers a refused frame again, the hardware decodes, and the
\* threads run.
FairSpec ==
    /\ Spec
    /\ WF_vars(Writer) /\ WF_vars(Decoder) /\ \A t \in Releasers : WF_vars(Releaser(t))

-----------------------------------------------------------------------------
(* Properties *)

\* The bytes [from, to) of a block a queued chunk, or the copy in progress,
\* occupies.
Regions ==
    {[b |-> chk[c].block, from |-> chk[c].off, to |-> chk[c].off + chk[c].size + Pad] :
        c \in Range(chunk_list)}
    \cup IF w.pc = "fill"
         THEN {[b |-> w.b, from |-> blk[w.b].wp, to |-> blk[w.b].wp + w.n + Pad]} ELSE {}

\* The data of a queued frame is never overwritten before it is released, and
\* every frame lies inside its block.  The block the writer works on exists and
\* no releaser can recycle it: it is wr_block whenever the lock is not held.
ChunksDisjoint ==
    /\ \A x \in Regions : x.b \in alive /\ x.to <= blk[x.b].size
    /\ \A x, y \in Regions : (x # y /\ x.b = y.b) => (x.to <= y.from \/ y.to <= x.from)
    /\ Cardinality(Regions) = Len(chunk_list) + (IF w.pc = "fill" THEN 1 ELSE 0)
    /\ wr_block # Null /\ mode = "copy" => wr_block \in block_list
    /\ w.pc \in {"fill", "recycle"} => w.b = wr_block /\ w.b \in block_list

\* The bytes of the blocks in S
Bytes(S) == UNION {{b} \X (1..blk[b].size) : b \in S}

\* The accounts vdec_input_have_blocks_enough and vdec_input_get_status rely
\* on are those of the lists.
CountsExact ==
    LET listed == block_list \cup Range(free_list) IN
    /\ have_frame_num = Len(chunk_list)
    /\ block_nums = Cardinality(listed)
    /\ input_size = Cardinality(Bytes(listed))
    /\ block_list \cap Range(free_list) = {}
    /\ \A b \in block_list : blk[b].count =
          Cardinality({c \in Range(chunk_list) : chk[c].block = b})

\* In "dma" and "secure" mode no buffer is known to the driver twice, and one
\* that is alive can be found: it is listed, or its release is in progress.
HandleExact ==
    /\ \A a, b \in alive : (a # b /\ blk[a].handle = blk[b].handle) => blk[a].handle = Null
    /\ \A b \in alive : \/ b \in block_list \cup Range(free_list)
                        \/ \E t \in Releasers : r[t].pc = "tail" /\ r[t].b = b /\ r[t].kfree
    /\ \A b \in block_list \cup Range(free_list) : b \in alive
    /\ \A i, j \in DOMAIN free_list : free_list[i] = free_list[j] => i = j

\* "2 threads go here, the other done the deletion,so return": the second
\* release of a chunk does nothing, so only consumed frames leave the list.
\* It is the address that is looked up.
OnlyConsumedLeave == ~unread

\* -EAGAIN means "no enough block now": as long as frames are decoded a frame
\* that is offered again is accepted in the end, unless the decoder is reset
\* for ever.
Accepted == <>[][~Reset]_vars => ((w.n # 0) ~> (w.n = 0))
=============================================================================
