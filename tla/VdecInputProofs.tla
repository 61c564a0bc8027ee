------------------------- MODULE VdecInputProofs ---------------------------
(***************************************************************************)
(* Proofs about the frame input of a decoder, for any number of blocks,    *)
(* chunks and releasers, any sizes and any bounds.  Two hypotheses, both   *)
(* on the constants: the first prepared block is always allocated          *)
(* (vdec_input_prepare_bufs keeps the old wr_block otherwise), and either  *)
(* there is one releaser or the address of a chunk is not handed out again *)
(* while a releaser still points to it.                                    *)
(***************************************************************************)
EXTENDS VdecInput, ListsProofs

Hypotheses == ~FirstMayFail /\ (~ReuseHeld \/ \A s, t \in Releasers : s = t)

-----------------------------------------------------------------------------
(* The inductive invariant *)

\* The addresses in use by the lists
Queued == Range(chunk_list)
Free == Range(free_list)
Listed == block_list \cup Free

\* The queued chunks that lie in block b
Held(b) == {c \in Queued : chk[c].block = b}

\* No list holds anything twice, and a block is in one list.
ListsOK == IsInjective(chunk_list) /\ IsInjective(free_list) /\ block_list \cap Free = {}

\* Memory in use has a size.
SizesOK ==
    /\ \A b \in Blocks : blk[b].size > 0 \/ blk[b] = NoBlock
    /\ \A b \in Listed : blk[b].size > 0

\* Queued chunks lie below the write pointer of a block that is in use ...
QueueOK ==
    \A c \in Queued : /\ chk[c].block \in block_list /\ chk[c].size > 0
                      /\ chk[c].off + chk[c].size + Pad <= blk[chk[c].block].wp

\* ... and apart; a buffer of the application holds one frame.
ApartOK ==
    \A c, d \in Queued : (c # d /\ chk[c].block = chk[d].block) =>
        /\ mode = "copy"
        /\ \/ chk[c].off + chk[c].size + Pad <= chk[d].off
           \/ chk[d].off + chk[d].size + Pad <= chk[c].off

\* A block counts its chunks, and a free block is empty.
BlocksOK ==
    /\ \A b \in block_list : blk[b].wp < blk[b].size /\ blk[b].count = Cardinality(Held(b))
    /\ \A b \in Free : blk[b].count = 0 /\ (mode = "copy" => blk[b].wp = 0)

HandlesOK == \A a, b \in Blocks : (a # b /\ blk[a].handle = blk[b].handle) => blk[a].handle = Null

\* A block that exists is in a list or is about to be freed.
FoundOK ==
    \A b \in Blocks : blk[b].size > 0 => b \in Listed \/ \E t \in Releasers : r[t].kfree /\ r[t].b = b

\* What a releaser has taken out of the lists is its own; a chunk it has only
\* looked at may be gone, but then its address is not used again.
RelOK(t) ==
    /\ r[t].kfree => /\ r[t].pc = "tail" /\ r[t].b \in Blocks \ Listed
                     /\ blk[r[t].b].size > 0
    /\ r[t].pc # "idle" => r[t].c \in Chunks
    /\ (r[t].pc \in {"has", "rel"} /\ r[t].c \notin Queued) => ~ReuseHeld
    /\ (r[t].pc = "rel" /\ r[t].c \in Queued) => r[t].b = chk[r[t].c].block /\ chk[r[t].c].consumed
    /\ r[t].pc = "tail" => r[t].c \notin Queued /\ chk[r[t].c].size > 0
    /\ r[t].pc = "idle" => r[t] = NoRel

RelsOK == \A t \in Releasers : RelOK(t)

RelsApart ==
    \A s, t \in Releasers : s # t =>
        /\ (r[s].pc = "tail" /\ r[t].pc = "tail") => r[s].c # r[t].c
        /\ (r[s].kfree /\ r[t].kfree) => r[s].b # r[t].b

\* The block being written is in use, and the frame fits behind what it holds.
WriterOK ==
    /\ w.pc # "idle" => w.n \in FrameSizes
    /\ mode # "copy" => w.pc \in {"idle", "fill"}
    /\ w.pc \in {"fill", "recycle"} => w.b = wr_block /\ w.b \in block_list
    /\ w.pc = "fill" => /\ blk[w.b].wp + w.n + Pad < blk[w.b].size
                        /\ mode # "copy" => Held(w.b) = {}
    /\ (mode = "copy" /\ wr_block # Null) => wr_block \in block_list

DecOK == dec # Null => dec \in Queued /\ ~chk[dec].consumed

FrameCountOK == have_frame_num = Len(chunk_list)

BlockCountsOK ==
    /\ block_nums = Cardinality(Listed)
    /\ IsFiniteSet(Bytes(Listed)) /\ input_size = Cardinality(Bytes(Listed))

Inv == /\ TypeOK /\ ListsOK /\ SizesOK /\ QueueOK /\ ApartOK /\ BlocksOK /\ HandlesOK /\ FoundOK
       /\ RelsOK /\ RelsApart /\ WriterOK /\ DecOK /\ FrameCountOK /\ BlockCountsOK /\ ~unread

-----------------------------------------------------------------------------
(* Sets of bytes *)

BytesOf(k, S) == UNION {{b} \X (1..k[b].size) : b \in S}

LEMMA BytesMembers ==
    ASSUME NEW k, NEW S, NEW p
    PROVE  p \in BytesOf(k, S) <=> \E b \in S : \E n \in 1..k[b].size : p = <<b, n>>
BY DEF BytesOf

\* Only the sizes of the blocks in S count.
LEMMA BytesSame ==
    ASSUME NEW k, NEW l, NEW S, \A b \in S : l[b].size = k[b].size
    PROVE  BytesOf(l, S) = BytesOf(k, S)
<1>1. \A p : p \in BytesOf(l, S) <=> p \in BytesOf(k, S)
  BY BytesMembers
<1> QED
  BY <1>1

\* A block more, or a block less, is its size more or less.
LEMMA BytesMore ==
    ASSUME NEW k, NEW S, NEW b, b \notin S, k[b].size \in Nat, IsFiniteSet(BytesOf(k, S))
    PROVE  /\ IsFiniteSet(BytesOf(k, S \cup {b}))
           /\ Cardinality(BytesOf(k, S \cup {b})) = Cardinality(BytesOf(k, S)) + k[b].size
<1> DEFINE P == {b} \X (1..k[b].size)
           B == BytesOf(k, S)
<1>1. BytesOf(k, S \cup {b}) = B \cup P
  BY DEF BytesOf
<1>2. B \cap P = {}
  BY BytesMembers
<1>3. IsFiniteSet({b}) /\ Cardinality({b}) = 1
  BY FS_Singleton
<1>4. IsFiniteSet(1..k[b].size) /\ Cardinality(1..k[b].size) = k[b].size
  BY CountedTo
<1>5. IsFiniteSet(P) /\ Cardinality(P) = Cardinality({b}) * Cardinality(1..k[b].size)
  BY <1>3, <1>4, FS_Product
<1>6. Cardinality(P) = k[b].size
  BY <1>3, <1>4, <1>5
<1>7. /\ IsFiniteSet(B \cup P)
      /\ Cardinality(B \cup P) = Cardinality(B) + Cardinality(P) - Cardinality(B \cap P)
  BY <1>5, FS_Union
<1>8. Cardinality(B \cap P) = 0
  BY <1>2, FS_EmptySet
<1>9. Cardinality(B) \in Nat
  BY FS_CardinalityType
<1>10. Cardinality(B \cup P) = Cardinality(B) + k[b].size
  BY <1>6, <1>7, <1>8, <1>9
<1> QED
  BY <1>1, <1>7, <1>10

LEMMA BytesLess ==
    ASSUME NEW k, NEW S, NEW b \in S, k[b].size \in Nat, IsFiniteSet(BytesOf(k, S))
    PROVE  /\ IsFiniteSet(BytesOf(k, S \ {b}))
           /\ Cardinality(BytesOf(k, S)) = Cardinality(BytesOf(k, S \ {b})) + k[b].size
<1>1. BytesOf(k, S \ {b}) \subseteq BytesOf(k, S)
  BY BytesMembers
<1>2. IsFiniteSet(BytesOf(k, S \ {b}))
  BY <1>1, FS_Subset
<1>3. (S \ {b}) \cup {b} = S /\ b \notin S \ {b}
  OBVIOUS
<1> QED
  BY <1>2, <1>3, BytesMore

\* Blocks of one size
LEMMA BytesEven ==
    ASSUME NEW k, NEW S, NEW n \in Nat, IsFiniteSet(S), \A b \in S : k[b].size = n
    PROVE  /\ IsFiniteSet(BytesOf(k, S))
           /\ Cardinality(BytesOf(k, S)) = Cardinality(S) * n
<1>1. BytesOf(k, S) = S \X (1..n)
  <2>1. \A p : p \in S \X (1..n) <=> \E b \in S : \E m \in 1..n : p = <<b, m>>
    OBVIOUS
  <2>2. \A p : p \in BytesOf(k, S) <=> p \in S \X (1..n)
    BY <2>1, BytesMembers
  <2> QED
    BY <2>2
<1>2. IsFiniteSet(1..n) /\ Cardinality(1..n) = n
  BY CountedTo
<1>3. /\ IsFiniteSet(S \X (1..n))
      /\ Cardinality(S \X (1..n)) = Cardinality(S) * Cardinality(1..n)
  BY <1>2, FS_Product, ZenonT(30)
<1> QED
  BY <1>1, <1>2, <1>3, ZenonT(30)

LEMMA BytesAre == Bytes(Listed) = BytesOf(blk, Listed) /\ Bytes(Listed)' = BytesOf(blk', Listed')
BY DEF Bytes, BytesOf

-----------------------------------------------------------------------------
(* What a step that leaves some of the state alone preserves *)

BlockRecords == [size : Nat, wp : Nat, count : Nat, handle : Handles \cup {Null}]
ChunkRecords == [block : Blocks \cup {Null}, off : Nat, size : Nat, consumed : BOOLEAN]
RelRecords == [pc : {"idle", "has", "rel", "tail"}, c : Chunks \cup {Null},
               b : Blocks \cup {Null}, kfree : BOOLEAN]
WriterRecords == [pc : WriterPcs, n : FrameSizes \cup {0}, b : Blocks \cup {Null}]

\* The parts of TypeOK
LEMMA Types ==
    TypeOK <=>
    /\ blk \in [Blocks -> BlockRecords] /\ chk \in [Chunks -> ChunkRecords] /\ mode \in Modes
    /\ block_list \subseteq Blocks /\ free_list \in Seq(Blocks) /\ chunk_list \in Seq(Chunks)
    /\ wr_block \in Blocks \cup {Null}
    /\ input_size \in Nat /\ block_nums \in Nat /\ have_frame_num \in Nat
    /\ default_block_size \in Nat /\ no_mem_err_cnt \in Nat
    /\ w \in WriterRecords /\ dec \in Chunks \cup {Null} /\ r \in [Releasers -> RelRecords]
    /\ fails \in 0..MaxFails /\ unread \in BOOLEAN
BY DEF TypeOK, BlockRecords, ChunkRecords, RelRecords, WriterRecords

LEMMA TypesAgain ==
    ASSUME blk' \in [Blocks -> BlockRecords], chk' \in [Chunks -> ChunkRecords], mode' \in Modes,
           block_list' \subseteq Blocks, free_list' \in Seq(Blocks), chunk_list' \in Seq(Chunks),
           wr_block' \in Blocks \cup {Null},
           input_size' \in Nat, block_nums' \in Nat, have_frame_num' \in Nat,
           default_block_size' \in Nat, no_mem_err_cnt' \in Nat,
           w' \in WriterRecords, dec' \in Chunks \cup {Null}, r' \in [Releasers -> RelRecords],
           fails' \in 0..MaxFails, unread' \in BOOLEAN
    PROVE  TypeOK'
BY DEF TypeOK, BlockRecords, ChunkRecords, RelRecords, WriterRecords

LEMMA Numbers ==
    /\ MaxFails \in Nat /\ Pad \in Nat /\ Pad > 0 /\ Extra \in Nat /\ Extra > 0
    /\ BlockSize \in Nat /\ BlockSize > 0 /\ Prepared \in Nat /\ Prepared > 0
    /\ \A n \in FrameSizes : n \in Nat /\ n > 0
BY SizeAssumption

LEMMA ListsKept ==
    ASSUME Inv, UNCHANGED <<blk, chk, mode, block_list, free_list, chunk_list>>
    PROVE  ListsOK' /\ SizesOK' /\ QueueOK' /\ ApartOK' /\ BlocksOK' /\ HandlesOK'
BY DEF Inv, ListsOK, SizesOK, QueueOK, ApartOK, BlocksOK, HandlesOK, Queued, Free, Listed, Held

LEMMA CountsKept ==
    ASSUME Inv, UNCHANGED <<blk, block_list, free_list, chunk_list, input_size, block_nums, have_frame_num>>
    PROVE  FrameCountOK' /\ BlockCountsOK'
BY DEF Inv, FrameCountOK, BlockCountsOK, Listed, Free, Bytes

LEMMA RelsKept ==
    ASSUME Inv, UNCHANGED <<blk, chk, block_list, free_list, chunk_list, r>>
    PROVE  FoundOK' /\ RelsOK' /\ RelsApart'
BY DEF Inv, FoundOK, RelsOK, RelOK, RelsApart, Queued, Free, Listed

LEMMA WriterKept ==
    ASSUME WriterOK, UNCHANGED <<blk, chk, mode, block_list, chunk_list, wr_block, w>>
    PROVE  WriterOK'
BY DEF WriterOK, Queued, Held

LEMMA DecKept ==
    ASSUME DecOK, UNCHANGED <<chk, chunk_list, dec>>
    PROVE  DecOK'
BY DEF DecOK, Queued

LEMMA StutterOK ==
    ASSUME Inv, UNCHANGED vars
    PROVE  Inv'
<1>1. TypeOK'
  BY DEF Inv, TypeOK, vars, inputVars, threadVars
<1> QED
  BY <1>1, ListsKept, CountsKept, RelsKept, WriterKept, DecKept DEF Inv, vars, inputVars, threadVars

-----------------------------------------------------------------------------
(* Steps of the writer that change no list *)

LEMMA AddChunkOK ==
    ASSUME Inv, NEW n \in FrameSizes, AddChunk(n)
    PROVE  Inv'
<1> USE DEF AddChunk, inputVars
<1>1. TypeOK
  BY DEF Inv
<1>2. w' \in WriterRecords
  BY <1>1, Types DEF WriterRecords, WriterPcs
<1>3. TypeOK'
  BY <1>1, <1>2, Types, TypesAgain
<1>4. WriterOK'
  <2>1. WriterOK /\ SizesOK
    BY DEF Inv
  <2>2. /\ w'.n = n /\ w'.b = wr_block
        /\ w'.pc = IF wr_block = Null THEN "getfree"
                   ELSE IF vframe_block_space(wr_block) > n + Pad THEN "fill" ELSE "recycle"
    BY <1>1, Types DEF WriterRecords
  <2>3. CASE wr_block = Null
    BY <2>1, <2>2, <2>3 DEF WriterOK
  <2>4. CASE wr_block # Null
    <3>1. wr_block \in block_list /\ wr_block \in Blocks
      BY <1>1, <2>1, <2>4, Types DEF WriterOK
    <3>2. PICK s \in Nat, p \in Nat : s = blk[wr_block].size /\ p = blk[wr_block].wp
      BY <1>1, <3>1, Types DEF BlockRecords
    <3>3. n \in Nat /\ Pad \in Nat
      BY SizeAssumption
    <3>4. w'.pc = "fill" => p + n + Pad < s
      BY <2>2, <2>4, <3>2, <3>3 DEF vframe_block_space
    <3> QED
      BY <2>1, <2>2, <2>4, <3>1, <3>2, <3>4 DEF WriterOK, Held, Queued
  <2> QED
    BY <2>3, <2>4
<1> QED
  BY <1>3, <1>4, ListsKept, CountsKept, RelsKept, DecKept DEF Inv

LEMMA AllocRefusedOK ==
    ASSUME Inv, NEW long, AllocRefused(long)
    PROVE  Inv'
<1> USE DEF AllocRefused, inputVars
<1>1. TypeOK
  BY DEF Inv
<1>2. w' \in WriterRecords /\ w'.pc = "idle"
  BY <1>1, Types DEF WriterRecords, WriterPcs
<1>3. TypeOK'
  BY <1>1, <1>2, Types, TypesAgain
<1>4. WriterOK'
  BY <1>2 DEF Inv, WriterOK
<1> QED
  BY <1>3, <1>4, ListsKept, CountsKept, RelsKept, DecKept DEF Inv

\* The size of the next block is a number, and large enough for the frame.
LEMMA SizeGrows ==
    ASSUME NEW n \in Nat, default_block_size \in Nat
    PROVE  GrownSize(n) \in Nat /\ GrownSize(n) >= n
<1> DEFINE T == {x \in 1 .. 4 * n : (x > 2 * n \/ x > BlockSizeMax)
                                       /\ \E k \in 1..n : x = default_block_size * 2^k} \cup {4 * n}
<1>1. T \in SUBSET Nat /\ T # {}
  OBVIOUS
<1>2. Doubled(default_block_size, n) = Min(T)
  BY DEF Doubled
<1> HIDE DEF T
<1>3. \E x \in T : \A y \in T : x <= y
  BY <1>1, Smallest
<1>4. Min(T) \in T
  BY <1>3 DEF Min
<1>5. PICK d \in Nat : d = Doubled(default_block_size, n)
  BY <1>1, <1>2, <1>4
<1> QED
  BY <1>5 DEF GrownSize

LEMMA FrameIs ==
    ASSUME TypeOK
    PROVE  w.n \in Nat /\ Need(w.n) \in Nat
<1>1. w.n \in FrameSizes \cup {0}
  BY Types DEF WriterRecords
<1>2. w.n \in Nat
  BY <1>1, Numbers
<1> QED
  BY <1>2, Numbers DEF Need

LEMMA AllocFailsOK ==
    ASSUME Inv, NEW long, AllocFails(long)
    PROVE  Inv'
<1> USE DEF AllocFails, MayAlloc, inputVars
<1>1. TypeOK
  BY DEF Inv
<1>2. w' \in WriterRecords /\ w'.pc = "idle"
  BY <1>1, Types DEF WriterRecords, WriterPcs
<1>3. w.n \in Nat /\ Need(w.n) \in Nat
  BY <1>1, FrameIs
<1>4. default_block_size' \in Nat
  BY <1>1, <1>3, SizeGrows, Types
<1>5. fails' \in 0..MaxFails /\ no_mem_err_cnt' \in Nat
  BY <1>1, Types, Numbers, SMTT(30)
<1>6. TypeOK'
  BY <1>1, <1>2, <1>4, <1>5, Types, TypesAgain
<1>7. WriterOK'
  BY <1>2 DEF Inv, WriterOK
<1> QED
  BY <1>6, <1>7, ListsKept, CountsKept, RelsKept, DecKept DEF Inv

-----------------------------------------------------------------------------
(* The decoder, and the steps of a releaser without the lock *)

LEMMA QueuedChunks ==
    ASSUME TypeOK
    PROVE  Queued \subseteq Chunks /\ Free \subseteq Blocks /\ Listed \subseteq Blocks
<1>1. free_list \in Seq(Blocks) /\ chunk_list \in Seq(Chunks) /\ block_list \subseteq Blocks
  BY Types
<1>2. \A X, l : l \in Seq(X) => Range(l) \subseteq X
  BY DEF Range
<1> QED
  BY <1>1, <1>2 DEF Queued, Free, Listed

LEMMA FirstQueued ==
    ASSUME NEW X, NEW l \in Seq(X), l # <<>>
    PROVE  l[1] \in Range(l) /\ l[1] \in X
BY DEF Range

LEMMA PrepareInputOK ==
    ASSUME Inv, PrepareInput
    PROVE  Inv'
<1> USE DEF PrepareInput, inputVars
<1>1. TypeOK
  BY DEF Inv
<1>2. dec' \in Queued /\ ~chk[dec'].consumed
  BY <1>1, Types, FirstQueued DEF Queued
<1>3. TypeOK'
  BY <1>1, <1>2, Types, TypesAgain, QueuedChunks
<1>4. DecOK'
  BY <1>2 DEF DecOK, Queued
<1> QED
  BY <1>3, <1>4, ListsKept, CountsKept, RelsKept, WriterKept DEF Inv

\* Only the flag of one chunk changes.
LEMMA VframeDirtyOK ==
    ASSUME Inv, VframeDirty
    PROVE  Inv'
<1> USE DEF VframeDirty, inputVars
<1>1. TypeOK
  BY DEF Inv
<1>2. dec \in Chunks /\ chk \in [Chunks -> ChunkRecords]
  BY <1>1, Types
<1>3. chk' \in [Chunks -> ChunkRecords]
  BY <1>2 DEF ChunkRecords
<1>4. \A c \in Chunks : /\ chk'[c].block = chk[c].block /\ chk'[c].off = chk[c].off
                        /\ chk'[c].size = chk[c].size /\ (chk[c].consumed => chk'[c].consumed)
  BY <1>2 DEF ChunkRecords
<1>5. TypeOK'
  BY <1>1, <1>3, Types, TypesAgain
<1>6. Queued \subseteq Chunks /\ Queued' = Queued /\ Listed' = Listed /\ Free' = Free
  BY <1>1, QueuedChunks DEF Queued, Listed, Free
<1>7. \A b : Held(b)' = Held(b)
  BY <1>4, <1>6 DEF Held
<1>8. ListsOK' /\ SizesOK' /\ HandlesOK'
  BY <1>6 DEF Inv, ListsOK, SizesOK, HandlesOK, Free
<1>9. QueueOK'
  BY <1>4, <1>6 DEF Inv, QueueOK
<1>10. ApartOK'
  BY <1>4, <1>6 DEF Inv, ApartOK
<1>11. BlocksOK'
  BY <1>6, <1>7 DEF Inv, BlocksOK
<1>12. FoundOK' /\ RelsApart'
  BY <1>6 DEF Inv, FoundOK, RelsApart
<1>13. RelsOK'
  BY <1>4, <1>6 DEF Inv, RelsOK, RelOK
<1>14. WriterOK'
  BY <1>7 DEF Inv, WriterOK
<1>15. DecOK'
  BY DEF DecOK
<1> QED
  BY <1>5, <1>8, <1>9, <1>10, <1>11, <1>12, <1>13, <1>14, <1>15, CountsKept DEF Inv

\* A step of one releaser that changes nothing else and holds no block
LEMMA RelStep ==
    ASSUME Inv, NEW t \in Releasers, NEW rel \in RelRecords, SetR(t, rel), ~r[t].kfree, ~rel.kfree,
           rel.pc # "tail", RelOK(t)',
           UNCHANGED <<blk, chk, inputVars, w, dec, fails, unread, mode>>
    PROVE  Inv'
<1> USE DEF inputVars
<1>1. TypeOK /\ r \in [Releasers -> RelRecords]
  BY Types DEF Inv
<1>2. r' \in [Releasers -> RelRecords] /\ r'[t] = rel /\ \A s \in Releasers : s # t => r'[s] = r[s]
  BY <1>1 DEF SetR
<1>3. TypeOK'
  BY <1>1, <1>2, Types, TypesAgain
<1>4. RelsOK'
  <2>1. ASSUME NEW s \in Releasers, s # t
        PROVE  RelOK(s)'
    BY <1>2, <2>1 DEF Inv, RelsOK, RelOK, Queued, Listed, Free
  <2> QED
    BY <2>1 DEF RelsOK
<1>5. RelsApart'
  BY <1>2 DEF Inv, RelsApart
<1>6. FoundOK'
  <2>1. ASSUME NEW b \in Blocks, blk[b].size > 0
        PROVE  b \in Listed \/ \E s \in Releasers : r'[s].kfree /\ r'[s].b = b
    BY <1>2, <2>1 DEF Inv, FoundOK
  <2> QED
    BY <2>1 DEF FoundOK, Listed, Free
<1> QED
  BY <1>3, <1>4, <1>5, <1>6, ListsKept, CountsKept, WriterKept, DecKept DEF Inv

LEMMA NoRelIs == NoRel \in RelRecords /\ ~NoRel.kfree /\ NoRel.pc = "idle"
BY DEF NoRel, RelRecords

LEMMA NextChunkOK ==
    ASSUME Inv, NEW t \in Releasers, NextChunk(t)
    PROVE  Inv'
<1> USE DEF NextChunk, inputVars
<1>1. TypeOK /\ r \in [Releasers -> RelRecords]
  BY Types DEF Inv
<1>2. chunk_list[1] \in Queued /\ chunk_list[1] \in Chunks
  BY <1>1, Types, FirstQueued DEF Queued
<1>0. PICK rel : rel = [NoRel EXCEPT !.pc = "has", !.c = chunk_list[1]]
  OBVIOUS
<1>3. rel \in RelRecords /\ SetR(t, rel) /\ rel.pc = "has" /\ rel.c = chunk_list[1] /\ ~rel.kfree
  BY <1>0, <1>2 DEF NoRel, RelRecords
<1>4. r'[t] = rel
  BY <1>1, <1>3 DEF SetR
<1>5. RelOK(t)'
  BY <1>2, <1>3, <1>4 DEF RelOK, Queued
<1>6. ~r[t].kfree
  BY <1>1, NoRelIs DEF Inv, RelsOK, RelOK
<1> QED
  BY <1>3, <1>5, <1>6, RelStep

LEMMA TestConsumedOK ==
    ASSUME Inv, NEW t \in Releasers, TestConsumed(t)
    PROVE  Inv'
<1> USE DEF inputVars
<1>0. UNCHANGED <<blk, chk, inputVars, w, dec, fails, unread, mode>> /\ r[t].pc = "has"
  BY DEF TestConsumed
<1>1. TypeOK /\ r \in [Releasers -> RelRecords] /\ r[t] \in RelRecords /\ chk \in [Chunks -> ChunkRecords]
  BY Types DEF Inv
<1>2. RelOK(t)
  BY DEF Inv, RelsOK
<1>3. ~r[t].kfree /\ r[t].c \in Chunks /\ (r[t].c \notin Queued => ~ReuseHeld)
  BY <1>0, <1>1, <1>2 DEF RelOK
<1>4. chk[r[t].c] \in ChunkRecords
  BY <1>1, <1>3
<1>5. Queued' = Queued
  BY <1>0 DEF Queued
<1>6. CASE SetR(t, NoRel)
  <2>1. r'[t] = NoRel
    BY <1>1, <1>6 DEF SetR
  <2>2. RelOK(t)'
    BY <2>1, NoRelIs DEF RelOK
  <2> QED
    BY <1>0, <1>3, <1>6, <2>2, NoRelIs, RelStep
<1>7. CASE \E b \in Blocks \cup {Null} : /\ SetR(t, [r[t] EXCEPT !.pc = "rel", !.b = b])
                                         /\ r[t].c \in Queued => b = chk[r[t].c].block /\ chk[r[t].c].consumed
  <2>1. PICK b \in Blocks \cup {Null} :
           /\ SetR(t, [r[t] EXCEPT !.pc = "rel", !.b = b])
           /\ r[t].c \in Queued => b = chk[r[t].c].block /\ chk[r[t].c].consumed
    BY <1>7
  <2>2. PICK rel : rel = [r[t] EXCEPT !.pc = "rel", !.b = b]
    OBVIOUS
  <2>3. /\ rel \in RelRecords /\ rel.pc = "rel" /\ rel.b = b /\ rel.c = r[t].c /\ ~rel.kfree
        /\ SetR(t, rel)
    BY <1>1, <1>3, <2>1, <2>2 DEF RelRecords
  <2>4. r'[t] = rel
    BY <1>1, <2>3 DEF SetR
  <2>5. RelOK(t)'
    BY <1>0, <1>3, <1>5, <2>1, <2>3, <2>4 DEF RelOK
  <2> QED
    BY <1>0, <1>3, <2>3, <2>5, RelStep
<1>8. r[t].c \in Queued => chk[r[t].c] # NoChunk
  <2>1. r[t].c \in Queued => chk[r[t].c].size > 0
    BY DEF Inv, QueueOK
  <2> QED
    BY <2>1 DEF NoChunk
<1>9. chk[r[t].c].block \in Blocks \cup {Null}
  BY <1>4 DEF ChunkRecords
<1> QED
  BY <1>6, <1>7, <1>8, <1>9 DEF TestConsumed, alive

-----------------------------------------------------------------------------
(* Steps on blocks: what they have in common *)

LEMMA BlockIs ==
    ASSUME TypeOK, NEW b \in Blocks
    PROVE  /\ blk[b] \in BlockRecords /\ blk[b].size \in Nat /\ blk[b].wp \in Nat
           /\ blk[b].count \in Nat /\ blk[b].handle \in Handles \cup {Null}
BY Types DEF BlockRecords

LEMMA ChunkIs ==
    ASSUME TypeOK, NEW c \in Chunks
    PROVE  /\ chk[c] \in ChunkRecords /\ chk[c].block \in Blocks \cup {Null} /\ chk[c].off \in Nat
           /\ chk[c].size \in Nat /\ chk[c].consumed \in BOOLEAN
BY Types DEF ChunkRecords

LEMMA NoneIs ==
    /\ NoBlock \in BlockRecords /\ NoBlock.size = 0 /\ NoBlock.handle = Null
    /\ NoChunk \in ChunkRecords /\ NoChunk.size = 0
BY DEF NoBlock, NoChunk, BlockRecords, ChunkRecords

LEMMA ListedFinite ==
    ASSUME TypeOK
    PROVE  IsFiniteSet(Listed) /\ IsFiniteSet(Queued) /\ Listed \subseteq Blocks
<1>1. Listed \subseteq Blocks /\ chunk_list \in Seq(Chunks)
  BY QueuedChunks, Types
<1>2. IsFiniteSet(Listed)
  BY <1>1, AddressAssumption, FS_Subset
<1>3. IsFiniteSet(DOMAIN chunk_list)
  <2>1. DOMAIN chunk_list = 1..Len(chunk_list) /\ Len(chunk_list) \in Nat
    BY <1>1
  <2> QED
    BY <2>1, CountedTo
<1>4. Queued = {chunk_list[i] : i \in DOMAIN chunk_list}
  BY DEF Queued, Range
<1>5. IsFiniteSet(Queued)
  <2> DEFINE f == [i \in DOMAIN chunk_list |-> chunk_list[i]]
  <2>1. f \in Surjection(DOMAIN chunk_list, Queued)
    BY <1>4 DEF Surjection
  <2> QED
    BY <1>3, <2>1, FS_Surjection
<1> QED
  BY <1>1, <1>2, <1>5

\* The same blocks are listed and keep their sizes and handles.
LEMMA SizesStay ==
    ASSUME Inv, Listed' = Listed,
           \A b \in Blocks : \/ blk'[b] = blk[b]
                             \/ /\ b \in Listed /\ blk'[b].size = blk[b].size
                                /\ blk'[b].handle = blk[b].handle
    PROVE  /\ SizesOK' /\ HandlesOK'
           /\ UNCHANGED <<input_size, block_nums>> => BlockCountsOK'
<1>1. \A b \in Blocks : blk'[b].size = blk[b].size /\ blk'[b].handle = blk[b].handle
  OBVIOUS
<1>2. Listed \subseteq Blocks
  BY QueuedChunks DEF Inv
<1>3. SizesOK'
  BY <1>1, <1>2 DEF Inv, SizesOK
<1>4. HandlesOK'
  BY <1>1 DEF Inv, HandlesOK
<1>5. Bytes(Listed)' = Bytes(Listed)
  BY <1>1, <1>2, BytesAre, BytesSame
<1>6. ASSUME UNCHANGED <<input_size, block_nums>>
      PROVE  BlockCountsOK'
  BY <1>5, <1>6 DEF Inv, BlockCountsOK
<1> QED
  BY <1>3, <1>4, <1>6

\* Blocks that releasers are about to free stay theirs.
LEMMA RelsStay ==
    ASSUME Inv, UNCHANGED <<chk, chunk_list, r>>,
           \A b \in Blocks : (blk[b].size > 0 /\ b \notin Listed) <=> (blk'[b].size > 0 /\ b \notin Listed')
    PROVE  FoundOK' /\ RelsOK' /\ RelsApart'
<1>1. Queued' = Queued
  BY DEF Queued
<1>2. RelsOK'
  <2>1. ASSUME NEW t \in Releasers
        PROVE  RelOK(t)'
    BY <1>1 DEF Inv, RelsOK, RelOK
  <2> QED
    BY <2>1 DEF RelsOK
<1>3. RelsApart'
  BY DEF Inv, RelsApart
<1>4. FoundOK'
  BY DEF Inv, FoundOK
<1> QED
  BY <1>2, <1>3, <1>4

\* Blocks with queued chunks stay listed and keep their write pointers.
LEMMA QueueStays ==
    ASSUME Inv, UNCHANGED <<chk, chunk_list, mode, have_frame_num>>,
           \A b \in block_list : Held(b) # {} => b \in block_list' /\ blk'[b].wp = blk[b].wp
    PROVE  /\ QueueOK' /\ ApartOK' /\ FrameCountOK' /\ IsInjective(chunk_list)'
           /\ UNCHANGED dec => DecOK'
<1>1. Queued' = Queued
  BY DEF Queued
<1>2. QueueOK'
  <2>1. ASSUME NEW c \in Queued
        PROVE  /\ chk[c].block \in block_list' /\ chk[c].size > 0
               /\ chk[c].off + chk[c].size + Pad <= blk'[chk[c].block].wp
    <3>1. PICK b \in block_list : b = chk[c].block
      BY DEF Inv, QueueOK
    <3>2. Held(b) # {}
      BY <3>1 DEF Held
    <3>3. b \in block_list' /\ blk'[b].wp = blk[b].wp
      BY <3>2
    <3> QED
      BY <3>1, <3>3 DEF Inv, QueueOK
  <2> QED
    BY <1>1, <2>1 DEF QueueOK
<1>3. ApartOK'
  BY <1>1 DEF Inv, ApartOK
<1>4. FrameCountOK' /\ IsInjective(chunk_list)'
  BY DEF Inv, FrameCountOK, ListsOK
<1>5. UNCHANGED dec => DecOK'
  BY DecKept DEF Inv
<1> QED
  BY <1>2, <1>3, <1>4, <1>5

\* The first of the free blocks
LEMMA FirstFree ==
    ASSUME Inv, free_list # <<>>
    PROVE  /\ free_list[1] \in Blocks /\ free_list[1] \in Free /\ free_list[1] \notin block_list
           /\ blk[free_list[1]].size > 0 /\ blk[free_list[1]].count = 0
           /\ mode = "copy" => blk[free_list[1]].wp = 0
           /\ Tail(free_list) \in Seq(Blocks) /\ IsInjective(Tail(free_list))
           /\ Range(Tail(free_list)) = Free \ {free_list[1]}
<1>1. free_list \in Seq(Blocks) /\ IsInjective(free_list)
  BY Types DEF Inv, ListsOK
<1>2. free_list[1] \in Blocks /\ free_list[1] \in Free
  BY <1>1, FirstQueued DEF Free
<1>3. free_list[1] \notin block_list /\ blk[free_list[1]].size > 0
  BY <1>2 DEF Inv, ListsOK, SizesOK, Listed
<1>4. blk[free_list[1]].count = 0 /\ (mode = "copy" => blk[free_list[1]].wp = 0)
  BY <1>2 DEF Inv, BlocksOK
<1>5. /\ Tail(free_list) \in Seq(Blocks) /\ IsInjective(Tail(free_list))
      /\ Range(Tail(free_list)) = Range(free_list) \ {free_list[1]}
  BY <1>1, TailOnce
<1> QED
  BY <1>2, <1>3, <1>4, <1>5 DEF Free

-----------------------------------------------------------------------------
(* Steps on blocks: one by one *)

\* A block is allocated and becomes the one to write.
LEMMA NewBlockOK ==
    ASSUME Inv, NEW b, NEW s \in Nat, s > 0, NEW h \in Handles \cup {Null},
           vdec_input_alloc_new_block(b, s, h), \A a \in alive : h = Null \/ blk[a].handle # h,
           UNCHANGED <<chk, free_list, chunk_list, have_frame_num, dec, r, mode>>
    PROVE  /\ ListsOK' /\ SizesOK' /\ QueueOK' /\ ApartOK' /\ BlocksOK' /\ HandlesOK'
           /\ FoundOK' /\ RelsOK' /\ RelsApart' /\ DecOK' /\ FrameCountOK' /\ BlockCountsOK'
           /\ blk' \in [Blocks -> BlockRecords] /\ block_list' \subseteq Blocks
           /\ input_size' \in Nat /\ block_nums' \in Nat
           /\ b \in Blocks /\ b \in block_list' /\ wr_block' = b
           /\ blk'[b].size = s /\ blk'[b].wp = 0 /\ Held(b)' = {}
<1>1. TypeOK /\ Listed \subseteq Blocks /\ IsFiniteSet(Listed) /\ Queued \subseteq Chunks
  BY ListedFinite, QueuedChunks DEF Inv
<1>2. /\ b \in Blocks /\ blk[b] = NoBlock /\ b \notin Listed /\ blk[b].size = 0
      /\ b \notin block_list /\ b \notin Free
  <2>1. b \in Blocks /\ blk[b] = NoBlock
    BY DEF vdec_input_alloc_new_block, alive
  <2>2. blk[b].size = 0
    BY <2>1, NoneIs
  <2>3. b \notin Listed
    BY <2>2 DEF Inv, SizesOK
  <2> QED
    BY <2>1, <2>2, <2>3 DEF Listed
<1>3. blk \in [Blocks -> BlockRecords]
  BY <1>1, Types
<1>4. /\ blk' \in [Blocks -> BlockRecords]
      /\ \A a \in Blocks : a # b => blk'[a] = blk[a]
      /\ blk'[b].size = s /\ blk'[b].wp = 0 /\ blk'[b].count = 0 /\ blk'[b].handle = h
  BY <1>2, <1>3 DEF vdec_input_alloc_new_block, BlockRecords
<1>5. /\ block_list' = block_list \cup {b} /\ wr_block' = b /\ Free' = Free
      /\ input_size' = input_size + s /\ block_nums' = block_nums + 1
      /\ Listed' = Listed \cup {b}
  BY DEF vdec_input_alloc_new_block, Free, Listed
<1>6. Queued' = Queued /\ \A a : Held(a)' = Held(a)
  BY DEF Queued, Held
<1>7. Held(b) = {}
  BY <1>2 DEF Inv, QueueOK, Held
<1>8. QueueOK' /\ ApartOK' /\ FrameCountOK' /\ IsInjective(chunk_list)' /\ DecOK'
  <2>1. \A a \in block_list : a \in block_list' /\ blk'[a].wp = blk[a].wp
    BY <1>1, <1>2, <1>4, <1>5 DEF Listed
  <2> QED
    BY <2>1, QueueStays
<1>9. FoundOK' /\ RelsOK' /\ RelsApart'
  <2>1. \A a \in Blocks : (blk[a].size > 0 /\ a \notin Listed) <=> (blk'[a].size > 0 /\ a \notin Listed')
    BY <1>2, <1>4, <1>5
  <2> QED
    BY <2>1, RelsStay
<1>10. ListsOK'
  BY <1>2, <1>5 DEF Inv, ListsOK
<1>11. SizesOK'
  BY <1>1, <1>2, <1>4, <1>5 DEF Inv, SizesOK
<1>12. BlocksOK'
  <2>1. Cardinality(Held(b)') = 0
    BY <1>6, <1>7, FS_EmptySet
  <2>2. ASSUME NEW a \in block_list'
        PROVE  blk'[a].wp < blk'[a].size /\ blk'[a].count = Cardinality(Held(a)')
    <3>1. CASE a = b
      BY <1>4, <2>1, <3>1
    <3>2. CASE a # b
      <4>1. a \in block_list /\ blk'[a] = blk[a]
        BY <1>1, <1>4, <1>5, <2>2, <3>2 DEF Listed
      <4> QED
        BY <1>6, <4>1 DEF Inv, BlocksOK
    <3> QED
      BY <3>1, <3>2
  <2>3. ASSUME NEW a \in Free'
        PROVE  blk'[a].count = 0 /\ (mode' = "copy" => blk'[a].wp = 0)
    <3>1. a \in Free /\ a # b /\ a \in Blocks
      BY <1>1, <1>2, <1>5 DEF Listed
    <3> QED
      BY <1>4, <3>1 DEF Inv, BlocksOK
  <2> QED
    BY <2>2, <2>3 DEF BlocksOK
<1>13. HandlesOK'
  <2>1. \A a \in Blocks : a # b => blk[a].handle # h \/ h = Null
    <3>1. \A a \in Blocks : a \notin alive => blk[a].handle = Null
      BY NoneIs DEF alive
    <3> QED
      BY <3>1
  <2> QED
    BY <1>2, <1>4, <2>1 DEF Inv, HandlesOK
<1>14. BlockCountsOK' /\ input_size' \in Nat /\ block_nums' \in Nat
  <2>1. Cardinality(Listed') = Cardinality(Listed) + 1
    BY <1>1, <1>2, <1>5, FS_AddElement
  <2>2. BytesOf(blk', Listed) = Bytes(Listed)
    <3>1. \A a \in Listed : blk'[a].size = blk[a].size
      BY <1>1, <1>2, <1>4
    <3> QED
      BY <3>1, BytesSame, BytesAre
  <2>3. /\ IsFiniteSet(BytesOf(blk', Listed'))
        /\ Cardinality(BytesOf(blk', Listed')) = Cardinality(Bytes(Listed)) + s
    <3>1. IsFiniteSet(BytesOf(blk', Listed))
      BY <2>2 DEF Inv, BlockCountsOK
    <3> QED
      BY <1>2, <1>4, <1>5, <2>2, <3>1, BytesMore
  <2>4. input_size \in Nat /\ block_nums \in Nat
    BY <1>1, Types
  <2> QED
    BY <1>5, <2>1, <2>3, <2>4, BytesAre DEF Inv, BlockCountsOK
<1> QED
  BY <1>1, <1>2, <1>4, <1>5, <1>6, <1>7, <1>8, <1>9, <1>10, <1>11, <1>12, <1>13, <1>14 DEF Listed

\* vdec_input_get_free_block allocates one.
LEMMA AllocBlockOK ==
    ASSUME Inv, NEW long, AllocBlock(long)
    PROVE  Inv'
<1>1. TypeOK /\ WriterOK /\ w \in WriterRecords
  BY Types DEF Inv
<1>2. /\ w.pc = "alloc" /\ default_block_size' = GrownSize(Need(w.n)) /\ no_mem_err_cnt' = 0
      /\ UNCHANGED <<chk, free_list, chunk_list, have_frame_num, dec, r, fails, unread, mode>>
  BY DEF AllocBlock, MayAlloc
<1>3. w.n \in FrameSizes /\ mode = "copy"
  BY <1>1, <1>2 DEF WriterOK
<1>4. PICK n \in Nat : n = w.n /\ n > 0 /\ Need(w.n) = n + Pad + Extra /\ Need(w.n) \in Nat
  BY <1>3, Numbers DEF Need
<1>5. PICK s \in Nat : s = default_block_size' /\ s >= Need(w.n)
  BY <1>1, <1>2, <1>4, SizeGrows, Types
<1>6. s > n + Pad /\ s > 0
  BY <1>4, <1>5, Numbers
<1>7. PICK b \in Blocks : vdec_input_alloc_new_block(b, s, Null) /\ w' = [w EXCEPT !.pc = "fill", !.b = b]
  BY <1>5 DEF AllocBlock
<1>8. /\ ListsOK' /\ SizesOK' /\ QueueOK' /\ ApartOK' /\ BlocksOK' /\ HandlesOK'
      /\ FoundOK' /\ RelsOK' /\ RelsApart' /\ DecOK' /\ FrameCountOK' /\ BlockCountsOK'
      /\ blk' \in [Blocks -> BlockRecords] /\ block_list' \subseteq Blocks
      /\ input_size' \in Nat /\ block_nums' \in Nat
      /\ b \in Blocks /\ b \in block_list' /\ wr_block' = b
      /\ blk'[b].size = s /\ blk'[b].wp = 0
  BY <1>2, <1>6, <1>7, NewBlockOK
<1>9. w' \in WriterRecords /\ w'.pc = "fill" /\ w'.b = b /\ w'.n = n
  BY <1>1, <1>4, <1>7 DEF WriterRecords, WriterPcs
<1>10. TypeOK'
  BY <1>1, <1>2, <1>5, <1>8, <1>9, Types, TypesAgain
<1>11. WriterOK'
  <2>1. blk'[b].wp + n + Pad < blk'[b].size
    BY <1>4, <1>6, <1>8, Numbers
  <2> QED
    BY <1>2, <1>3, <1>4, <1>8, <1>9, <2>1 DEF WriterOK
<1> QED
  BY <1>2, <1>8, <1>10, <1>11 DEF Inv

\* A frame brings its own block.
LEMMA AddDmaChunkOK ==
    ASSUME Inv, NEW n \in FrameSizes, NEW h \in Handles, AddDmaChunk(n, h)
    PROVE  Inv'
<1>1. TypeOK
  BY DEF Inv
<1>2. /\ mode # "copy" /\ h \notin {blk[b].handle : b \in alive}
      /\ UNCHANGED <<chk, free_list, chunk_list, have_frame_num, default_block_size, no_mem_err_cnt,
                     dec, r, fails, unread, mode>>
  BY DEF AddDmaChunk
<1>3. PICK s \in Nat : s = Need(n) /\ s > n + Pad /\ s > 0 /\ n \in Nat
  BY Numbers DEF Need
<1>4. PICK b \in Blocks : vdec_input_alloc_new_block(b, s, h) /\ w' = [pc |-> "fill", n |-> n, b |-> b]
  BY <1>3 DEF AddDmaChunk
<1>5. /\ ListsOK' /\ SizesOK' /\ QueueOK' /\ ApartOK' /\ BlocksOK' /\ HandlesOK'
      /\ FoundOK' /\ RelsOK' /\ RelsApart' /\ DecOK' /\ FrameCountOK' /\ BlockCountsOK'
      /\ blk' \in [Blocks -> BlockRecords] /\ block_list' \subseteq Blocks
      /\ input_size' \in Nat /\ block_nums' \in Nat
      /\ b \in Blocks /\ b \in block_list' /\ wr_block' = b
      /\ blk'[b].size = s /\ blk'[b].wp = 0 /\ Held(b)' = {}
  BY <1>2, <1>3, <1>4, NewBlockOK
<1>6. w' \in WriterRecords /\ w'.pc = "fill" /\ w'.b = b /\ w'.n = n
  BY <1>4 DEF WriterRecords, WriterPcs
<1>7. TypeOK'
  BY <1>1, <1>2, <1>5, <1>6, Types, TypesAgain
<1>8. WriterOK'
  <2>1. blk'[b].wp + n + Pad < blk'[b].size
    BY <1>3, <1>5, Numbers
  <2> QED
    BY <1>2, <1>5, <1>6, <2>1 DEF WriterOK
<1> QED
  BY <1>2, <1>5, <1>7, <1>8 DEF Inv

\* A block leaves the lists and the accounts.
LEMMA CountsLess ==
    ASSUME Inv, NEW b \in Listed, Listed' = Listed \ {b}, vdec_input_del_block_locked(b),
           \A a \in Listed' : blk'[a].size = blk[a].size
    PROVE  BlockCountsOK' /\ input_size' \in Nat /\ block_nums' \in Nat
<1>1. Listed \subseteq Blocks /\ IsFiniteSet(Listed) /\ b \in Blocks
  BY ListedFinite DEF Inv
<1>2. blk[b].size \in Nat
  BY <1>1, BlockIs DEF Inv
<1>3. PICK T : T = Listed' /\ T = Listed \ {b}
  OBVIOUS
<1>4. Cardinality(T) = Cardinality(Listed) - 1 /\ IsFiniteSet(T)
  BY <1>1, <1>3, FS_RemoveElement
<1>5. Cardinality(T) \in Nat
  BY <1>4, FS_CardinalityType
<1>6. PICK B, C : B = BytesOf(blk, Listed) /\ C = BytesOf(blk', T)
  OBVIOUS
<1>7. C = BytesOf(blk, T)
  BY <1>3, <1>6, BytesSame
<1>8. IsFiniteSet(B) /\ input_size = Cardinality(B) /\ block_nums = Cardinality(Listed)
  BY <1>6, BytesAre DEF Inv, BlockCountsOK
<1>9. IsFiniteSet(C) /\ Cardinality(B) = Cardinality(C) + blk[b].size
  <2>1. IsFiniteSet(BytesOf(blk, Listed))
    BY <1>6, <1>8
  <2>2. /\ IsFiniteSet(BytesOf(blk, Listed \ {b}))
        /\ Cardinality(BytesOf(blk, Listed)) = Cardinality(BytesOf(blk, Listed \ {b})) + blk[b].size
    BY <1>2, <2>1, BytesLess
  <2> QED
    BY <1>3, <1>6, <1>7, <2>2
<1>10. Cardinality(C) \in Nat
  BY <1>9, FS_CardinalityType
<1>11. input_size' = input_size - blk[b].size /\ block_nums' = block_nums - 1
  BY DEF vdec_input_del_block_locked
<1>12. input_size' = Cardinality(C) /\ block_nums' = Cardinality(T)
  BY <1>2, <1>4, <1>8, <1>9, <1>10, <1>11
<1> QED
  BY <1>3, <1>5, <1>6, <1>9, <1>10, <1>12, BytesAre DEF BlockCountsOK

\* The first free block is freed.
LEMMA DropFreeOK ==
    ASSUME Inv, free_list # <<>>, vdec_input_del_block_locked(free_list[1]),
           blk' = [blk EXCEPT ![free_list[1]] = NoBlock], free_list' = Tail(free_list),
           UNCHANGED <<chk, block_list, chunk_list, have_frame_num, dec, r, mode>>
    PROVE  /\ ListsOK' /\ SizesOK' /\ QueueOK' /\ ApartOK' /\ BlocksOK' /\ HandlesOK'
           /\ FoundOK' /\ RelsOK' /\ RelsApart' /\ DecOK' /\ FrameCountOK' /\ BlockCountsOK'
           /\ blk' \in [Blocks -> BlockRecords] /\ free_list' \in Seq(Blocks)
           /\ input_size' \in Nat /\ block_nums' \in Nat
           /\ \A a \in block_list : blk'[a] = blk[a]
<1>1. TypeOK /\ Listed \subseteq Blocks /\ IsFiniteSet(Listed)
  BY ListedFinite DEF Inv
<1>2. PICK b \in Blocks : b = free_list[1]
  BY FirstFree
<1>3. /\ b \in Free /\ b \notin block_list /\ blk[b].size > 0 /\ free_list' \in Seq(Blocks)
      /\ IsInjective(free_list') /\ Free' = Free \ {b} /\ b \in Listed
  BY <1>2, FirstFree DEF Free, Listed
<1>4. blk \in [Blocks -> BlockRecords] /\ blk[b].size \in Nat
  BY <1>1, Types, BlockIs
<1>5. /\ blk' \in [Blocks -> BlockRecords] /\ blk'[b] = NoBlock
      /\ \A a \in Blocks : a # b => blk'[a] = blk[a]
  BY <1>2, <1>4, NoneIs
<1>6. Listed' = Listed \ {b} /\ block_list' = block_list
  BY <1>3 DEF Listed
<1>7. Queued' = Queued /\ \A a : Held(a)' = Held(a)
  BY DEF Queued, Held
<1>8. \A a \in block_list : blk'[a] = blk[a]
  BY <1>1, <1>3, <1>5 DEF Listed
<1>9. QueueOK' /\ ApartOK' /\ FrameCountOK' /\ IsInjective(chunk_list)' /\ DecOK'
  BY <1>6, <1>8, QueueStays
<1>10. FoundOK' /\ RelsOK' /\ RelsApart'
  <2>1. blk'[b].size = 0
    BY <1>5, NoneIs
  <2>2. \A a \in Blocks : (blk[a].size > 0 /\ a \notin Listed) <=> (blk'[a].size > 0 /\ a \notin Listed')
    BY <1>3, <1>5, <1>6, <2>1
  <2> QED
    BY <2>2, RelsStay
<1>11. ListsOK'
  BY <1>3, <1>6, <1>9 DEF Inv, ListsOK
<1>12. SizesOK'
  BY <1>1, <1>5, <1>6 DEF Inv, SizesOK
<1>13. BlocksOK'
  <2>1. \A a \in Free' : a \in Free /\ blk'[a] = blk[a]
    BY <1>1, <1>3, <1>5 DEF Listed
  <2> QED
    BY <1>6, <1>7, <1>8, <2>1 DEF Inv, BlocksOK
<1>14. HandlesOK'
  BY <1>5, NoneIs DEF Inv, HandlesOK
<1>15. BlockCountsOK' /\ input_size' \in Nat /\ block_nums' \in Nat
  <2>1. \A a \in Listed' : blk'[a].size = blk[a].size
    BY <1>1, <1>5, <1>6
  <2> QED
    BY <1>2, <1>3, <1>6, <2>1, CountsLess
<1> QED
  BY <1>3, <1>5, <1>8, <1>9, <1>10, <1>11, <1>12, <1>13, <1>14, <1>15

LEMMA GetFreedHandleOK ==
    ASSUME Inv, GetFreedHandle
    PROVE  Inv'
<1>1. TypeOK /\ WriterOK /\ mode # "copy"
  BY DEF Inv, GetFreedHandle
<1>2. /\ free_list # <<>> /\ vdec_input_del_block_locked(free_list[1])
      /\ blk' = [blk EXCEPT ![free_list[1]] = NoBlock] /\ free_list' = Tail(free_list)
      /\ UNCHANGED <<chk, block_list, chunk_list, wr_block, have_frame_num, default_block_size,
                     no_mem_err_cnt, w, dec, r, fails, unread, mode>>
  BY DEF GetFreedHandle
<1>3. /\ ListsOK' /\ SizesOK' /\ QueueOK' /\ ApartOK' /\ BlocksOK' /\ HandlesOK'
      /\ FoundOK' /\ RelsOK' /\ RelsApart' /\ DecOK' /\ FrameCountOK' /\ BlockCountsOK'
      /\ blk' \in [Blocks -> BlockRecords] /\ free_list' \in Seq(Blocks)
      /\ input_size' \in Nat /\ block_nums' \in Nat
      /\ \A a \in block_list : blk'[a] = blk[a]
  BY <1>2, DropFreeOK
<1>4. TypeOK'
  BY <1>1, <1>2, <1>3, Types, TypesAgain
<1>5. WriterOK'
  <2>1. \A b : Held(b)' = Held(b)
    BY <1>2 DEF Held, Queued
  <2> QED
    BY <1>1, <1>2, <1>3, <2>1 DEF WriterOK
<1> QED
  BY <1>2, <1>3, <1>4, <1>5 DEF Inv

\* The first free block becomes the one to write.
LEMMA TakeFreeOK ==
    ASSUME Inv, w.pc = "getfree", free_list # <<>>, blk[free_list[1]].size >= Need(w.n),
           block_list' = block_list \cup {free_list[1]}, free_list' = Tail(free_list),
           wr_block' = free_list[1], w' = [w EXCEPT !.pc = "fill", !.b = free_list[1]],
           UNCHANGED <<blk, chk, input_size, block_nums, chunk_list, have_frame_num,
                       default_block_size, no_mem_err_cnt, dec, r, fails, unread, mode>>
    PROVE  Inv'
<1>1. TypeOK /\ WriterOK /\ w \in WriterRecords /\ Listed \subseteq Blocks
  BY Types, QueuedChunks DEF Inv
<1>2. PICK b \in Blocks : b = free_list[1]
  BY FirstFree
<1>3. w.n \in FrameSizes /\ mode = "copy"
  BY <1>1 DEF WriterOK
<1>4. /\ b \in Free /\ b \notin block_list /\ blk[b].size > 0 /\ blk[b].count = 0 /\ blk[b].wp = 0
      /\ free_list' \in Seq(Blocks) /\ IsInjective(free_list') /\ Free' = Free \ {b}
  BY <1>2, <1>3, FirstFree DEF Free
<1>5. block_list' = block_list \cup {b} /\ Listed' = Listed
  BY <1>2, <1>4 DEF Listed
<1>6. Queued' = Queued /\ \A a : Held(a)' = Held(a)
  BY DEF Queued, Held
<1>7. Held(b) = {}
  BY <1>4 DEF Inv, QueueOK, Held
<1>8. QueueOK' /\ ApartOK' /\ FrameCountOK' /\ IsInjective(chunk_list)' /\ DecOK'
  BY <1>5, QueueStays
<1>9. FoundOK' /\ RelsOK' /\ RelsApart'
  BY <1>5, RelsStay
<1>10. SizesOK' /\ HandlesOK' /\ BlockCountsOK'
  BY <1>5, SizesStay
<1>11. ListsOK'
  BY <1>4, <1>5, <1>8 DEF Inv, ListsOK
<1>12. BlocksOK'
  <2>1. Cardinality(Held(b)') = 0
    BY <1>6, <1>7, FS_EmptySet
  <2>2. blk[b].wp < blk[b].size /\ blk[b].count = Cardinality(Held(b)')
    BY <1>4, <2>1
  <2> QED
    BY <1>4, <1>5, <1>6, <2>2 DEF Inv, BlocksOK
<1>13. w' \in WriterRecords /\ w'.pc = "fill" /\ w'.b = b /\ w'.n = w.n
  BY <1>1, <1>2 DEF WriterRecords, WriterPcs
<1>14. TypeOK'
  BY <1>1, <1>2, <1>4, <1>5, <1>13, Types, TypesAgain
<1>15. WriterOK'
  <2>1. PICK n \in Nat : n = w.n
    BY <1>3, Numbers
  <2>2. PICK s \in Nat : s = blk[b].size /\ s >= n + Pad + Extra
    BY <1>1, <1>2, <2>1, BlockIs DEF Need
  <2>3. 0 + n + Pad < s
    BY <2>2, Numbers
  <2> QED
    BY <1>2, <1>3, <1>4, <1>5, <1>13, <2>1, <2>2, <2>3 DEF WriterOK
<1> QED
  BY <1>8, <1>9, <1>10, <1>11, <1>12, <1>14, <1>15 DEF Inv

LEMMA GetFreeBlockOK ==
    ASSUME Inv, vdec_input_get_free_block
    PROVE  Inv'
<1>1. TypeOK /\ WriterOK /\ w \in WriterRecords
  BY Types DEF Inv
<1>2. /\ w.pc = "getfree"
      /\ UNCHANGED <<chk, chunk_list, have_frame_num, default_block_size, no_mem_err_cnt, dec, r,
                     fails, unread, mode>>
  BY DEF vdec_input_get_free_block
<1>3. w.n \in FrameSizes /\ mode = "copy"
  BY <1>1, <1>2 DEF WriterOK
<1>4. CASE /\ free_list # <<>> /\ blk[free_list[1]].size >= Need(w.n)
           /\ block_list' = block_list \cup {free_list[1]}
           /\ free_list' = Tail(free_list)
           /\ wr_block' = free_list[1]
           /\ w' = [w EXCEPT !.pc = "fill", !.b = free_list[1]]
           /\ UNCHANGED <<blk, input_size, block_nums>>
  BY <1>2, <1>4, TakeFreeOK
<1>5. CASE /\ free_list # <<>>
           /\ vdec_input_del_block_locked(free_list[1])
           /\ blk' = [blk EXCEPT ![free_list[1]] = NoBlock]
           /\ free_list' = Tail(free_list)
           /\ w' = [w EXCEPT !.pc = "alloc"]
           /\ UNCHANGED <<block_list, wr_block>>
  <2>1. /\ ListsOK' /\ SizesOK' /\ QueueOK' /\ ApartOK' /\ BlocksOK' /\ HandlesOK'
        /\ FoundOK' /\ RelsOK' /\ RelsApart' /\ DecOK' /\ FrameCountOK' /\ BlockCountsOK'
        /\ blk' \in [Blocks -> BlockRecords] /\ free_list' \in Seq(Blocks)
        /\ input_size' \in Nat /\ block_nums' \in Nat
    BY <1>2, <1>5, DropFreeOK
  <2>2. w' \in WriterRecords /\ w'.pc = "alloc" /\ w'.n = w.n
    BY <1>1, <1>5 DEF WriterRecords, WriterPcs
  <2>3. TypeOK'
    BY <1>1, <1>2, <1>5, <2>1, <2>2, Types, TypesAgain
  <2>4. WriterOK'
    BY <1>1, <1>2, <1>3, <1>5, <2>2 DEF WriterOK
  <2> QED
    BY <1>2, <2>1, <2>3, <2>4 DEF Inv
<1>6. CASE /\ w' = [w EXCEPT !.pc = "alloc"]
           /\ UNCHANGED <<blk, block_list, free_list, wr_block, input_size, block_nums>>
  <2>1. w' \in WriterRecords /\ w'.pc = "alloc" /\ w'.n = w.n
    BY <1>1, <1>6 DEF WriterRecords, WriterPcs
  <2>2. TypeOK'
    BY <1>1, <1>2, <1>6, <2>1, Types, TypesAgain
  <2>3. WriterOK'
    BY <1>1, <1>2, <1>3, <1>6, <2>1 DEF WriterOK
  <2> QED
    BY <1>2, <1>6, <2>2, <2>3, ListsKept, CountsKept, RelsKept, DecKept DEF Inv
<1> QED
  BY <1>4, <1>5, <1>6 DEF vdec_input_get_free_block

\* The block to write is full and holds no frame: it becomes free.
LEMMA RecycleOK ==
    ASSUME Inv, Recycle
    PROVE  Inv'
<1>1. TypeOK /\ WriterOK /\ w \in WriterRecords /\ Listed \subseteq Blocks
  BY Types, QueuedChunks DEF Inv
<1>2. /\ w.pc = "recycle" /\ w' = [w EXCEPT !.pc = "getfree", !.b = Null]
      /\ UNCHANGED <<chk, chunk_list, input_size, block_nums, have_frame_num, default_block_size,
                     no_mem_err_cnt, dec, r, fails, unread, mode>>
  BY DEF Recycle
<1>3. w.n \in FrameSizes /\ mode = "copy" /\ w.b = wr_block /\ w.b \in block_list
  BY <1>1, <1>2 DEF WriterOK
<1>4. w' \in WriterRecords /\ w'.pc = "getfree" /\ w'.n = w.n
  BY <1>1, <1>2 DEF WriterRecords, WriterPcs
<1>5. CASE UNCHANGED <<blk, block_list, free_list, wr_block>>
  <2>1. TypeOK'
    BY <1>1, <1>2, <1>4, <1>5, Types, TypesAgain
  <2>2. WriterOK'
    BY <1>1, <1>2, <1>3, <1>4, <1>5 DEF WriterOK
  <2> QED
    BY <1>2, <1>5, <2>1, <2>2, ListsKept, CountsKept, RelsKept, DecKept DEF Inv
<1>6. CASE /\ blk[w.b].count = 0
           /\ blk' = [blk EXCEPT ![w.b].wp = 0]
           /\ block_list' = block_list \ {w.b}
           /\ free_list' = Append(free_list, w.b)
           /\ wr_block' = Null
  <2>1. PICK b \in Blocks : b = w.b /\ b \in block_list /\ b \notin Free /\ b \in Listed
    BY <1>1, <1>3 DEF Inv, ListsOK, Listed
  <2>2. blk \in [Blocks -> BlockRecords] /\ free_list \in Seq(Blocks) /\ IsInjective(free_list)
    BY <1>1, Types DEF Inv, ListsOK
  <2>3. /\ blk' \in [Blocks -> BlockRecords] /\ \A a \in Blocks : a # b => blk'[a] = blk[a]
        /\ blk'[b].size = blk[b].size /\ blk'[b].handle = blk[b].handle
        /\ blk'[b].count = 0 /\ blk'[b].wp = 0
    BY <1>6, <2>1, <2>2 DEF BlockRecords
  <2>4. /\ free_list' \in Seq(Blocks) /\ Free' = Free \cup {b} /\ IsInjective(free_list')
        /\ block_list' = block_list \ {b}
    BY <1>6, <2>1, <2>2, AppendRange, AppendOnce DEF Free
  <2>5. Listed' = Listed
    BY <2>1, <2>4 DEF Listed
  <2>6. Queued' = Queued /\ \A a : Held(a)' = Held(a)
    BY <1>2 DEF Queued, Held
  <2>7. Held(b) = {}
    <3>1. Cardinality(Held(b)) = 0
      BY <1>6, <2>1 DEF Inv, BlocksOK
    <3>2. IsFiniteSet(Held(b))
      BY <1>1, ListedFinite, FS_Subset DEF Held
    <3> QED
      BY <3>1, <3>2, FS_EmptySet
  <2>8. \A a \in block_list' : a \in block_list /\ a \in Blocks /\ blk'[a] = blk[a]
    BY <1>1, <2>3, <2>4 DEF Listed
  <2>9. QueueOK' /\ ApartOK' /\ FrameCountOK' /\ IsInjective(chunk_list)' /\ DecOK'
    <3>1. \A a \in block_list : Held(a) # {} => a \in block_list' /\ blk'[a].wp = blk[a].wp
      BY <2>4, <2>7, <2>8
    <3> QED
      BY <1>2, <3>1, QueueStays
  <2>10. FoundOK' /\ RelsOK' /\ RelsApart'
    <3>1. \A a \in Blocks : (blk[a].size > 0 /\ a \notin Listed) <=> (blk'[a].size > 0 /\ a \notin Listed')
      BY <2>3, <2>5
    <3> QED
      BY <1>2, <3>1, RelsStay
  <2>11. SizesOK' /\ HandlesOK' /\ BlockCountsOK'
    BY <1>2, <2>1, <2>3, <2>5, SizesStay
  <2>12. ListsOK'
    BY <2>1, <2>4, <2>9 DEF Inv, ListsOK
  <2>13. BlocksOK'
    <3>1. \A a \in Free' : a = b \/ (a \in Free /\ a \in Blocks /\ blk'[a] = blk[a])
      BY <1>1, <2>3, <2>4 DEF Listed
    <3>2. \A a \in Free' : blk'[a].count = 0 /\ blk'[a].wp = 0
      BY <1>3, <2>3, <3>1 DEF Inv, BlocksOK
    <3> QED
      BY <2>6, <2>8, <3>2 DEF Inv, BlocksOK
  <2>14. TypeOK'
    <3>1. block_list' \subseteq Blocks
      BY <2>8
    <3> QED
      BY <1>1, <1>2, <1>4, <1>6, <2>3, <2>4, <3>1, Types, TypesAgain
  <2>15. WriterOK'
    BY <1>2, <1>3, <1>4, <1>6 DEF WriterOK
  <2> QED
    BY <1>2, <2>9, <2>10, <2>11, <2>12, <2>13, <2>14, <2>15 DEF Inv
<1> QED
  BY <1>5, <1>6 DEF Recycle

-----------------------------------------------------------------------------
(* A chunk is appended *)

\* The space the frame takes: the write pointer does not wrap.
LEMMA FillFits ==
    ASSUME Inv, FillDone
    PROVE  /\ w.b \in Blocks /\ w.b \in block_list /\ w.b = wr_block /\ w.n \in Nat /\ w.n > 0
           /\ blk' \in [Blocks -> BlockRecords]
           /\ \A a \in Blocks : a # w.b => blk'[a] = blk[a]
           /\ blk'[w.b].size = blk[w.b].size /\ blk'[w.b].handle = blk[w.b].handle
           /\ blk'[w.b].count = blk[w.b].count + 1
           /\ blk'[w.b].wp = blk[w.b].wp + w.n + Pad /\ blk'[w.b].wp < blk[w.b].size
<1>1. TypeOK /\ WriterOK /\ block_list \subseteq Blocks
  BY Types DEF Inv
<1>2. w.pc = "fill" /\ blk' = vframe_block_add_chunk(w.b)
  BY DEF FillDone
<1>3. PICK b \in Blocks : b = w.b /\ b \in block_list /\ w.b = wr_block
  BY <1>1, <1>2 DEF WriterOK
<1>4. PICK n \in Nat : n = w.n /\ n > 0
  BY <1>1, <1>2, Numbers DEF WriterOK
<1>5. PICK s \in Nat, p \in Nat : s = blk[b].size /\ p = blk[b].wp
  BY <1>1, BlockIs
<1>6. p + n + Pad < s /\ p + n + Pad \in Nat
  BY <1>1, <1>2, <1>3, <1>4, <1>5, Numbers DEF WriterOK
<1>7. blk' = vframe_block_add_chunk(b)
  BY <1>2, <1>3
<1>8. blk \in [Blocks -> BlockRecords] /\ blk[b].count \in Nat
  BY <1>1, Types, BlockIs
<1>9. PICK q \in Nat : q = p + n + Pad
  BY <1>6
<1>10. q = IF blk[b].wp + w.n + Pad >= blk[b].size THEN blk[b].wp + w.n + Pad - blk[b].size
           ELSE blk[b].wp + w.n + Pad
  <2>1. blk[b].wp + w.n + Pad = q
    BY <1>4, <1>5, <1>9
  <2>2. ~(q >= blk[b].size)
    BY <1>5, <1>6, <1>9
  <2> QED
    BY <2>1, <2>2, Zenon
<1>11. /\ blk' \in [Blocks -> BlockRecords]
       /\ \A a \in Blocks : a # b => blk'[a] = blk[a]
       /\ blk'[b].size = blk[b].size /\ blk'[b].handle = blk[b].handle
       /\ blk'[b].count = blk[b].count + 1 /\ blk'[b].wp = q
  BY <1>7, <1>8, <1>10 DEF BlockRecords, vframe_block_add_chunk
<1> QED
  BY <1>3, <1>4, <1>5, <1>6, <1>9, <1>11

\* The new chunk: nobody has its address.
LEMMA FillChunk ==
    ASSUME Inv, FillDone
    PROVE  \E c \in Chunks :
              /\ chk' \in [Chunks -> ChunkRecords] /\ \A d \in Chunks : d # c => chk'[d] = chk[d]
              /\ chk'[c].block = w.b /\ chk'[c].off = blk[w.b].wp /\ chk'[c].size = w.n
              /\ ~chk'[c].consumed /\ c \notin Queued /\ Queued' = Queued \cup {c}
              /\ chunk_list' \in Seq(Chunks) /\ IsInjective(chunk_list')
              /\ Len(chunk_list') = Len(chunk_list) + 1
              /\ \A t \in Releasers : r[t].pc # "idle" => r[t].c # c
<1>1. TypeOK /\ chunk_list \in Seq(Chunks) /\ chk \in [Chunks -> ChunkRecords] /\ IsInjective(chunk_list)
  BY Types DEF Inv, ListsOK
<1>2. PICK c \in Chunks :
         /\ chk[c] = NoChunk /\ (ReuseHeld \/ \A t \in Releasers : r[t].c # c)
         /\ chk' = [chk EXCEPT ![c] = [block |-> w.b, off |-> blk[w.b].wp, size |-> w.n, consumed |-> FALSE]]
         /\ chunk_list' = Append(chunk_list, c)
  BY DEF FillDone
<1>3. chk[c].size = 0
  BY <1>2, NoneIs
<1>4. c \notin Queued
  BY <1>3 DEF Inv, QueueOK
<1>5. w.b \in Blocks /\ w.n \in Nat /\ blk[w.b].wp \in Nat
  BY <1>1, FillFits, BlockIs
<1>6. PICK x : x = [block |-> w.b, off |-> blk[w.b].wp, size |-> w.n, consumed |-> FALSE]
  OBVIOUS
<1>7. /\ x \in ChunkRecords /\ x.block = w.b /\ x.off = blk[w.b].wp /\ x.size = w.n
      /\ x.consumed = FALSE
  BY <1>5, <1>6 DEF ChunkRecords
<1>8. /\ chk' \in [Chunks -> ChunkRecords] /\ \A d \in Chunks : d # c => chk'[d] = chk[d]
      /\ chk'[c] = x
  BY <1>1, <1>2, <1>6, <1>7
<1>9. chunk_list' \in Seq(Chunks) /\ Queued' = Queued \cup {c} /\ IsInjective(chunk_list')
  BY <1>1, <1>2, <1>4, AppendRange, AppendOnce DEF Queued
<1>10. Len(chunk_list') = Len(chunk_list) + 1
  BY <1>1, <1>2
<1>11. \A t \in Releasers : r[t].pc # "idle" => r[t].c # c
  <2>1. ASSUME NEW t \in Releasers, r[t].pc # "idle", r[t].c = c
        PROVE  FALSE
    <3>1. RelOK(t) /\ r[t].pc \in {"has", "rel", "tail"}
      BY <1>1, <2>1, Types DEF Inv, RelsOK, RelRecords
    <3>2. CASE r[t].pc = "tail"
      BY <1>3, <2>1, <3>1, <3>2 DEF RelOK
    <3>3. CASE r[t].pc \in {"has", "rel"}
      BY <1>2, <1>4, <2>1, <3>1, <3>3 DEF RelOK
    <3> QED
      BY <3>1, <3>2, <3>3
  <2> QED
    BY <2>1
<1> QED
  BY <1>4, <1>7, <1>8, <1>9, <1>10, <1>11

LEMMA FillDoneOK ==
    ASSUME Inv, FillDone
    PROVE  Inv'
<1>1. TypeOK /\ WriterOK /\ Queued \subseteq Chunks /\ Listed \subseteq Blocks
  BY QueuedChunks DEF Inv
<1>2. /\ w.pc = "fill" /\ wr_block' = w.b /\ have_frame_num' = have_frame_num + 1
      /\ w' = [pc |-> "idle", n |-> 0, b |-> Null]
      /\ UNCHANGED <<block_list, free_list, input_size, block_nums,
                     default_block_size, no_mem_err_cnt, dec, r, fails, unread, mode>>
  BY DEF FillDone
<1>3. PICK b \in Blocks : b = w.b /\ b \in block_list
  BY FillFits
<1>4. /\ blk' \in [Blocks -> BlockRecords] /\ \A a \in Blocks : a # b => blk'[a] = blk[a]
      /\ blk'[b].size = blk[b].size /\ blk'[b].handle = blk[b].handle
      /\ blk'[b].count = blk[b].count + 1
      /\ blk'[b].wp = blk[b].wp + w.n + Pad /\ blk'[b].wp < blk[b].size
      /\ w.n \in Nat /\ w.n > 0
  BY <1>3, FillFits
<1>5. PICK c \in Chunks :
         /\ chk' \in [Chunks -> ChunkRecords] /\ \A d \in Chunks : d # c => chk'[d] = chk[d]
         /\ chk'[c].block = b /\ chk'[c].off = blk[b].wp /\ chk'[c].size = w.n
         /\ ~chk'[c].consumed /\ c \notin Queued /\ Queued' = Queued \cup {c}
         /\ chunk_list' \in Seq(Chunks) /\ IsInjective(chunk_list')
         /\ Len(chunk_list') = Len(chunk_list) + 1
         /\ \A t \in Releasers : r[t].pc # "idle" => r[t].c # c
  BY <1>3, FillChunk
<1>6. /\ \A d \in Queued : d # c /\ d \in Chunks /\ chk'[d] = chk[d]
      /\ Listed' = Listed /\ Free' = Free /\ block_list' = block_list
  BY <1>1, <1>2, <1>5 DEF Listed, Free
<1>7. PICK p \in Nat, q \in Nat : p = blk[b].wp /\ q = blk'[b].wp /\ q = p + w.n + Pad
  BY <1>1, <1>4, BlockIs, Numbers
<1>8. TypeOK'
  <2>1. w' \in WriterRecords
    BY <1>2 DEF WriterRecords, WriterPcs
  <2>2. have_frame_num' \in Nat
    BY <1>1, <1>2, Types
  <2> QED
    BY <1>1, <1>2, <1>3, <1>4, <1>5, <2>1, <2>2, Types, TypesAgain
<1>9. ListsOK'
  BY <1>5, <1>6, <1>2 DEF Inv, ListsOK
<1>10. SizesOK' /\ HandlesOK' /\ BlockCountsOK'
  <2>1. b \in Listed
    BY <1>3 DEF Listed
  <2> QED
    BY <1>2, <1>4, <1>6, <2>1, SizesStay
<1>11. QueueOK'
  <2>1. ASSUME NEW d \in Queued
        PROVE  /\ chk'[d].block \in block_list' /\ chk'[d].size > 0
               /\ chk'[d].off + chk'[d].size + Pad <= blk'[chk'[d].block].wp
    <3>1. /\ chk[d].block \in block_list /\ chk[d].size > 0
          /\ chk[d].off + chk[d].size + Pad <= blk[chk[d].block].wp /\ chk'[d] = chk[d]
      BY <1>6, <2>1 DEF Inv, QueueOK
    <3>2. CASE chk[d].block # b
      <4>1. chk[d].block \in Blocks
        BY <1>1, <3>1 DEF Listed
      <4> QED
        BY <1>4, <1>6, <3>1, <3>2, <4>1
    <3>3. CASE chk[d].block = b
      <4>1. PICK o \in Nat, z \in Nat : o = chk[d].off /\ z = chk[d].size
        BY <1>1, <2>1, ChunkIs
      <4>2. o + z + Pad <= p
        BY <1>7, <3>1, <3>3, <4>1
      <4>3. o + z + Pad <= q
        BY <1>4, <1>7, <4>2, Numbers
      <4> QED
        BY <1>6, <1>7, <3>1, <3>3, <4>1, <4>3
    <3> QED
      BY <3>2, <3>3
  <2>2. /\ chk'[c].block \in block_list' /\ chk'[c].size > 0
        /\ chk'[c].off + chk'[c].size + Pad <= blk'[chk'[c].block].wp
    BY <1>3, <1>4, <1>5, <1>6, <1>7, Numbers
  <2> QED
    BY <1>5, <2>1, <2>2 DEF QueueOK
<1>12. ApartOK'
  <2>1. ASSUME NEW d \in Queued, chk'[d].block = b
        PROVE  mode = "copy" /\ chk'[d].off + chk'[d].size + Pad <= chk'[c].off
    <3>1. chk[d].block = b /\ chk'[d] = chk[d]
      BY <1>6, <2>1
    <3>2. Held(b) # {}
      BY <3>1 DEF Held
    <3> QED
      BY <1>1, <1>2, <1>3, <1>5, <3>1, <3>2 DEF WriterOK, Inv, QueueOK
  <2>2. ASSUME NEW d \in Queued, NEW e \in Queued, d # e, chk'[d].block = chk'[e].block
        PROVE  /\ mode = "copy"
               /\ \/ chk'[d].off + chk'[d].size + Pad <= chk'[e].off
                  \/ chk'[e].off + chk'[e].size + Pad <= chk'[d].off
    BY <1>6, <2>2 DEF Inv, ApartOK
  <2> QED
    BY <1>2, <1>5, <2>1, <2>2 DEF ApartOK
<1>13. BlocksOK'
  <2>1. Held(b)' = Held(b) \cup {c} /\ c \notin Held(b)
    BY <1>5, <1>6 DEF Held
  <2>2. \A a \in Blocks : a # b => Held(a)' = Held(a)
    BY <1>5, <1>6 DEF Held
  <2>3. Cardinality(Held(b)') = Cardinality(Held(b)) + 1
    <3>1. IsFiniteSet(Held(b))
      BY <1>1, ListedFinite, FS_Subset DEF Held
    <3> QED
      BY <2>1, <3>1, FS_AddElement
  <2>4. ASSUME NEW a \in block_list
        PROVE  blk'[a].wp < blk'[a].size /\ blk'[a].count = Cardinality(Held(a)')
    <3>1. a \in Blocks /\ blk[a].wp < blk[a].size /\ blk[a].count = Cardinality(Held(a))
      BY <1>1 DEF Inv, BlocksOK, Listed
    <3>2. CASE a = b
      BY <1>4, <2>3, <3>1, <3>2
    <3>3. CASE a # b
      BY <1>4, <2>2, <3>1, <3>3
    <3> QED
      BY <3>2, <3>3
  <2>5. \A a \in Free : a \in Blocks /\ a # b
    BY <1>1, <1>3 DEF Inv, ListsOK, Listed
  <2>6. \A a \in Free' : blk'[a].count = 0 /\ (mode' = "copy" => blk'[a].wp = 0)
    BY <1>2, <1>4, <1>6, <2>5 DEF Inv, BlocksOK
  <2> QED
    BY <1>6, <2>4, <2>6 DEF BlocksOK
<1>14. RelsOK'
  <2>1. ASSUME NEW t \in Releasers
        PROVE  RelOK(t)'
    <3>1. RelOK(t) /\ r' = r
      BY <1>2 DEF Inv, RelsOK
    <3>2. CASE r[t].pc = "idle"
      BY <3>1, <3>2, NoRelIs DEF RelOK
    <3>3. CASE r[t].pc # "idle"
      <4>1. r[t].c # c /\ r[t].c \in Chunks
        BY <1>5, <3>1, <3>3 DEF RelOK
      <4>2. chk'[r[t].c] = chk[r[t].c] /\ (r[t].c \in Queued' <=> r[t].c \in Queued)
        BY <1>5, <4>1
      <4>3. r[t].kfree => blk'[r[t].b].size > 0
        BY <1>4, <3>1 DEF RelOK
      <4> QED
        BY <1>6, <3>1, <4>2, <4>3 DEF RelOK
    <3> QED
      BY <3>2, <3>3
  <2> QED
    BY <2>1 DEF RelsOK
<1>15. RelsApart'
  BY <1>2 DEF Inv, RelsApart
<1>16. FoundOK'
  <2>1. \A a \in Blocks : blk'[a].size = blk[a].size
    BY <1>4
  <2> QED
    BY <1>2, <1>6, <2>1 DEF Inv, FoundOK
<1>17. WriterOK'
  BY <1>1, <1>2, <1>3, <1>6 DEF WriterOK
<1>18. DecOK'
  BY <1>2, <1>5, <1>6 DEF Inv, DecOK
<1>19. FrameCountOK'
  BY <1>2, <1>5 DEF Inv, FrameCountOK
<1> QED
  BY <1>2, <1>8, <1>9, <1>10, <1>11, <1>12, <1>13, <1>14, <1>15, <1>16, <1>17, <1>18, <1>19 DEF Inv

-----------------------------------------------------------------------------
(* A chunk is released *)

\* What vdec_input_release_chunk does to the queue, and what it finds: the
\* chunk was consumed, and its block is in use.
Unlink(t) ==
    /\ r[t].pc = "rel" /\ r[t].c \in Queued
    /\ chunk_list' = Without(chunk_list, {r[t].c}) /\ have_frame_num' = have_frame_num - 1
    /\ UNCHANGED <<chk, mode, dec>>

LEMMA UnlinkIs ==
    ASSUME Inv, NEW t \in Releasers, Unlink(t)
    PROVE  /\ r[t].c \in Chunks /\ r[t].b = chk[r[t].c].block /\ chk[r[t].c].consumed
           /\ chk[r[t].c].size > 0 /\ r[t].b \in block_list /\ r[t].b \in Blocks
           /\ r[t].b \notin Free /\ ~r[t].kfree
           /\ chunk_list' \in Seq(Chunks) /\ IsInjective(chunk_list')
           /\ Queued' = Queued \ {r[t].c}
           /\ have_frame_num' \in Nat /\ FrameCountOK' /\ ApartOK' /\ DecOK'
<1>1. TypeOK /\ chunk_list \in Seq(Chunks) /\ IsInjective(chunk_list) /\ RelOK(t)
  BY Types DEF Inv, ListsOK, RelsOK
<1>2. PICK c \in Chunks : c = r[t].c /\ c \in Queued
  BY <1>1, QueuedChunks DEF Unlink
<1>3. r[t].b = chk[c].block /\ chk[c].consumed /\ ~r[t].kfree
  BY <1>1, <1>2, Types DEF Unlink, RelOK, RelRecords
<1>4. chk[c].size > 0 /\ chk[c].block \in block_list
  BY <1>2 DEF Inv, QueueOK
<1>5. chk[c].block \in Blocks /\ chk[c].block \notin Free
  BY <1>1, <1>4, Types DEF Inv, ListsOK
<1>6. chunk_list' \in Seq(Chunks) /\ Queued' = Queued \ {c} /\ IsInjective(chunk_list')
  <2>1. PICK l : l = chunk_list'
    OBVIOUS
  <2>2. l = Without(chunk_list, {c})
    BY <1>2, <2>1 DEF Unlink
  <2>3. l \in Seq(Chunks) /\ Range(l) = Queued \ {c} /\ IsInjective(l)
    BY <1>1, <2>2, WithoutOK, WithoutOnce DEF Queued
  <2> QED
    BY <2>1, <2>3 DEF Queued
<1>7. have_frame_num' = Len(chunk_list')
  <2>1. IsFiniteSet(Queued) /\ Cardinality(Queued) = Len(chunk_list)
    BY <1>1, LengthIsCardinality DEF Queued
  <2>2. Cardinality(Queued') = Len(chunk_list')
    BY <1>6, LengthIsCardinality DEF Queued
  <2>3. Cardinality(Queued \ {c}) = Cardinality(Queued) - 1
    BY <1>2, <2>1, FS_RemoveElement
  <2> QED
    BY <1>6, <2>1, <2>2, <2>3 DEF Unlink, Inv, FrameCountOK
<1>8. have_frame_num' \in Nat
  BY <1>6, <1>7
<1>9. ApartOK'
  BY <1>6 DEF Inv, ApartOK, Unlink
<1>10. DecOK'
  BY <1>2, <1>3, <1>6 DEF Inv, DecOK, Unlink
<1> QED
  BY <1>2, <1>3, <1>4, <1>5, <1>6, <1>7, <1>8, <1>9, <1>10 DEF FrameCountOK

\* One chunk less in its block; a block of the application is empty then.
LEMMA UnlinkHeld ==
    ASSUME Inv, NEW t \in Releasers, Unlink(t), NEW b \in Blocks, b = r[t].b
    PROVE  /\ \A a \in Blocks : a # b => Held(a)' = Held(a)
           /\ blk[b].count - 1 \in Nat /\ Cardinality(Held(b)') = blk[b].count - 1
           /\ (mode # "copy" \/ blk[b].count = 1) => Held(b)' = {}
<1>1. PICK c \in Chunks : /\ c = r[t].c /\ b = chk[c].block
                          /\ b \in block_list /\ c \in Queued
                          /\ Queued' = Queued \ {c}
  BY UnlinkIs DEF Unlink
<1>2. chk' = chk
  BY DEF Unlink
<1>3. \A a \in Blocks : a # b => Held(a)' = Held(a)
  BY <1>1, <1>2 DEF Held
<1>4. PICK H, G : H = Held(b) /\ G = Held(b)'
  OBVIOUS
<1>5. G = H \ {c} /\ c \in H
  BY <1>1, <1>2, <1>4 DEF Held
<1>6. IsFiniteSet(H)
  <2>1. IsFiniteSet(Queued)
    BY ListedFinite DEF Inv
  <2> QED
    BY <1>4, <2>1, FS_Subset DEF Held
<1>7. Cardinality(G) = Cardinality(H) - 1 /\ IsFiniteSet(G)
  BY <1>5, <1>6, FS_RemoveElement
<1>8. Cardinality(G) \in Nat
  BY <1>7, FS_CardinalityType
<1>9. blk[b].count = Cardinality(H)
  BY <1>1, <1>4 DEF Inv, BlocksOK
<1>10. (mode # "copy" \/ blk[b].count = 1) => G = {}
  <2>1. CASE mode # "copy"
    <3>1. \A d \in H : d = c
      BY <1>1, <1>4, <2>1 DEF Held, Inv, ApartOK
    <3> QED
      BY <1>5, <3>1
  <2>2. CASE blk[b].count = 1
    <3>1. Cardinality(G) = 0
      BY <1>7, <1>9, <2>2
    <3> QED
      BY <1>7, <3>1, FS_EmptySet
  <2> QED
    BY <2>1, <2>2
<1> QED
  BY <1>3, <1>4, <1>7, <1>8, <1>9, <1>10

\* The releaser keeps the chunk, and the block if it is to be freed.  Another
\* releaser may still look at the chunk: then its address is not used again.
LEMMA UnlinkRels ==
    ASSUME Inv, Hypotheses, NEW t \in Releasers, Unlink(t), NEW b \in Blocks, b = r[t].b,
           NEW rel \in RelRecords, SetR(t, rel), rel.pc = "tail", rel.c = r[t].c,
           rel.kfree => rel.b = b,
           \A a \in Blocks : blk'[a].size = blk[a].size,
           Listed' = IF rel.kfree THEN Listed \ {b} ELSE Listed
    PROVE  r' \in [Releasers -> RelRecords] /\ FoundOK' /\ RelsOK' /\ RelsApart'
<1>1. TypeOK /\ r \in [Releasers -> RelRecords] /\ ReuseHeld \in BOOLEAN
  BY Types, SizeAssumption DEF Inv
<1>2. r' \in [Releasers -> RelRecords] /\ r'[t] = rel /\ \A s \in Releasers : s # t => r'[s] = r[s]
  BY <1>1 DEF SetR
<1>3. PICK c \in Chunks : /\ c = r[t].c /\ c \in Queued /\ chk[c].size > 0 /\ Queued' = Queued \ {c}
                          /\ chk' = chk /\ r[t].pc = "rel" /\ ~r[t].kfree
  BY UnlinkIs DEF Unlink
<1>4. b \in Listed /\ blk[b].size > 0
  <2>1. b \in Listed
    BY UnlinkIs DEF Listed
  <2> QED
    BY <2>1 DEF Inv, SizesOK
<1>5. RelOK(t)'
  <2>1. rel.kfree => rel.b = b /\ b \in Blocks \ Listed' /\ blk'[b].size > 0
    BY <1>4
  <2> QED
    BY <1>2, <1>3, <2>1 DEF RelOK
<1>6. ASSUME NEW s \in Releasers, s # t
      PROVE  RelOK(s)'
  <2>1. RelOK(s) /\ r'[s] = r[s] /\ ~ReuseHeld
    BY <1>1, <1>2, <1>6 DEF Inv, RelsOK, Hypotheses
  <2>2. r[s].kfree => r[s].b \in Blocks \ Listed' /\ blk'[r[s].b].size > 0
    BY <2>1 DEF RelOK
  <2> QED
    BY <1>3, <2>1, <2>2 DEF RelOK
<1>7. RelsOK'
  BY <1>5, <1>6 DEF RelsOK
<1>8. RelsApart'
  <2>1. ASSUME NEW s \in Releasers, s # t
        PROVE  /\ r[s].pc = "tail" => r[s].c # c
               /\ r[s].kfree => r[s].b # b
    <3>1. RelOK(s)
      BY DEF Inv, RelsOK
    <3> QED
      BY <1>3, <1>4, <3>1 DEF RelOK
  <2> QED
    BY <1>2, <1>3, <2>1 DEF Inv, RelsApart
<1>9. FoundOK'
  <2>1. ASSUME NEW a \in Blocks, blk'[a].size > 0
        PROVE  a \in Listed' \/ \E s \in Releasers : r'[s].kfree /\ r'[s].b = a
    <3>1. CASE a = b
      <4>1. CASE rel.kfree
        BY <1>2, <3>1, <4>1
      <4>2. CASE ~rel.kfree
        BY <1>4, <3>1, <4>2
      <4> QED
        BY <4>1, <4>2
    <3>2. CASE a # b
      <4>1. CASE a \in Listed
        BY <3>2, <4>1
      <4>2. CASE a \notin Listed
        <5>1. PICK s \in Releasers : r[s].kfree /\ r[s].b = a
          BY <2>1, <4>2 DEF Inv, FoundOK
        <5>2. s # t
          BY <1>3, <5>1
        <5> QED
          BY <1>2, <5>1, <5>2
      <4> QED
        BY <4>1, <4>2
    <3> QED
      BY <3>1, <3>2
  <2> QED
    BY <2>1 DEF FoundOK
<1> QED
  BY <1>2, <1>7, <1>8, <1>9

\* What the three cases leave alone
Rest == UNCHANGED <<wr_block, default_block_size, no_mem_err_cnt, w, fails>> /\ unread' = unread

\* The block loses a chunk and keeps its size and its handle.
Loses(b, p) ==
    /\ blk' \in [Blocks -> BlockRecords] /\ \A a \in Blocks : a # b => blk'[a] = blk[a]
    /\ blk'[b].size = blk[b].size /\ blk'[b].handle = blk[b].handle
    /\ blk'[b].count = blk[b].count - 1 /\ blk'[b].wp = p

\* The writer's block is another one, or stays in use.
LEMMA UnlinkWriter ==
    ASSUME Inv, NEW t \in Releasers, Unlink(t), NEW b \in Blocks, b = r[t].b, Rest,
           Loses(b, blk'[b].wp),
           \/ block_list' = block_list /\ blk'[b].wp = blk[b].wp
           \/ block_list' = block_list \ {b} /\ (mode = "copy" => wr_block # b)
    PROVE  WriterOK'
<1>1. WriterOK /\ block_list \subseteq Blocks /\ b \in block_list /\ Held(b) # {}
  <2>1. r[t].c \in Held(b)
    BY UnlinkIs DEF Held, Unlink
  <2> QED
    BY <2>1, UnlinkIs, Types DEF Inv
<1>2. \A a \in Blocks : a # b => Held(a)' = Held(a) /\ blk'[a] = blk[a]
  BY UnlinkHeld DEF Loses
<1>3. CASE w.pc \in {"fill", "recycle"}
  <2>1. w.b = wr_block /\ w.b \in block_list /\ w.b \in Blocks
    BY <1>1, <1>3 DEF WriterOK
  <2>2. CASE w.b = b
    <3>1. mode = "copy"
      BY <1>1, <1>3, <2>2 DEF WriterOK
    <3>2. block_list' = block_list /\ blk'[b].wp = blk[b].wp /\ blk'[b].size = blk[b].size
      BY <2>1, <2>2, <3>1 DEF Loses
    <3> QED
      BY <1>1, <2>1, <2>2, <3>1, <3>2 DEF WriterOK, Rest, Unlink
  <2>3. CASE w.b # b
    <3>1. w.b \in block_list' /\ Held(w.b)' = Held(w.b) /\ blk'[w.b] = blk[w.b]
      <4>1. \A a \in Blocks : a = w.b => Held(a)' = Held(a)
        BY <1>2, <2>3
      <4>2. w' = w
        BY DEF Rest
      <4> QED
        BY <1>2, <2>1, <2>3, <4>1, <4>2 DEF Held
    <3>2. mode = "copy" /\ wr_block # Null => wr_block \in block_list'
      BY <2>1, <3>1
    <3> QED
      BY <1>1, <2>1, <3>1, <3>2 DEF WriterOK, Rest, Unlink
  <2> QED
    BY <2>2, <2>3
<1>4. CASE w.pc \notin {"fill", "recycle"}
  <2>1. mode = "copy" /\ wr_block # Null => wr_block \in block_list'
    BY <1>1 DEF WriterOK
  <2> QED
    BY <1>1, <1>4, <2>1 DEF WriterOK, Rest, Unlink
<1> QED
  BY <1>3, <1>4

\* The queue and the blocks after an unlink
LEMMA UnlinkBlocks ==
    ASSUME Inv, NEW t \in Releasers, Unlink(t), NEW b \in Blocks, b = r[t].b, Loses(b, blk'[b].wp),
           \/ block_list' = block_list /\ Free' = Free /\ blk'[b].wp = blk[b].wp
           \/ /\ block_list' = block_list \ {b} /\ Held(b)' = {}
              /\ \/ Free' = Free
                 \/ Free' = Free \cup {b} /\ (mode = "copy" => blk'[b].wp = 0)
    PROVE  QueueOK' /\ BlocksOK' /\ block_list' \subseteq Blocks /\ block_list' \cap Free' = {}
<1>1. TypeOK /\ block_list \subseteq Blocks /\ Free \subseteq Blocks /\ b \in block_list /\ b \notin Free
  BY UnlinkIs, QueuedChunks, Types DEF Inv
<1>2. /\ \A a \in Blocks : a # b => Held(a)' = Held(a) /\ blk'[a] = blk[a]
      /\ Cardinality(Held(b)') = blk[b].count - 1 /\ blk'[b].count = blk[b].count - 1
      /\ blk'[b].size = blk[b].size
  BY UnlinkHeld DEF Loses
<1>3. Queued' \subseteq Queued /\ chk' = chk /\ mode' = mode
  BY UnlinkIs DEF Unlink
<1>4. block_list' \subseteq Blocks /\ block_list' \subseteq block_list
  BY <1>1
<1>5. block_list' \cap Free' = {}
  BY <1>1 DEF Inv, ListsOK
<1>6. \A a \in block_list' : blk'[a].wp = blk[a].wp /\ blk'[a].size = blk[a].size
  BY <1>2, <1>4
<1>7. QueueOK'
  <2>1. ASSUME NEW d \in Queued'
        PROVE  /\ chk[d].block \in block_list' /\ chk[d].size > 0
               /\ chk[d].off + chk[d].size + Pad <= blk'[chk[d].block].wp
    <3>1. /\ chk[d].block \in block_list /\ chk[d].size > 0
          /\ chk[d].off + chk[d].size + Pad <= blk[chk[d].block].wp
      BY <1>3, <2>1 DEF Inv, QueueOK
    <3>2. chk[d].block \in block_list'
      <4>1. CASE chk[d].block = b
        <5>1. Held(b)' # {}
          BY <1>3, <2>1, <4>1 DEF Held
        <5> QED
          BY <3>1, <5>1
      <4>2. CASE chk[d].block # b
        BY <3>1, <4>2
      <4> QED
        BY <4>1, <4>2
    <3> QED
      BY <1>6, <3>1, <3>2
  <2> QED
    BY <1>3, <2>1 DEF QueueOK
<1>8. BlocksOK'
  <2>1. ASSUME NEW a \in block_list'
        PROVE  blk'[a].wp < blk'[a].size /\ blk'[a].count = Cardinality(Held(a)')
    <3>1. blk[a].wp < blk[a].size /\ blk[a].count = Cardinality(Held(a)) /\ a \in Blocks
      BY <1>4, <2>1 DEF Inv, BlocksOK
    <3>2. blk'[a].wp < blk'[a].size
      BY <1>6, <2>1, <3>1
    <3>3. CASE a = b
      BY <1>2, <3>2, <3>3
    <3>4. CASE a # b
      BY <1>2, <3>1, <3>2, <3>4
    <3> QED
      BY <3>3, <3>4
  <2>2. ASSUME NEW a \in Free'
        PROVE  blk'[a].count = 0 /\ (mode' = "copy" => blk'[a].wp = 0)
    <3>1. CASE a = b
      <4>1. Held(b)' = {} /\ (mode = "copy" => blk'[b].wp = 0)
        BY <1>1, <2>2, <3>1
      <4>2. blk'[b].count = 0
        BY <1>2, <4>1, FS_EmptySet
      <4> QED
        BY <1>3, <3>1, <4>1, <4>2
    <3>2. CASE a # b
      <4>1. a \in Free /\ a \in Blocks /\ blk'[a] = blk[a]
        BY <1>1, <1>2, <2>2, <3>2
      <4> QED
        BY <1>3, <4>1 DEF Inv, BlocksOK
    <3> QED
      BY <3>1, <3>2
  <2> QED
    BY <2>1, <2>2 DEF BlocksOK
<1> QED
  BY <1>4, <1>5, <1>7, <1>8

\* The sizes and handles do not change.
LEMMA LosesSizes ==
    ASSUME Inv, NEW b \in Blocks, b \in Listed, Loses(b, blk'[b].wp), Listed' \subseteq Listed
    PROVE  /\ \A a \in Blocks : blk'[a].size = blk[a].size
           /\ SizesOK' /\ HandlesOK'
<1>1. \A a \in Blocks : blk'[a].size = blk[a].size /\ blk'[a].handle = blk[a].handle
  BY DEF Loses
<1>2. Listed \subseteq Blocks
  BY QueuedChunks DEF Inv
<1>3. HandlesOK'
  BY <1>1 DEF Inv, HandlesOK
<1>4. SizesOK'
  BY <1>1, <1>2 DEF Inv, SizesOK, Loses
<1> QED
  BY <1>1, <1>3, <1>4

\* The block leaves the lists and is freed after the unlock.
LEMMA ReleaseFreesOK ==
    ASSUME Inv, Hypotheses, NEW t \in Releasers, Unlink(t), Rest, NEW b \in Blocks, b = r[t].b,
           mode = "dma" \/ Unused(b),
           block_list' = block_list \ {b}, vdec_input_del_block_locked(b),
           Loses(b, blk[b].wp), NEW rel \in RelRecords, SetR(t, rel), rel.pc = "tail",
           rel.c = r[t].c, rel.b = b, rel.kfree, UNCHANGED free_list
    PROVE  Inv'
<1>1. TypeOK /\ Free' = Free /\ b \in block_list /\ b \notin Free
  BY UnlinkIs DEF Inv, Free
<1>2. Listed' = Listed \ {b} /\ b \in Listed
  BY <1>1 DEF Listed
<1>3. Loses(b, blk'[b].wp) /\ mode' = mode
  BY DEF Loses, Unlink
<1>4. Held(b)' = {} /\ (mode = "copy" => wr_block # b)
  BY UnlinkHeld DEF Unused
<1>5. /\ SizesOK' /\ HandlesOK' /\ \A a \in Blocks : blk'[a].size = blk[a].size
  BY <1>2, <1>3, LosesSizes
<1>6. r' \in [Releasers -> RelRecords] /\ FoundOK' /\ RelsOK' /\ RelsApart'
  BY <1>2, <1>5, UnlinkRels
<1>7. QueueOK' /\ BlocksOK' /\ block_list' \subseteq Blocks /\ block_list' \cap Free' = {}
  BY <1>1, <1>3, <1>4, UnlinkBlocks
<1>8. WriterOK'
  BY <1>3, <1>4, UnlinkWriter
<1>9. BlockCountsOK' /\ input_size' \in Nat /\ block_nums' \in Nat
  <2>1. \A a \in Listed' : blk'[a].size = blk[a].size
    BY <1>1, <1>2, <1>5, QueuedChunks
  <2> QED
    BY <1>2, <2>1, CountsLess
<1>10. /\ chunk_list' \in Seq(Chunks) /\ IsInjective(chunk_list')
       /\ have_frame_num' \in Nat /\ FrameCountOK' /\ ApartOK' /\ DecOK'
  BY UnlinkIs
<1>11. ListsOK'
  BY <1>7, <1>10 DEF Inv, ListsOK
<1>12. TypeOK'
  BY <1>1, <1>3, <1>6, <1>7, <1>9, <1>10, Types, TypesAgain DEF Rest, Unlink, Loses
<1> QED
  BY <1>5, <1>6, <1>7, <1>8, <1>9, <1>10, <1>11, <1>12 DEF Inv, Rest

\* The block becomes free.
LEMMA ReleaseMovesOK ==
    ASSUME Inv, Hypotheses, NEW t \in Releasers, Unlink(t), Rest, NEW b \in Blocks, b = r[t].b,
           mode = "secure" \/ Unused(b), mode = "copy" => blk'[b].wp = 0,
           block_list' = block_list \ {b}, free_list' = Append(free_list, b),
           Loses(b, blk'[b].wp), NEW rel \in RelRecords, SetR(t, rel), rel.pc = "tail",
           rel.c = r[t].c, ~rel.kfree, UNCHANGED <<input_size, block_nums>>
    PROVE  Inv'
<1>1. TypeOK /\ b \in block_list /\ b \notin Free /\ free_list \in Seq(Blocks) /\ IsInjective(free_list)
  BY UnlinkIs, Types DEF Inv, ListsOK
<1>2. free_list' \in Seq(Blocks) /\ Free' = Free \cup {b} /\ IsInjective(free_list')
  BY <1>1, AppendRange, AppendOnce DEF Free
<1>3. Listed' = Listed /\ b \in Listed /\ mode' = mode
  BY <1>1, <1>2 DEF Listed, Unlink
<1>4. Held(b)' = {} /\ (mode = "copy" => wr_block # b)
  BY UnlinkHeld DEF Unused
<1>5. /\ SizesOK' /\ HandlesOK' /\ \A a \in Blocks : blk'[a].size = blk[a].size
  BY <1>3, LosesSizes
<1>6. r' \in [Releasers -> RelRecords] /\ FoundOK' /\ RelsOK' /\ RelsApart'
  BY <1>3, <1>5, UnlinkRels
<1>7. QueueOK' /\ BlocksOK' /\ block_list' \subseteq Blocks /\ block_list' \cap Free' = {}
  BY <1>2, <1>4, UnlinkBlocks
<1>8. WriterOK'
  BY <1>4, UnlinkWriter
<1>9. BlockCountsOK'
  BY <1>3, SizesStay DEF Loses
<1>10. /\ chunk_list' \in Seq(Chunks) /\ IsInjective(chunk_list')
       /\ have_frame_num' \in Nat /\ FrameCountOK' /\ ApartOK' /\ DecOK'
  BY UnlinkIs
<1>11. ListsOK'
  BY <1>2, <1>7, <1>10 DEF Inv, ListsOK
<1>12. TypeOK'
  BY <1>1, <1>2, <1>3, <1>6, <1>7, <1>10, Types, TypesAgain DEF Rest, Unlink, Loses
<1> QED
  BY <1>5, <1>6, <1>7, <1>8, <1>9, <1>10, <1>11, <1>12 DEF Inv, Rest

\* The block stays: it holds other frames or is being written.
LEMMA ReleaseStaysOK ==
    ASSUME Inv, Hypotheses, NEW t \in Releasers, Unlink(t), Rest, NEW b \in Blocks, b = r[t].b,
           Loses(b, blk[b].wp), NEW rel \in RelRecords, SetR(t, rel), rel.pc = "tail",
           rel.c = r[t].c, ~rel.kfree, UNCHANGED <<block_list, free_list, input_size, block_nums>>
    PROVE  Inv'
<1>1. TypeOK /\ b \in block_list /\ free_list \in Seq(Blocks) /\ Free' = Free /\ mode' = mode
  BY UnlinkIs, Types DEF Inv, Free, Unlink
<1>2. Listed' = Listed /\ b \in Listed
  BY <1>1 DEF Listed
<1>3. Loses(b, blk'[b].wp) /\ blk'[b].wp = blk[b].wp
  BY DEF Loses
<1>5. /\ SizesOK' /\ HandlesOK' /\ \A a \in Blocks : blk'[a].size = blk[a].size
  BY <1>2, <1>3, LosesSizes
<1>6. r' \in [Releasers -> RelRecords] /\ FoundOK' /\ RelsOK' /\ RelsApart'
  BY <1>2, <1>5, UnlinkRels
<1>7. QueueOK' /\ BlocksOK' /\ block_list' \subseteq Blocks /\ block_list' \cap Free' = {}
  BY <1>1, <1>3, UnlinkBlocks
<1>8. WriterOK'
  BY <1>3, UnlinkWriter
<1>9. BlockCountsOK'
  BY <1>2, SizesStay DEF Loses
<1>10. /\ chunk_list' \in Seq(Chunks) /\ IsInjective(chunk_list')
       /\ have_frame_num' \in Nat /\ FrameCountOK' /\ ApartOK' /\ DecOK'
  BY UnlinkIs
<1>11. ListsOK'
  BY <1>7, <1>10 DEF Inv, ListsOK
<1>12. TypeOK'
  BY <1>1, <1>6, <1>7, <1>10, Types, TypesAgain DEF Rest, Unlink, Loses
<1> QED
  BY <1>5, <1>6, <1>7, <1>8, <1>9, <1>10, <1>11, <1>12 DEF Inv, Rest

LEMMA ReleaseChunkOK ==
    ASSUME Inv, Hypotheses, NEW t \in Releasers, ReleaseChunk(t)
    PROVE  Inv'
<1>1. TypeOK /\ r \in [Releasers -> RelRecords] /\ r[t] \in RelRecords /\ RelOK(t)
  BY Types DEF Inv, RelsOK
<1>2. /\ r[t].pc = "rel"
      /\ UNCHANGED <<chk, wr_block, default_block_size, no_mem_err_cnt, w, dec, fails, mode>>
  BY DEF ReleaseChunk
<1>3. ~r[t].kfree
  BY <1>1, <1>2 DEF RelOK, RelRecords
<1>4. CASE /\ SetR(t, NoRel)
           /\ UNCHANGED <<blk, block_list, free_list, chunk_list, input_size, block_nums,
                          have_frame_num, unread>>
  <2>1. r'[t] = NoRel
    BY <1>1, <1>4 DEF SetR
  <2>2. RelOK(t)'
    BY <2>1, NoRelIs DEF RelOK
  <2> QED
    BY <1>2, <1>3, <1>4, <2>2, NoRelIs, RelStep DEF inputVars
<1>5. CASE /\ r[t].c \in Range(chunk_list)
           /\ chunk_list' = Without(chunk_list, {r[t].c})
           /\ have_frame_num' = have_frame_num - 1
           /\ ReleaseBlock(t, r[t].b)
           /\ unread' = (unread \/ ~chk[r[t].c].consumed)
  <2>1. Unlink(t)
    BY <1>2, <1>5 DEF Unlink, Queued
  <2>2. PICK b \in Blocks : b = r[t].b
    BY <2>1, UnlinkIs
  <2>3. Rest
    <3>1. chk[r[t].c].consumed /\ ~unread
      BY <2>1, UnlinkIs DEF Inv
    <3>2. unread' = FALSE /\ unread = FALSE
      BY <1>1, <1>5, <3>1, Types
    <3> QED
      BY <1>2, <3>2 DEF Rest
  <2>4. blk \in [Blocks -> BlockRecords] /\ blk[b].count - 1 \in Nat
    BY <1>1, <2>1, <2>2, UnlinkHeld, Types
  <2>5. PICK x, y : x = [r[t] EXCEPT !.pc = "tail", !.kfree = TRUE] /\ y = [r[t] EXCEPT !.pc = "tail"]
    OBVIOUS
  <2>6. /\ x \in RelRecords /\ x.pc = "tail" /\ x.c = r[t].c /\ x.b = b /\ x.kfree
        /\ y \in RelRecords /\ y.pc = "tail" /\ y.c = r[t].c /\ ~y.kfree
    BY <1>1, <1>3, <2>2, <2>5 DEF RelRecords
  <2>7. CASE /\ mode = "dma" \/ (Unused(b) /\ blk[b].size < default_block_size)
             /\ block_list' = block_list \ {b}
             /\ vdec_input_del_block_locked(b)
             /\ blk' = [blk EXCEPT ![b].count = @ - 1]
             /\ SetR(t, x)
             /\ UNCHANGED free_list
    <3>1. Loses(b, blk[b].wp)
      BY <2>4, <2>7 DEF Loses, BlockRecords
    <3> QED
      BY <2>1, <2>2, <2>3, <2>6, <2>7, <3>1, ReleaseFreesOK
  <2>8. CASE /\ mode = "secure" \/ (Unused(b) /\ blk[b].size >= default_block_size)
             /\ block_list' = block_list \ {b}
             /\ free_list' = Append(free_list, b)
             /\ blk' = [blk EXCEPT ![b].count = @ - 1, ![b].wp = IF mode = "copy" THEN 0 ELSE @]
             /\ SetR(t, y)
             /\ UNCHANGED <<input_size, block_nums>>
    <3>1. Loses(b, blk'[b].wp) /\ (mode = "copy" => blk'[b].wp = 0)
      BY <2>4, <2>8 DEF Loses, BlockRecords
    <3> QED
      BY <2>1, <2>2, <2>3, <2>6, <2>8, <3>1, ReleaseMovesOK
  <2>9. CASE /\ blk' = [blk EXCEPT ![b].count = @ - 1]
             /\ SetR(t, y)
             /\ UNCHANGED <<block_list, free_list, input_size, block_nums>>
    <3>1. Loses(b, blk[b].wp)
      BY <2>4, <2>9 DEF Loses, BlockRecords
    <3> QED
      BY <2>1, <2>2, <2>3, <2>6, <2>9, <3>1, ReleaseStaysOK
  <2> QED
    BY <1>5, <2>2, <2>5, <2>7, <2>8, <2>9 DEF ReleaseBlock
<1> QED
  BY <1>4, <1>5 DEF ReleaseChunk

\* After the unlock: the chunk is freed, and the block if it left the lists.
LEMMA ReleaseTailOK ==
    ASSUME Inv, NEW t \in Releasers, ReleaseTail(t)
    PROVE  Inv'
<1>1. /\ TypeOK /\ r \in [Releasers -> RelRecords] /\ r[t] \in RelRecords /\ RelOK(t)
      /\ blk \in [Blocks -> BlockRecords] /\ chk \in [Chunks -> ChunkRecords]
      /\ Queued \subseteq Chunks /\ Listed \subseteq Blocks
  BY Types, QueuedChunks DEF Inv, RelsOK
<1>2. /\ r[t].pc = "tail" /\ SetR(t, NoRel)
      /\ blk' = IF r[t].kfree THEN [blk EXCEPT ![r[t].b] = NoBlock] ELSE blk
      /\ chk' = [chk EXCEPT ![r[t].c] = NoChunk]
      /\ UNCHANGED <<block_list, free_list, chunk_list, wr_block, input_size, block_nums,
                     have_frame_num, default_block_size, no_mem_err_cnt, w, dec, fails, unread, mode>>
  BY DEF ReleaseTail, inputVars
<1>3. PICK c \in Chunks : c = r[t].c /\ c \notin Queued /\ chk[c].size > 0
  BY <1>1, <1>2 DEF RelOK
<1>4. r' \in [Releasers -> RelRecords] /\ r'[t] = NoRel /\ \A s \in Releasers : s # t => r'[s] = r[s]
  BY <1>1, <1>2, NoRelIs DEF SetR
<1>5. chk' \in [Chunks -> ChunkRecords] /\ \A d \in Chunks : d # c => chk'[d] = chk[d]
  BY <1>1, <1>2, <1>3, NoneIs
<1>6. r[t].kfree => r[t].b \in Blocks \ Listed
  BY <1>1 DEF RelOK
<1>7. /\ blk' \in [Blocks -> BlockRecords]
      /\ \A a \in Blocks : \/ blk'[a] = blk[a] /\ ~(r[t].kfree /\ a = r[t].b)
                           \/ r[t].kfree /\ a = r[t].b /\ blk'[a] = NoBlock
  <2>1. CASE r[t].kfree
    BY <1>1, <1>2, <1>6, <2>1, NoneIs
  <2>2. CASE ~r[t].kfree
    BY <1>1, <1>2, <2>2
  <2> QED
    BY <2>1, <2>2
<1>8. Queued' = Queued /\ Free' = Free /\ Listed' = Listed /\ block_list' = block_list
  BY <1>2 DEF Queued, Free, Listed
<1>9. \A a \in Listed : blk'[a] = blk[a]
  BY <1>1, <1>6, <1>7
<1>10. \A d \in Queued : chk'[d] = chk[d]
  BY <1>1, <1>3, <1>5
<1>11. \A a : Held(a)' = Held(a)
  BY <1>8, <1>10 DEF Held
<1>12. TypeOK'
  BY <1>1, <1>2, <1>4, <1>5, <1>7, Types, TypesAgain
<1>13. ListsOK' /\ FrameCountOK'
  BY <1>2, <1>8 DEF Inv, ListsOK, FrameCountOK
<1>14. SizesOK'
  BY <1>7, <1>8, <1>9 DEF Inv, SizesOK
<1>15. QueueOK'
  BY <1>8, <1>9, <1>10 DEF Inv, QueueOK, Listed
<1>16. ApartOK'
  BY <1>2, <1>8, <1>10 DEF Inv, ApartOK
<1>17. BlocksOK'
  BY <1>2, <1>8, <1>9, <1>11 DEF Inv, BlocksOK, Listed
<1>18. HandlesOK'
  BY <1>7, NoneIs DEF Inv, HandlesOK
<1>19. RelsOK'
  <2>1. ASSUME NEW s \in Releasers, s # t
        PROVE  RelOK(s)'
    <3>1. RelOK(s) /\ r'[s] = r[s]
      BY <1>4, <2>1 DEF Inv, RelsOK
    <3>2. r[s].kfree => blk'[r[s].b] = blk[r[s].b]
      <4>1. r[s].kfree /\ r[t].kfree => r[s].b # r[t].b
        BY <2>1 DEF Inv, RelsApart
      <4>2. r[s].kfree => r[s].b \in Blocks
        BY <3>1 DEF RelOK
      <4> QED
        BY <1>7, <4>1, <4>2
    <3>3. r[s].pc = "tail" => r[s].c # c
      BY <1>2, <1>3, <2>1 DEF Inv, RelsApart
    <3>4. (r[s].pc = "tail" \/ r[s].c \in Queued) /\ r[s].c \in Chunks => chk'[r[s].c] = chk[r[s].c]
      BY <1>3, <1>5, <3>3
    <3> QED
      BY <1>8, <3>1, <3>2, <3>4 DEF RelOK
  <2>2. RelOK(t)'
    BY <1>4, NoRelIs DEF RelOK
  <2> QED
    BY <2>1, <2>2 DEF RelsOK
<1>20. RelsApart'
  BY <1>4, NoRelIs DEF Inv, RelsApart
<1>21. FoundOK'
  <2>1. ASSUME NEW a \in Blocks, blk'[a].size > 0, a \notin Listed
        PROVE  \E s \in Releasers : r'[s].kfree /\ r'[s].b = a
    <3>1. blk'[a] = blk[a] /\ ~(r[t].kfree /\ a = r[t].b)
      BY <1>7, <2>1, NoneIs
    <3>2. PICK s \in Releasers : r[s].kfree /\ r[s].b = a
      BY <2>1, <3>1 DEF Inv, FoundOK
    <3> QED
      BY <1>4, <3>1, <3>2
  <2> QED
    BY <1>8, <2>1 DEF FoundOK
<1>22. WriterOK'
  BY <1>2, <1>8, <1>9, <1>11 DEF Inv, WriterOK, Listed
<1>23. DecOK'
  BY <1>2, <1>8, <1>10 DEF Inv, DecOK
<1>24. BlockCountsOK'
  <2>1. Bytes(Listed)' = Bytes(Listed)
    BY <1>8, <1>9, BytesAre, BytesSame
  <2> QED
    BY <1>2, <1>8, <2>1 DEF Inv, BlockCountsOK
<1> QED
  BY <1>2, <1>12, <1>13, <1>14, <1>15, <1>16, <1>17, <1>18, <1>19, <1>20, <1>21, <1>22, <1>23, <1>24
     DEF Inv

-----------------------------------------------------------------------------
(* Life cycle *)

\* A list of all members of S with as many places as S has members repeats
\* none.
LEMMA Enumeration ==
    ASSUME NEW S, IsFiniteSet(S), NEW l \in [1..Cardinality(S) -> S], Range(l) = S
    PROVE  l \in Seq(S) /\ IsInjective(l)
<1>1. PICK n \in Nat : n = Cardinality(S)
  BY FS_CardinalityType
<1>2. IsFiniteSet(1..n) /\ Cardinality(1..n) = Cardinality(S)
  BY <1>1, CountedTo
<1>3. l \in Surjection(1..n, S)
  BY <1>1 DEF Surjection, Range
<1>4. l \in Injection(1..n, S)
  BY <1>2, <1>3, FS_SurjSameCardinalityImpliesInj
<1>5. IsInjective(l)
  BY <1>1, <1>4 DEF Injection, IsInjective
<1>6. l \in Seq(S)
  BY <1>1
<1> QED
  BY <1>5, <1>6

\* Only prepared blocks, all of them free, and threads at rest
Fresh ==
    /\ TypeOK /\ Free = alive /\ IsInjective(free_list) /\ block_list = {} /\ chunk_list = <<>>
    /\ \A b \in alive : blk[b] = [NoBlock EXCEPT !.size = BlockSize]
    /\ mode = "copy" => wr_block = Null
    /\ w.pc = "idle" /\ dec = Null /\ ~unread
    /\ \A t \in Releasers : r[t] = NoRel
    /\ have_frame_num = 0 /\ input_size = Cardinality(alive) * BlockSize
    /\ block_nums = Cardinality(alive)

LEMMA FreshBlock ==
    ASSUME NEW x, x = [NoBlock EXCEPT !.size = BlockSize]
    PROVE  /\ x \in BlockRecords /\ x.size = BlockSize /\ x.wp = 0 /\ x.count = 0 /\ x.handle = Null
           /\ x # NoBlock
<1>1. /\ x \in BlockRecords /\ x.size = BlockSize /\ x.wp = 0 /\ x.count = 0 /\ x.handle = Null
  BY Numbers DEF NoBlock, BlockRecords
<1>2. x # NoBlock
  <2>1. PICK m, n : m = x.size /\ n = NoBlock.size
    OBVIOUS
  <2>2. m # n
    BY <1>1, <2>1, Numbers, NoneIs
  <2> QED
    BY <2>1, <2>2, Zenon
<1> QED
  BY <1>1, <1>2

LEMMA FreshOK ==
    ASSUME Fresh
    PROVE  Inv
<1>1. /\ TypeOK /\ Free = alive /\ IsInjective(free_list) /\ block_list = {} /\ chunk_list = <<>>
      /\ mode = "copy" => wr_block = Null
      /\ w.pc = "idle" /\ dec = Null /\ ~unread
      /\ \A t \in Releasers : r[t] = NoRel
      /\ have_frame_num = 0 /\ input_size = Cardinality(alive) * BlockSize
      /\ block_nums = Cardinality(alive)
  BY DEF Fresh
<1>2. Queued = {} /\ Listed = alive
  BY <1>1 DEF Queued, Listed, Range
<1>3. /\ \A b \in alive : /\ blk[b].size = BlockSize /\ blk[b].wp = 0 /\ blk[b].count = 0
                          /\ blk[b].handle = Null
      /\ \A b \in Blocks \ alive : blk[b] = NoBlock
      /\ alive \subseteq Blocks
  BY FreshBlock DEF Fresh, alive
<1>4. ListsOK
  BY <1>1 DEF ListsOK, IsInjective
<1>5. SizesOK
  BY <1>2, <1>3, Numbers DEF SizesOK
<1>6. QueueOK /\ ApartOK /\ DecOK
  BY <1>1, <1>2 DEF QueueOK, ApartOK, DecOK
<1>7. BlocksOK
  BY <1>1, <1>3 DEF BlocksOK
<1>8. HandlesOK
  BY <1>3, NoneIs DEF HandlesOK
<1>9. FoundOK
  BY <1>2, <1>3, NoneIs DEF FoundOK
<1>10. RelsOK /\ RelsApart
  BY <1>1, NoRelIs DEF RelsOK, RelOK, RelsApart
<1>11. WriterOK
  BY <1>1 DEF WriterOK
<1>12. FrameCountOK
  BY <1>1 DEF FrameCountOK
<1>13. BlockCountsOK
  <2>1. IsFiniteSet(alive)
    BY <1>3, AddressAssumption, FS_Subset
  <2>2. /\ IsFiniteSet(BytesOf(blk, alive))
        /\ Cardinality(BytesOf(blk, alive)) = Cardinality(alive) * BlockSize
    BY <1>3, <2>1, BytesEven, Numbers
  <2> QED
    BY <1>1, <1>2, <2>2, BytesAre DEF BlockCountsOK
<1> QED
  BY <1>1, <1>4, <1>5, <1>6, <1>7, <1>8, <1>9, <1>10, <1>11, <1>12, <1>13 DEF Inv

LEMMA FreshImplies == Fresh => Inv
BY FreshOK

LEMMA FreshAgain == Fresh' => Inv'
BY FreshImplies, PTL

\* The blocks in bs and no others
LEMMA PrepareIs ==
    ASSUME NEW bs \in SUBSET Blocks
    PROVE  /\ Prepare(bs) \in [Blocks -> BlockRecords]
           /\ {b \in Blocks : Prepare(bs)[b] # NoBlock} = bs
           /\ \A b \in bs : Prepare(bs)[b] = [NoBlock EXCEPT !.size = BlockSize]
           /\ IsFiniteSet(bs) /\ Cardinality(bs) \in Nat /\ Cardinality(bs) * BlockSize \in Nat
<1>1. PICK x : x = [NoBlock EXCEPT !.size = BlockSize] /\ x \in BlockRecords /\ x # NoBlock
  BY FreshBlock
<1>2. Prepare(bs) = [b \in Blocks |-> IF b \in bs THEN x ELSE NoBlock]
  BY <1>1 DEF Prepare
<1>3. IsFiniteSet(bs)
  BY AddressAssumption, FS_Subset
<1>4. PICK n \in Nat : n = Cardinality(bs)
  BY <1>3, FS_CardinalityType
<1>5. n * BlockSize \in Nat
  BY Numbers
<1> QED
  BY <1>1, <1>2, <1>3, <1>4, <1>5, NoneIs

LEMMA InitOK ==
    ASSUME Init
    PROVE  Inv
<1>1. PICK bs \in SUBSET Blocks : blk = Prepare(bs)
  BY DEF Init
<1>2. /\ blk \in [Blocks -> BlockRecords] /\ alive = bs
      /\ \A b \in bs : blk[b] = [NoBlock EXCEPT !.size = BlockSize]
      /\ IsFiniteSet(bs) /\ Cardinality(bs) \in Nat /\ Cardinality(bs) * BlockSize \in Nat
  BY <1>1, PrepareIs DEF alive
<1>3. free_list \in [1..Cardinality(bs) -> bs] /\ Range(free_list) = bs
  BY <1>2 DEF Init
<1>4. free_list \in Seq(bs) /\ IsInjective(free_list)
  BY <1>2, <1>3, Enumeration
<1>5. free_list \in Seq(Blocks)
  BY <1>4
<1>6. chk \in [Chunks -> ChunkRecords]
  BY NoneIs DEF Init
<1>7. r \in [Releasers -> RelRecords] /\ \A t \in Releasers : r[t] = NoRel
  BY NoRelIs DEF Init
<1>8. w \in WriterRecords /\ w.pc = "idle"
  BY DEF Init, WriterRecords, WriterPcs
<1>9. fails \in 0..MaxFails /\ chunk_list \in Seq(Chunks) /\ default_block_size \in Nat
  BY Numbers DEF Init
<1>10. TypeOK
  BY <1>2, <1>5, <1>6, <1>7, <1>8, <1>9, Types DEF Init
<1>11. Fresh
  BY <1>2, <1>3, <1>4, <1>7, <1>8, <1>10 DEF Init, Fresh, Free
<1> QED
  BY <1>11, FreshOK

LEMMA ResetOK ==
    ASSUME Inv, Hypotheses, Reset
    PROVE  Inv'
<1>1. TypeOK /\ FrameCountOK /\ ~unread /\ chunk_list \in Seq(Chunks)
  BY Types DEF Inv
<1>2. PICK bs \in SUBSET Blocks : vdec_input_prepare_bufs(bs)
  BY DEF Reset
<1>3. /\ w.pc = "idle" /\ dec = Null /\ \A t \in Releasers : r[t].pc = "idle"
      /\ block_list' = {} /\ chunk_list' = <<>> /\ have_frame_num' = have_frame_num - Len(chunk_list)
      /\ default_block_size' = BlockSize /\ chk' = [c \in Chunks |-> NoChunk]
      /\ UNCHANGED <<no_mem_err_cnt, w, dec, r, unread, mode>>
  BY DEF Reset
<1>4. /\ blk' \in [Blocks -> BlockRecords] /\ alive' = bs
      /\ \A b \in bs : blk'[b] = [NoBlock EXCEPT !.size = BlockSize]
      /\ IsFiniteSet(bs) /\ Cardinality(bs) \in Nat /\ Cardinality(bs) * BlockSize \in Nat
  <2>1. PICK k : k = Prepare(bs)
    OBVIOUS
  <2>2. blk' = k
    BY <1>2, <2>1 DEF vdec_input_prepare_bufs
  <2>3. alive' = {b \in Blocks : k[b] # NoBlock}
    BY <2>2 DEF alive
  <2> QED
    BY <2>1, <2>2, <2>3, PrepareIs
<1>5. free_list' \in [1..Cardinality(bs) -> bs] /\ Range(free_list') = bs
  BY <1>2 DEF vdec_input_prepare_bufs
<1>6. free_list' \in Seq(bs) /\ IsInjective(free_list')
  BY <1>4, <1>5, Enumeration
<1>7. free_list' \in Seq(Blocks) /\ Free' = bs
  BY <1>5, <1>6 DEF Free
<1>8. chk' \in [Chunks -> ChunkRecords] /\ chunk_list' \in Seq(Chunks)
  BY <1>3, NoneIs
<1>9. have_frame_num' = 0
  BY <1>1, <1>3 DEF FrameCountOK
<1>10. fails' \in 0..MaxFails
  BY <1>1, <1>2, Types, Numbers DEF vdec_input_prepare_bufs
<1>11. mode = "copy" => wr_block' = Null
  <2>1. ASSUME mode = "copy", bs = {}
        PROVE  FALSE
    <3>1. Cardinality(bs) = 0
      BY <2>1, FS_EmptySet
    <3> QED
      BY <1>2, <2>1, <3>1, Numbers DEF vdec_input_prepare_bufs, Hypotheses
  <2> QED
    BY <1>2, <2>1 DEF vdec_input_prepare_bufs
<1>12. wr_block' \in Blocks \cup {Null}
  BY <1>1, <1>2, Types DEF vdec_input_prepare_bufs
<1>13. input_size' = Cardinality(bs) * BlockSize /\ block_nums' = Cardinality(bs)
  BY <1>2 DEF vdec_input_prepare_bufs
<1>14. TypeOK'
  <2>1. default_block_size' \in Nat /\ have_frame_num' \in Nat /\ block_list' \subseteq Blocks
    BY <1>3, <1>9, Numbers
  <2> QED
    BY <1>1, <1>3, <1>4, <1>7, <1>8, <1>10, <1>12, <1>13, <2>1, Types, TypesAgain
<1>15. \A t \in Releasers : r'[t] = NoRel
  BY <1>3 DEF Inv, RelsOK, RelOK
<1>16. Fresh'
  BY <1>1, <1>3, <1>4, <1>6, <1>7, <1>9, <1>11, <1>13, <1>14, <1>15 DEF Fresh
<1> QED
  BY <1>16, FreshAgain

-----------------------------------------------------------------------------
(* The invariant gives the properties *)

LEMMA InvSizes ==
    ASSUME Inv
    PROVE  /\ Listed \subseteq alive /\ alive \subseteq Blocks
           /\ \A b \in alive : blk[b].size > 0
<1>1. Listed \subseteq Blocks
  BY QueuedChunks DEF Inv
<1> QED
  BY <1>1, NoneIs DEF Inv, SizesOK, alive

LEMMA InvCounts ==
    ASSUME Inv
    PROVE  CountsExact
<1>1. Range(chunk_list) = Queued /\ Range(free_list) = Free /\ block_list \cup Free = Listed
  BY DEF Queued, Free, Listed
<1>2. \A b \in block_list : blk[b].count = Cardinality({c \in Queued : chk[c].block = b})
  BY DEF Inv, BlocksOK, Held
<1> QED
  BY <1>1, <1>2 DEF Inv, CountsExact, FrameCountOK, BlockCountsOK, ListsOK

LEMMA InvHandles ==
    ASSUME Inv
    PROVE  HandleExact
<1>1. Range(free_list) = Free /\ block_list \cup Free = Listed
  BY DEF Free, Listed
<1>2. \A a, b \in alive : (a # b /\ blk[a].handle = blk[b].handle) => blk[a].handle = Null
  BY InvSizes DEF Inv, HandlesOK
<1>3. \A b \in alive : b \in Listed \/ \E t \in Releasers : r[t].pc = "tail" /\ r[t].b = b /\ r[t].kfree
  BY InvSizes DEF Inv, FoundOK, RelsOK, RelOK
<1>4. \A b \in Listed : b \in alive
  BY InvSizes
<1>5. \A i, j \in DOMAIN free_list : free_list[i] = free_list[j] => i = j
  BY DEF Inv, ListsOK, IsInjective
<1> QED
  BY <1>1, <1>2, <1>3, <1>4, <1>5 DEF HandleExact

\* The bytes of a queued chunk
Region(c) == [b |-> chk[c].block, from |-> chk[c].off, to |-> chk[c].off + chk[c].size + Pad]

\* The bytes the writer copies to
Copying == [b |-> w.b, from |-> blk[w.b].wp, to |-> blk[w.b].wp + w.n + Pad]

LEMMA InvRegions ==
    ASSUME Inv
    PROVE  /\ \A c \in Queued : Region(c).b \in alive /\ Region(c).to <= blk[Region(c).b].size
           /\ \A c, d \in Queued : (c # d /\ Region(c).b = Region(d).b) =>
                 Region(c).to <= Region(d).from \/ Region(d).to <= Region(c).from
           /\ \A c \in Queued : Region(c).from < Region(c).to
           /\ w.pc = "fill" => /\ Copying.b \in alive /\ Copying.to <= blk[Copying.b].size
                               /\ Copying.from < Copying.to
                               /\ \A c \in Queued : Region(c).b = Copying.b => Region(c).to <= Copying.from
<1>1. /\ \A c \in Queued : /\ Region(c).b = chk[c].block /\ Region(c).from = chk[c].off
                           /\ Region(c).to = chk[c].off + chk[c].size + Pad
      /\ Copying.b = w.b /\ Copying.from = blk[w.b].wp /\ Copying.to = blk[w.b].wp + w.n + Pad
  BY DEF Region, Copying
<1>2. TypeOK /\ Queued \subseteq Chunks /\ block_list \subseteq alive /\ alive \subseteq Blocks
  BY InvSizes, QueuedChunks DEF Inv, Listed
<1>3. ASSUME NEW c \in Queued
      PROVE  /\ Region(c).b \in alive /\ Region(c).to <= blk[Region(c).b].size
             /\ Region(c).from < Region(c).to
  <2>1. PICK b \in Blocks : b = chk[c].block /\ b \in block_list
    BY <1>2 DEF Inv, QueueOK
  <2>2. PICK o \in Nat, z \in Nat, p \in Nat, s \in Nat :
           o = chk[c].off /\ z = chk[c].size /\ p = blk[b].wp /\ s = blk[b].size
    BY <1>2, ChunkIs, BlockIs
  <2>3. o + z + Pad <= p /\ p < s /\ z > 0
    BY <2>1, <2>2 DEF Inv, QueueOK, BlocksOK
  <2>4. o + z + Pad <= s /\ o < o + z + Pad
    BY <2>3, Numbers
  <2> QED
    BY <1>1, <1>2, <2>1, <2>2, <2>4
<1>4. \A c, d \in Queued : (c # d /\ Region(c).b = Region(d).b) =>
         Region(c).to <= Region(d).from \/ Region(d).to <= Region(c).from
  BY <1>1 DEF Inv, ApartOK
<1>5. ASSUME w.pc = "fill"
      PROVE  /\ Copying.b \in alive /\ Copying.to <= blk[Copying.b].size
             /\ Copying.from < Copying.to
             /\ \A c \in Queued : Region(c).b = Copying.b => Region(c).to <= Copying.from
  <2>1. PICK b \in Blocks : b = w.b /\ b \in alive
    BY <1>2, <1>5 DEF Inv, WriterOK
  <2>2. PICK n \in Nat, p \in Nat, s \in Nat : n = w.n /\ p = blk[b].wp /\ s = blk[b].size
    BY <1>2, FrameIs, BlockIs
  <2>3. p + n + Pad < s
    BY <1>5, <2>1, <2>2 DEF Inv, WriterOK
  <2>4. p + n + Pad <= s /\ p < p + n + Pad
    BY <2>3, Numbers
  <2>5. \A c \in Queued : chk[c].block = w.b => chk[c].off + chk[c].size + Pad <= blk[w.b].wp
    BY DEF Inv, QueueOK
  <2> QED
    BY <1>1, <2>1, <2>2, <2>4, <2>5
<1> QED
  BY <1>3, <1>4, <1>5

\* As many regions as frames: two frames that shared a byte would show.
LEMMA InvDisjoint ==
    ASSUME Inv
    PROVE  ChunksDisjoint
<1>1. PICK R : R = {Region(c) : c \in Queued}
  OBVIOUS
<1>2. Regions = R \cup IF w.pc = "fill" THEN {Copying} ELSE {}
  BY <1>1 DEF Regions, Region, Copying, Queued
<1>3. /\ \A x \in R : x.b \in alive /\ x.to <= blk[x.b].size
      /\ w.pc = "fill" => Copying.b \in alive /\ Copying.to <= blk[Copying.b].size
  BY <1>1, InvRegions
<1>4. \A x, y \in R : (x # y /\ x.b = y.b) => (x.to <= y.from \/ y.to <= x.from)
  BY <1>1, InvRegions
<1>5. w.pc = "fill" => \A x \in R : x.b = Copying.b => x.to <= Copying.from
  BY <1>1, InvRegions
<1>6. \A x \in Regions : x.b \in alive /\ x.to <= blk[x.b].size
  BY <1>2, <1>3
<1>7. \A x, y \in Regions : (x # y /\ x.b = y.b) => (x.to <= y.from \/ y.to <= x.from)
  BY <1>2, <1>4, <1>5
<1>8. IsFiniteSet(R) /\ Cardinality(R) = Len(chunk_list)
  <2>1. TypeOK /\ chunk_list \in Seq(Chunks) /\ IsInjective(chunk_list) /\ Queued \subseteq Chunks
    BY Types, QueuedChunks DEF Inv, ListsOK
  <2>2. IsFiniteSet(Queued) /\ Cardinality(Queued) = Len(chunk_list)
    BY <2>1, LengthIsCardinality DEF Queued
  <2>3. PICK f : f = [c \in Queued |-> Region(c)]
    OBVIOUS
  <2>4. f \in Surjection(Queued, R)
    BY <1>1, <2>3 DEF Surjection
  <2>5. ASSUME NEW c \in Queued, NEW d \in Queued, Region(c) = Region(d)
        PROVE  c = d
    <3>1. PICK o \in Nat, q \in Nat : o = chk[c].off /\ q = Region(c).to
      <4>1. chk[c].off \in Nat /\ chk[c].size \in Nat
        BY <2>1, ChunkIs
      <4> QED
        BY <4>1, Numbers DEF Region
    <3>2. Region(c).from = o /\ o < q
      BY <3>1, InvRegions DEF Region
    <3>3. c # d => Region(c).to <= Region(c).from
      BY <2>5, InvRegions
    <3> QED
      BY <3>1, <3>2, <3>3
  <2>6. f \in Injection(Queued, R)
    <3>1. f \in [Queued -> R] /\ \A c \in Queued : f[c] = Region(c)
      BY <1>1, <2>3
    <3> QED
      BY <2>5, <3>1 DEF Injection, IsInjective
  <2> QED
    BY <2>2, <2>4, <2>6, FS_Surjection
<1>9. Cardinality(Regions) = Len(chunk_list) + (IF w.pc = "fill" THEN 1 ELSE 0)
  <2>1. CASE w.pc = "fill"
    <3>1. Copying \notin R
      <4>1. ASSUME Copying \in R
            PROVE  FALSE
        <5>1. Copying.to <= Copying.from /\ Copying.from < Copying.to
          BY <1>5, <2>1, <4>1, InvRegions
        <5>2. PICK n \in Nat, p \in Nat : n = Copying.from /\ p = Copying.to
          <6>1. w.b \in Blocks /\ w.n \in Nat
            BY <2>1, FrameIs, InvSizes DEF Inv, WriterOK, Listed
          <6>2. blk[w.b].wp \in Nat
            BY <6>1, BlockIs DEF Inv
          <6> QED
            BY <6>1, <6>2, Numbers DEF Copying
        <5> QED
          BY <5>1, <5>2
      <4> QED
        BY <4>1
    <3>2. Regions = R \cup {Copying}
      BY <1>2, <2>1
    <3> QED
      BY <1>8, <2>1, <3>1, <3>2, FS_AddElement
  <2>2. CASE w.pc # "fill"
    <3>1. Regions = R /\ Len(chunk_list) \in Nat
      BY <1>2, <2>2, Types DEF Inv
    <3> QED
      BY <1>8, <2>2, <3>1
  <2> QED
    BY <2>1, <2>2
<1>10. /\ wr_block # Null /\ mode = "copy" => wr_block \in block_list
       /\ w.pc \in {"fill", "recycle"} => w.b = wr_block /\ w.b \in block_list
  BY DEF Inv, WriterOK
<1> QED
  BY <1>6, <1>7, <1>9, <1>10 DEF ChunksDisjoint

-----------------------------------------------------------------------------
(* The theorems *)

LEMMA InvNext ==
    ASSUME Inv, Hypotheses, [Next]_vars
    PROVE  Inv'
<1>1. CASE UNCHANGED vars
  BY <1>1, StutterOK
<1>2. CASE Writer
  BY <1>2, AddChunkOK, RecycleOK, GetFreeBlockOK, AllocRefusedOK, AllocBlockOK, AllocFailsOK,
     AddDmaChunkOK, FillDoneOK DEF Writer
<1>3. CASE Decoder
  BY <1>3, PrepareInputOK, VframeDirtyOK DEF Decoder
<1>4. CASE \E t \in Releasers : Releaser(t)
  BY <1>4, NextChunkOK, TestConsumedOK, ReleaseChunkOK, ReleaseTailOK DEF Releaser
<1>5. CASE GetFreedHandle
  BY <1>5, GetFreedHandleOK
<1>6. CASE Reset
  BY <1>6, ResetOK
<1> QED
  BY <1>1, <1>2, <1>3, <1>4, <1>5, <1>6 DEF Next

\* The state of the input, of its writer, its decoder and its releasers, is
\* consistent between any two sections under the lock.
THEOREM Invariance == Hypotheses => (Spec => []Inv)
<1> SUFFICES ASSUME Hypotheses PROVE Spec => []Inv
  OBVIOUS
<1>1. Init => Inv
  BY InitOK
<1>2. Inv /\ [Next]_vars => Inv'
  BY InvNext
<1> QED
  BY <1>1, <1>2, PTL DEF Spec

\* Every variable of vdec_input.c keeps its type: no count becomes negative,
\* and no list holds what is not an address.
THEOREM TypeCorrect == Hypotheses => (Spec => []TypeOK)
<1>1. Inv => TypeOK
  BY DEF Inv
<1> QED
  BY <1>1, Invariance, PTL

\* No queued frame is overwritten before its release (vframe_chunk_fill copies
\* behind all of them), every frame lies in its block, and the block
\* vdec_input_add_chunk writes is never recycled under it.
THEOREM FramesStayIntact == Hypotheses => (Spec => []ChunksDisjoint)
<1>1. Inv => ChunksDisjoint
  BY InvDisjoint
<1> QED
  BY <1>1, Invariance, PTL

\* have_frame_num, block_nums, size and the chunk counts of the blocks are those
\* of the lists, whatever the order of writer and releasers.
THEOREM AccountsAreExact == Hypotheses => (Spec => []CountsExact)
<1>1. Inv => CountsExact
  BY InvCounts
<1> QED
  BY <1>1, Invariance, PTL

\* No buffer of the application is known twice, and none is lost: it is listed
\* or vdec_input_release_chunk is about to free it.
THEOREM BuffersAreKnown == Hypotheses => (Spec => []HandleExact)
<1>1. Inv => HandleExact
  BY InvHandles
<1> QED
  BY <1>1, Invariance, PTL

\* "2 threads go here, the other done the deletion,so return": with any number
\* of releasers only frames the decoder consumed leave the queue.
THEOREM ReleasedWereConsumed == Hypotheses => (Spec => []OnlyConsumedLeave)
<1>1. Inv => OnlyConsumedLeave
  BY DEF Inv, OnlyConsumedLeave
<1> QED
  BY <1>1, Invariance, PTL
=============================================================================
