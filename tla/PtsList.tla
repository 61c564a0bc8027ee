------------------------------ MODULE PtsList -------------------------------
(***************************************************************************)
(* One instance of the presentation time stamp server                      *)
(* (media_sync/pts_server/pts_server_core.c): a list of nodes, each the    *)
(* stream offset where a frame starts and its time stamp, filled by the    *)
(* side that writes the stream and searched by the decoder's offset.       *)
(*                                                                         *)
(* Offsets and counters are u32, here modulo W; time stamps are u64, here  *)
(* modulo P, and the fields that keep only 32 bits of one are modulo P32.  *)
(* pts_90k and the 32-bit twins of the durations carry the same time in    *)
(* another unit and are left out: a u32 widened into pts_90k never equals  *)
(* a 64-bit -1, so the code's tests for that value never hold.  So are the *)
(* fields only logged.  A call here is one section under mListLock.        *)
(***************************************************************************)
EXTENDS Integers, SequencesExt, Lists

CONSTANTS
    W, P, P32,
    MaxCount,       \* mMaxCount
    Threshold,      \* mLookupThreshold, in offsets
    Expired,        \* MAX_EXPIRED_COUNT
    Retry,          \* MAX_CHECKOUT_RETRY_COUNT
    Tries,          \* nodes looked at after a hit in the other searches (5)
    FirstDiff,      \* offsets searched when nothing was checked out yet (10000)
    OffsetNear,     \* offsets of a fit by time stamp (50000)
    OutOfBuffer,    \* offsets that cannot be in the buffer any more (251658240)
    Near, Far,      \* distance of two frames in time: more than Near, less than Far
    Rewind,         \* DEFAULT_REWIND_PTS_THRESHOLD
    RewindIndex,    \* DEFAULT_REWIND_INDEX_THRESHOLD
    MaxDuration,    \* the longest frame duration believed (100000)
    DoubleCheck,    \* kDoubleCheckThreshold
    None

ASSUME WidthAssumption ==
    /\ {W, P, P32} \subseteq Nat /\ W > 1 /\ P32 > 1 /\ P32 <= P
    /\ W % 2 = 0 /\ P % 2 = 0
ASSUME LimitAssumption ==
    /\ {Threshold, Expired, Retry, Tries, FirstDiff, OffsetNear, OutOfBuffer, Near, Far, Rewind,
        RewindIndex, MaxDuration, DoubleCheck} \subseteq Nat
    /\ MaxCount \in Nat \ {0}
    /\ Threshold <= OutOfBuffer /\ OutOfBuffer < W \div 2 /\ Expired < W

Offsets == 0..(W - 1)
NoOffset == W - 1
MinusOne == P - 1

\* abs() of a difference of two u32
Dist(a, b) == LET d == (a - b) % W IN IF d >= W \div 2 THEN W - d ELSE d
\* a difference of two u64, and its get_llabs
Later(a, b) == (a - b) % P
PtsDist(a, b) == LET d == Later(a, b) IN IF d >= P \div 2 THEN P - d ELSE d

\* ptsserver_ins_init_syncinfo with n nodes, none when vmalloc fails
NewIns(id, n) ==
    [id |-> id, ref |-> 1, nodes |-> n, free |-> n, list |-> <<>>, size |-> 0,
     dropIndex |-> 0, index |-> 0, pieceOffset |-> 0, pieceSize |-> 0, align |-> 0,
     inPts |-> 0, inCount |-> 0, inStarted |-> FALSE, firstPts |-> 0,
     started |-> FALSE, fails |-> 0, frameDur |-> 0, doubleDur |-> 0, doubleCount |-> 0,
     doublePts |-> 0, decDur |-> 0, outPts |-> 0, peekPts |-> 0, curOffset |-> 0,
     notFirst |-> FALSE, trick |-> FALSE, c2 |-> FALSE, offsetMode |-> FALSE,
     sticky |-> FALSE, margin |-> 0]

\* ptsserver_ins_reset: the nodes go back to the free list one by one
Reset(i) ==
    [NewIns(i.id, i.nodes) EXCEPT
        !.ref = i.ref, !.free = i.free + Len(i.list), !.dropIndex = i.dropIndex,
        !.index = i.index, !.peekPts = i.peekPts]

\* Fault: the count of the list is not taken down
Freed_Counted(i, keep) == [i EXCEPT !.list = keep, !.free = @ + Len(i.list) - Len(keep)]

\* list_del, list_add_tail to pts_free_list and mListSize--, of all nodes not in keep
Freed(i, keep) ==
    LET k == Len(i.list) - Len(keep)
    IN  [i EXCEPT !.list = keep, !.free = @ + k, !.size = @ - k]

Unlinked(i, n) == Freed(i, Without(i.list, {m \in ToSet(i.list) : m.index = n.index}))

-----------------------------------------------------------------------------
(* Check-in. *)

\* The nodes up to mLastDropIndex, which grows with each of them, and the others
DropStep(acc, n) ==
    IF n.index <= acc.drop THEN [acc EXCEPT !.drop = @ + 1]
    ELSE [acc EXCEPT !.keep = Append(@, n)]

Droppable(i) == Walk(DropStep, [keep |-> <<>>, drop |-> i.dropIndex], i.list)

\* Fault: at the limit nothing is recycled when no node is below mLastDropIndex
Recycle_IndexOnly(i) ==
    LET all == Droppable(i)
    IN  IF i.size < MaxCount THEN i ELSE [Freed(i, all.keep) EXCEPT !.dropIndex = all.drop]

\* At the limit: what can be dropped, or else the first node
Recycle(i) ==
    LET all == Droppable(i)
    IN  IF i.size < MaxCount THEN i
        ELSE IF all.drop = i.dropIndex THEN Freed(i, Tail(i.list))
        ELSE [Freed(i, all.keep) EXCEPT !.dropIndex = all.drop]

\* where pts_list is left to insert n before m
Before(i, n, m) ==
    IF i.c2 THEN m.pts >= n.pts
    ELSE IF n.pts # MinusOne
    THEN /\ n.pts <= m.pts
         /\ PtsDist(n.pts, m.pts) < Rewind
         /\ Dist(n.index, m.index) < RewindIndex
    ELSE n.offset <= m.offset

Inserted(i, n) ==
    LET k == SelectInSeq(i.list, LAMBDA m : Before(i, n, m))
    IN  InsertAt(i.list, IF k = 0 THEN Len(i.list) + 1 ELSE k, n)

\* mAlignmentOffset is added once, after the check-in it was set for
Aligned(i) == [i EXCEPT !.pieceOffset = (@ + i.align) % W, !.align = 0]

\* Fault: a piece without a head is not counted
Piece_HeadOnly(i, size, isOffset) ==
    IF i.size = 0 THEN i
    ELSE [Aligned([i EXCEPT !.pieceOffset = IF isOffset THEN size ELSE (@ + i.pieceSize) % W])
            EXCEPT !.pieceSize = size]

\* a piece without a time stamp of its own (pts = 0), after Recycle
Piece(i, size, isOffset) ==
    LET i2 == [i EXCEPT !.pieceOffset = IF isOffset THEN size ELSE (@ + i.pieceSize) % W]
    IN  [(IF i.size = 0 THEN i2 ELSE Aligned(i2)) EXCEPT !.pieceSize = size]

\* a piece with a time stamp, after Recycle; without a free node it fails
Head_(i, size, pts, isOffset) ==
    LET offset == IF isOffset THEN size ELSE (i.pieceOffset + i.pieceSize) % W
        back == pts < i.inPts /\ PtsDist(pts, i.inPts) > Rewind
        n == [offset |-> offset, pts |-> pts, expired |-> Expired, count |-> i.inCount,
              index |-> i.index]
        i2 == [i EXCEPT !.pieceOffset = offset]
    IN  IF i.free = 0 THEN i2
        ELSE [Aligned(i2) EXCEPT
                !.free = @ - 1, !.index = (@ + 1) % W, !.list = Inserted(i, n), !.size = @ + 1,
                !.inCount = IF back THEN (@ + 1) % W ELSE @, !.inPts = pts % P32,
                !.pieceSize = size]

\* ptsserver_checkin_pts_size
CheckinPts(i, size, pts, isOffset) ==
    IF pts = 0 THEN Piece(Recycle(i), size, isOffset) ELSE Head_(Recycle(i), size, pts, isOffset)

\* ptsserver_checkin_apts_size; index only names the node here
CheckinApts(i, offset, pts) ==
    LET i2 == IF i.size >= MaxCount THEN Freed(i, Tail(i.list)) ELSE i
        n == [offset |-> offset, pts |-> pts, expired |-> 0, count |-> 0, index |-> i2.index]
    IN  IF i2.free = 0 THEN i2
        ELSE [i2 EXCEPT !.free = @ - 1, !.list = Append(@, n), !.size = @ + 1,
                        !.index = (@ + 1) % W,
                        !.firstPts = IF i2.inStarted THEN @ ELSE pts % P32,
                        !.inStarted = TRUE, !.align = 0, !.inPts = pts % P32]

-----------------------------------------------------------------------------
(* Check-out of a video frame. *)

\* Fault: a node above the offset counts as well
Past_Any(cur, n) == TRUE

Past(cur, n) == cur > n.offset

\* A node behind the last check-out loses one of its lives when the search passes it
Aged(i, cur, n) ==
    IF (n.offset = NoOffset \/ n.offset < cur) /\ n.pts < i.outPts
    THEN [n EXCEPT !.expired = (@ - 1) % W] ELSE n

IsKey(i, acc, n) ==
    /\ ~i.offsetMode
    /\ n.pts >= i.outPts
    /\ n.pts <= acc.expPts \/ acc.expPts = i.outPts

IsFitPts(i, acc, n, d) ==
    /\ acc.fitPts = None /\ i.outPts > 0 /\ d < OffsetNear
    /\ Later(n.pts, i.outPts) > Near /\ Later(n.pts, i.outPts) < Far

\* The candidates with node n, d away from the offset.  key: find_ptn; fitOffset and
\* fitPts: by offset and by time stamp, num: find_frame_num; first..: is it the
\* list's first node?  below: n is within the threshold below the offset.
Candidates(i, acc, n, d, past) ==
    LET below == d <= Threshold /\ past
        isKey == below /\ IsKey(i, acc, n)
        isFitPts == IsFitPts(i, acc, n, d)
        fits == below /\ d <= acc.diff
    IN  [acc EXCEPT
            !.key = IF isKey THEN n ELSE @, !.expPts = IF isKey THEN n.pts ELSE @,
            !.keyFirst = IF isKey THEN acc.visited = 0 ELSE @,
            !.fitPts = IF isFitPts THEN n ELSE @,
            !.firstPts = IF isFitPts THEN acc.visited = 0 ELSE @,
            !.fitOffset = IF fits THEN n ELSE @, !.diff = IF fits THEN d ELSE @,
            !.firstOffset = IF fits THEN acc.visited = 0 ELSE @,
            !.num = IF d <= Threshold THEN (IF past \/ @ >= 0 THEN 0 ELSE @)
                    ELSE IF @ >= 0 THEN @ + 1 ELSE @]

\* A node that expired or is out of the buffer is dropped, unless it is a candidate;
\* the search ends retry nodes after the last one within the threshold
Sifted(i, acc, n, drop) ==
    LET size == IF drop THEN acc.size - 1 ELSE acc.size
        retry == IF acc.key # None /\ acc.keyFirst /\ i.notFirst THEN size ELSE acc.retry
    IN  [acc EXCEPT !.keep = IF drop THEN @ ELSE Append(@, n), !.size = size, !.retry = retry,
                    !.stop = acc.num >= retry, !.visited = @ + 1]

Visit(i, acc, n, d) ==
    Sifted(i, acc, n, (d > OutOfBuffer \/ n.expired = 0) /\ n \notin {acc.key, acc.fitOffset, acc.fitPts})

\* One node of the search of pts_list
SearchStep(i, cur, acc, n) ==
    LET d == Dist(cur, n.offset)
        aged == Aged(i, cur, n)
    IN  IF acc.stop THEN [acc EXCEPT !.keep = Append(@, n)]
        ELSE Visit(i, Candidates(i, acc, aged, d, Past(cur, n)), aged, d)

Search(i, cur) ==
    Walk(LAMBDA acc, n : SearchStep(i, cur, acc, n),
         [keep |-> <<>>, size |-> i.size, key |-> None, keyFirst |-> FALSE, fitPts |-> None,
          fitOffset |-> None, firstPts |-> FALSE, firstOffset |-> FALSE, diff |-> Threshold,
          expPts |-> i.outPts, num |-> -1, retry |-> Retry, stop |-> FALSE, visited |-> 0],
         i.list)

\* A choice: the node, whether it was the first of the list, mStickyWrapFlag
Choice(n, first, sticky) == [node |-> n, first |-> first, sticky |-> sticky]

\* The choice among the candidates: by offset in offset mode, else by time stamp
\* when that candidate is later than the last frame out
Choose(i, s) ==
    IF s.fitOffset = None THEN Choice(s.key, s.keyFirst, i.sticky)
    ELSE IF i.offsetMode THEN Choice(s.fitOffset, s.firstOffset, FALSE)
    ELSE IF /\ i.started /\ s.fitPts # None /\ s.key # s.fitPts /\ ~i.sticky
            /\ s.fitPts.count = s.fitOffset.count
    THEN IF s.fitPts.pts > s.fitOffset.pts /\ Later(s.fitOffset.pts, i.outPts) > Near
         THEN Choice(s.fitOffset, s.firstOffset, FALSE)
         ELSE Choice(s.fitPts, s.firstPts, TRUE)
    ELSE IF s.key = None \/ ~i.started THEN Choice(s.fitOffset, s.firstOffset, FALSE)
    ELSE Choice(s.key, s.keyFirst, FALSE)

\* The search of a trick mode, or before the first check-out, when the other one failed
FirstStep(cur, acc, n) ==
    LET d == Dist(cur, n.offset)
        hit == d <= acc.diff /\ Past(cur, n)
    IN  IF acc.stop \/ (~hit /\ acc.num > Tries) THEN [acc EXCEPT !.stop = TRUE]
        ELSE [node |-> IF hit THEN n ELSE acc.node,
              first |-> IF hit THEN acc.visited = 0 ELSE acc.first,
              diff |-> IF hit THEN d ELSE acc.diff,
              num |-> IF hit \/ acc.node # None THEN acc.num + 1 ELSE acc.num,
              visited |-> acc.visited + 1, stop |-> FALSE]

FirstSearch(list, cur) ==
    Walk(LAMBDA acc, n : FirstStep(cur, acc, n),
         [node |-> None, first |-> FALSE, diff |-> FirstDiff, num |-> 0, visited |-> 0,
          stop |-> FALSE], list)

\* The node setC2Mode falls back to: the nearest one between the last offset checked
\* out and cur, nearer than that offset; the first one at the start; else none
C2Node(i, cur) ==
    LET Fits(n) == /\ Past(cur, n) /\ n.offset >= i.curOffset
                   /\ i.started => Dist(cur, n.offset) < Dist(cur, i.curOffset)
        S == {k \in DOMAIN i.list : Fits(i.list[k])}
        Least == {k \in S : \A j \in S : Dist(cur, i.list[k].offset) <= Dist(cur, i.list[j].offset)}
    IN  IF S # {} THEN i.list[CHOOSE k \in Least : \A j \in Least : k <= j]
        ELSE IF ~i.started /\ i.list # <<>> THEN i.list[1]
        ELSE None

\* Nothing found: the last time stamp moves on by the duration of a frame
Failed(i, cur) ==
    LET pts == IF i.decDur # 0 THEN (i.outPts + i.decDur) % P
               ELSE IF ~i.started THEN MinusOne
               ELSE (i.outPts + i.frameDur) % P
    IN  [pts |-> pts, node |-> None,
         ins |-> [i EXCEPT !.fails = @ + 1, !.outPts = pts, !.curOffset = cur,
                           !.sticky = @ /\ cur >= i.curOffset]]

\* The frame duration from two check-outs, doubted as long as it keeps changing
Timed(i, pts) ==
    LET first == Later(pts, i.outPts) \div (i.fails + 1)
        next == Later(pts, i.doublePts) \div (i.fails + 1)
        count == IF next = i.doubleDur THEN i.doubleCount + 1 ELSE 0
    IN  IF ~i.started THEN [i EXCEPT !.started = TRUE]
        ELSE IF i.frameDur = 0
        THEN [i EXCEPT !.frameDur = IF first > MaxDuration THEN 0 ELSE first]
        ELSE [i EXCEPT !.doubleDur = next,
                       !.doubleCount = IF count > DoubleCheck THEN 0 ELSE count,
                       !.frameDur = IF count > DoubleCheck THEN next ELSE @]

\* Found: node leaves the list (None: setC2Mode repeats the last time stamp)
Found(i, node, pts, cur, dur) ==
    LET i2 == IF node = None THEN i ELSE Unlinked(i, node)
    IN  [pts |-> pts, node |-> node,
         ins |-> [Timed(i2, pts) EXCEPT !.fails = 0, !.outPts = pts, !.peekPts = pts,
                                        !.doublePts = pts, !.decDur = dur, !.curOffset = cur]]

\* The choice of the first search, or of the other one; not found is not the first:
\* mLastCheckoutIndex is unsigned
Chosen(i, keep, c, cur) ==
    LET f == FirstSearch(keep, cur)
    IN  IF c.node = None /\ (i.trick \/ ~i.started) THEN Choice(f.node, f.first, c.sticky) ELSE c

\* Without a choice setC2Mode falls back to n, and without n to the last time stamp
Fallback(i, n, dur) ==
    IF n # None THEN Found(i, n, n.pts, n.offset, dur)
    ELSE Found(i, None, IF i.started THEN i.outPts ELSE 0, i.curOffset, dur)

Settled(i, c, cur, dur) ==
    LET i2 == [i EXCEPT !.sticky = c.sticky, !.notFirst = ~c.first]
    IN  IF c.node # None THEN Found(i2, c.node, c.node.pts, cur, dur)
        ELSE IF i.c2 THEN Fallback(i2, C2Node(i, cur), dur)
        ELSE Failed(i2, cur)

Searched(i, s, cur, dur) ==
    Settled(Freed(i, s.keep), Chosen(i, s.keep, Choose(i, s), cur), cur, dur)

\* ptsserver_checkout_pts_offset of offset cur, by a decoder that reports duration dur
CheckoutPts(i, cur, dur) ==
    IF cur = NoOffset \/ i.list = <<>> THEN Failed(i, cur) ELSE Searched(i, Search(i, cur), cur, dur)

\* ptsserver_peek_pts_offset: the nearest node below cur (the last one of equals), which stays
Peek(i, cur) ==
    LET Fits(n) == Past(cur, n) /\ Dist(cur, n.offset) <= Threshold
        k == SelectLastInSeq(i.list, LAMBDA n :
                 /\ Fits(n)
                 /\ \A m \in ToSet(i.list) : Fits(m) => Dist(cur, n.offset) <= Dist(cur, m.offset))
        pts == IF cur # NoOffset /\ k # 0 THEN i.list[k].pts
               ELSE IF i.decDur # 0 THEN (i.peekPts + i.decDur) % P
               ELSE IF i.frameDur # 0 THEN (i.peekPts + i.frameDur) % P ELSE 0
    IN  [pts |-> pts, ins |-> [i EXCEPT !.peekPts = pts]]

-----------------------------------------------------------------------------
(* Check-out of an audio frame. *)

\* Fault: the first node within the limit is taken
AptsHit_First(acc, d, limit) == d <= limit /\ acc.node = None

AptsHit(acc, d, limit) == d <= limit /\ d <= acc.diff

\* One node, d away; drop: it is out of the buffer (the int -2^31 is not)
AptsVisit(acc, n, d, limit, drop) ==
    LET hit == AptsHit(acc, d, limit)
    IN  IF acc.stop \/ (d > limit /\ ~drop /\ acc.num > Tries)
        THEN [acc EXCEPT !.stop = TRUE, !.keep = Append(@, n)]
        ELSE [acc EXCEPT !.keep = IF drop THEN @ ELSE Append(@, n),
                         !.node = IF hit THEN n ELSE @, !.diff = IF hit THEN d ELSE @,
                         !.num = IF hit \/ acc.node # None THEN @ + 1 ELSE @]

AptsStep(cur, limit, acc, n) ==
    LET d == Dist(cur, n.offset)
    IN  AptsVisit(acc, n, d, limit, d > limit /\ d > OutOfBuffer /\ d # W \div 2)

AptsSearch(list, cur, limit) ==
    Walk(LAMBDA acc, n : AptsStep(cur, limit, acc, n),
         [keep |-> <<>>, node |-> None, diff |-> limit, num |-> 0, stop |-> FALSE], list)

\* The node found leaves the list; the first frame gets the first time stamp if none is
AptsOut(i, node, cur) ==
    LET i2 == [(IF node = None THEN i ELSE Unlinked(i, node)) EXCEPT !.curOffset = cur]
        pts == IF node # None /\ node.pts # MinusOne THEN node.pts
               ELSE IF i.started THEN MinusOne ELSE i.firstPts
        found == (node # None /\ node.pts # MinusOne) \/ ~i.started
    IN  [pts |-> pts,
         ins |-> IF found THEN [i2 EXCEPT !.started = TRUE, !.fails = 0, !.outPts = pts, !.doublePts = pts]
                 ELSE [i2 EXCEPT !.fails = @ + 1]]

AptsFound(i, s, cur) == AptsOut(Freed(i, s.keep), s.node, cur)

\* ptsserver_checkout_apts_offset
CheckoutApts(i, cur) ==
    IF cur = NoOffset \/ i.list = <<>> THEN AptsOut(i, None, cur)
    ELSE AptsFound(i, AptsSearch(i.list, cur, IF i.margin = 0 THEN Threshold ELSE i.margin), cur)
=============================================================================
