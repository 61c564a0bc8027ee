----------------------------- MODULE PtsServerProofs ------------------------
(***************************************************************************)
(* Proofs about the time stamp server.                                     *)
(***************************************************************************)
EXTENDS PtsServer, ListsProofs

-----------------------------------------------------------------------------
(* One instance *)

Fields == {"id", "ref", "nodes", "free", "list", "size", "dropIndex", "index", "pieceOffset",
           "pieceSize", "align", "inPts", "inCount", "inStarted", "firstPts", "started", "fails",
           "frameDur", "doubleDur", "doubleCount", "doublePts", "decDur", "outPts", "peekPts",
           "curOffset", "notFirst", "trick", "c2", "offsetMode", "sticky", "margin"}

Stamps == 0..MinusOne

Nodes == [offset : Offsets, pts : Stamps, expired : Int, count : Int, index : Int]

\* The nodes are in the list or free, and the numbers are in their ranges.
InsOK(i) ==
    /\ DOMAIN i = Fields
    /\ i.nodes \in {0, MaxCount} /\ i.list \in Seq(Nodes)
    /\ i.size = Len(i.list) /\ i.free \in Nat /\ i.free + i.size = i.nodes
    /\ i.dropIndex \in Int /\ i.index \in Int /\ i.inCount \in Int /\ i.inPts \in Int
    /\ i.pieceOffset \in Offsets /\ i.pieceSize \in Nat /\ i.align \in Nat
    /\ i.firstPts \in Stamps /\ i.outPts \in Stamps /\ i.doublePts \in Stamps /\ i.curOffset \in Offsets
    /\ i.fails \in Nat /\ i.frameDur \in Int /\ i.decDur \in Int /\ i.margin \in Nat

\* j is i but for the fields in S.
Same(i, j, S) == DOMAIN j = Fields /\ \A f \in Fields : f \in S \/ j[f] = i[f]

\* Where the nodes of list l are, and when.
Marks(l) == {[at |-> n.offset, pts |-> n.pts] : n \in Range(l)}

LEMMA Widths ==
    /\ W \in Nat /\ W > 1 /\ P \in Nat /\ P > 1 /\ P32 \in Nat /\ P32 > 1 /\ P32 <= P
    /\ MaxCount \in Nat \ {0} /\ MinusOne \in Nat /\ NoOffset \in Offsets
    /\ {Threshold, Expired, Retry, Tries, FirstDiff, Near} \subseteq Nat
BY WidthAssumption, LimitAssumption DEF MinusOne, NoOffset, Offsets

LEMMA ModW == ASSUME NEW x \in Int PROVE x % W \in Offsets /\ x % W \in Nat
BY Widths DEF Offsets

LEMMA ModP == ASSUME NEW x \in Int PROVE x % P \in Stamps /\ x % P \in Nat
BY Widths DEF Stamps, MinusOne

LEMMA ModP32 == ASSUME NEW x \in Int PROVE x % P32 \in Stamps /\ x % P32 \in Nat
<1>1. x % P32 \in 0..(P32 - 1)
  BY Widths
<1> QED
  BY <1>1, Widths DEF Stamps, MinusOne

\* Modulo a width
LEMMA Scale == ASSUME NEW w \in Nat, NEW d \in Int, w > 0, d * w < w, d * w > -w PROVE d = 0
<1>1. CASE d >= 1
  <2>1. d - 1 >= 0 /\ d - 1 \in Nat
    BY <1>1
  <2>2. (d - 1) * w >= 0
    BY <2>1
  <2>3. (d - 1) * w = d * w - w
    OBVIOUS
  <2> QED
    BY <2>2, <2>3
<1>2. CASE d <= -1
  <2>1. -d - 1 >= 0 /\ -d - 1 \in Nat
    BY <1>2
  <2>2. (-d - 1) * w >= 0
    BY <2>1
  <2>3. (-d - 1) * w = -(d * w) - w
    OBVIOUS
  <2> QED
    BY <2>2, <2>3
<1> QED
  BY <1>1, <1>2

LEMMA Euclid == ASSUME NEW w \in Nat, w > 0, NEW x \in Int PROVE x = (x \div w) * w + (x % w) /\ x \div w \in Int /\ x % w \in 0..(w-1)
OBVIOUS

LEMMA Unique == ASSUME NEW w \in Nat, w > 0, NEW x \in Int, NEW q \in Int, NEW r \in 0..(w-1), x = q * w + r PROVE x % w = r
<1>1. PICK p \in Int, t \in 0..(w-1) : p = x \div w /\ t = x % w /\ x = p * w + t
  BY Euclid
<1>2. (q - p) * w = t - r
  <2>1. (q - p) * w = q * w - p * w
    OBVIOUS
  <2>2. q * w \in Int /\ p * w \in Int 
    OBVIOUS
  <2> QED
    BY <2>1, <2>2, <1>1
<1>3. PICK d \in Int : d = q - p
  OBVIOUS
<1>4. d * w < w /\ d * w > -w
  BY <1>2, <1>3
<1>5. d = 0
  BY <1>4, Scale
<1> QED
  BY <1>1, <1>2, <1>3, <1>5

LEMMA ModSum == ASSUME NEW w \in Nat, w > 0, NEW a \in Int, NEW s \in Int PROVE ((a % w) + s) % w = (a + s) % w
<1>1. PICK p \in Int, t \in 0..(w-1) : p = a \div w /\ t = a % w /\ a = p * w + t
  BY Euclid
<1>2. PICK q \in Int, r \in 0..(w-1) : r = (t + s) % w /\ t + s = q * w + r
  BY Euclid
<1>3. a + s = (p + q) * w + r
  <2>1. (p + q) * w = p * w + q * w /\ p * w \in Int /\ q * w \in Int
    OBVIOUS
  <2> QED
    BY <2>1, <1>1, <1>2
<1>4. (a + s) % w = r
  <2>1. p + q \in Int /\ a + s \in Int
    OBVIOUS
  <2> QED
    BY <1>3, <2>1, Unique
<1> QED
  BY <1>1, <1>2, <1>4

LEMMA ModAdd == ASSUME NEW a \in Int, NEW s \in Int PROVE ((a % W) + s) % W = (a + s) % W
<1>1. W \in Nat /\ W > 0
  BY Widths
<1> QED
  BY <1>1, ModSum, Zenon

LEMMA OffsetsAre == ASSUME NEW x \in Offsets PROVE x \in Nat /\ x < W
BY Widths DEF Offsets

LEMMA StampsAre == /\ \A x \in Stamps : x \in Nat /\ x < P
                   /\ 0 \in Stamps /\ MinusOne \in Stamps
BY Widths DEF Stamps, MinusOne

LEMMA DistNat == ASSUME NEW a \in Offsets, NEW b \in Offsets PROVE Dist(a, b) \in Nat
<1>1. PICK d \in Offsets : d = (a - b) % W
  BY OffsetsAre, ModW
<1>2. d \in Nat /\ d < W /\ W \in Nat
  BY OffsetsAre, Widths
<1>3. W - d \in Nat
  BY <1>2
<1> QED
  BY <1>1, <1>2, <1>3 DEF Dist

\* Two instances that differ only in S
LEMMA SameOK ==
    ASSUME NEW i, NEW j, NEW S, Same(i, j, S), InsOK(i),
           S \cap {"nodes", "list", "size", "free"} = {},
           "dropIndex" \in S => j.dropIndex \in Int, "index" \in S => j.index \in Int,
           "inCount" \in S => j.inCount \in Int, "inPts" \in S => j.inPts \in Int,
           "pieceOffset" \in S => j.pieceOffset \in Offsets, "pieceSize" \in S => j.pieceSize \in Nat,
           "align" \in S => j.align \in Nat, "firstPts" \in S => j.firstPts \in Stamps,
           "outPts" \in S => j.outPts \in Stamps, "doublePts" \in S => j.doublePts \in Stamps,
           "curOffset" \in S => j.curOffset \in Offsets, "fails" \in S => j.fails \in Nat,
           "frameDur" \in S => j.frameDur \in Int, "decDur" \in S => j.decDur \in Int,
           "margin" \in S => j.margin \in Nat
    PROVE  InsOK(j)
<1>1. /\ j.nodes = i.nodes /\ j.list = i.list /\ j.size = i.size /\ j.free = i.free
  BY DEF Same, Fields
<1>2. /\ j.dropIndex \in Int /\ j.index \in Int /\ j.inCount \in Int /\ j.inPts \in Int
  BY DEF Same, Fields, InsOK
<1>3. /\ j.pieceOffset \in Offsets /\ j.pieceSize \in Nat /\ j.align \in Nat
      /\ j.firstPts \in Stamps /\ j.outPts \in Stamps /\ j.doublePts \in Stamps /\ j.curOffset \in Offsets
  BY DEF Same, Fields, InsOK
<1>4. j.fails \in Nat /\ j.frameDur \in Int /\ j.decDur \in Int /\ j.margin \in Nat
  BY DEF Same, Fields, InsOK
<1> QED
  BY <1>1, <1>2, <1>3, <1>4 DEF Same, InsOK

LEMMA FreedIs ==
    ASSUME NEW i, InsOK(i), NEW keep \in Seq(Nodes), Len(keep) <= Len(i.list)
    PROVE  /\ InsOK(Freed(i, keep)) /\ Same(i, Freed(i, keep), {"list", "free", "size"})
           /\ Freed(i, keep).list = keep
<1> DEFINE j == Freed(i, keep)
<1>1. Len(keep) \in Nat /\ Len(i.list) \in Nat
  BY DEF InsOK
<1>2. Same(i, j, {"list", "free", "size"})
  BY DEF Freed, InsOK, Same, Fields
<1>3. /\ j.list = keep /\ j.free = i.free + (Len(i.list) - Len(keep))
      /\ j.size = i.size - (Len(i.list) - Len(keep))
  BY DEF Freed, InsOK, Fields
<1>4. /\ j.size = Len(j.list) /\ j.free \in Nat /\ j.free + j.size = i.nodes
  <2>1. i.size = Len(i.list) /\ i.free \in Nat /\ i.free + i.size = i.nodes
    BY DEF InsOK
  <2> HIDE DEF j
  <2> QED
    BY <1>1, <1>3, <2>1
<1>5. /\ j.nodes = i.nodes /\ j.dropIndex = i.dropIndex /\ j.index = i.index /\ j.inCount = i.inCount
      /\ j.inPts = i.inPts /\ j.pieceOffset = i.pieceOffset /\ j.pieceSize = i.pieceSize
      /\ j.align = i.align /\ j.firstPts = i.firstPts /\ j.outPts = i.outPts
      /\ j.doublePts = i.doublePts /\ j.curOffset = i.curOffset /\ j.fails = i.fails
      /\ j.frameDur = i.frameDur /\ j.decDur = i.decDur /\ j.margin = i.margin /\ DOMAIN j = Fields
  BY <1>2 DEF Same, Fields
<1> HIDE DEF j
<1>6. InsOK(j)
  BY <1>3, <1>4, <1>5 DEF InsOK
<1> QED
  BY <1>2, <1>3, <1>6 DEF j

\* The parts of an instance that no operation on its list changes
Keeps(i, j) == j.id = i.id /\ j.ref = i.ref /\ j.nodes = i.nodes

LEMMA SameKeeps ==
    ASSUME NEW i, NEW j, NEW S, Same(i, j, S), S \cap {"id", "ref", "nodes"} = {}
    PROVE  Keeps(i, j)
BY DEF Same, Fields, Keeps

LEMMA TailIs ==
    ASSUME NEW X, NEW l \in Seq(X), l # <<>>
    PROVE  Tail(l) \in Seq(X) /\ Len(Tail(l)) = Len(l) - 1 /\ Range(Tail(l)) \subseteq Range(l) /\ Len(l) > 0
<1>1. Len(l) \in Nat /\ Len(l) > 0 /\ Tail(l) \in Seq(X) /\ Len(Tail(l)) = Len(l) - 1
  OBVIOUS
<1>2. ASSUME NEW k \in DOMAIN Tail(l) PROVE Tail(l)[k] \in Range(l)
  <2>1. k \in 1..(Len(l) - 1) /\ k + 1 \in DOMAIN l
    BY <1>1
  <2>2. Tail(l)[k] = l[k + 1]
    BY <1>1, <2>1
  <2> QED
    BY <2>1, <2>2 DEF Range
<1> QED
  BY <1>1, <1>2 DEF Range

LEMMA SeqIn == ASSUME NEW X, NEW Y, X \subseteq Y, NEW l \in Seq(X) PROVE l \in Seq(Y)
<1>1. Len(l) \in Nat /\ DOMAIN l = 1..Len(l) /\ \A k \in 1..Len(l) : l[k] \in Y
  OBVIOUS
<1>2. l = [k \in 1..Len(l) |-> l[k]]
  OBVIOUS
<1> QED
  BY <1>1, <1>2

LEMMA SeqOver == ASSUME NEW X, NEW l \in Seq(X) PROVE l \in Seq(Range(l)) /\ Range(l) \subseteq X
<1>1. Len(l) \in Nat /\ DOMAIN l = 1..Len(l) /\ \A k \in 1..Len(l) : l[k] \in Range(l) /\ l[k] \in X
  BY DEF Range
<1>2. l = [k \in 1..Len(l) |-> l[k]]
  OBVIOUS
<1> QED
  BY <1>1, <1>2 DEF Range

LEMMA RangeIn == ASSUME NEW X, NEW l \in Seq(X) PROVE Range(l) \subseteq X
BY DEF Range

-----------------------------------------------------------------------------
(* Recycling *)

\* When nodes up to mLastDropIndex were found, some were.
LEMMA DroppableIs ==
    ASSUME NEW i, NEW N, i.list \in Seq(N), i.dropIndex \in Int, \A m \in N : m.index \in Int
    PROVE  LET all == Droppable(i) IN
           /\ all.keep \in Seq(N) /\ all.drop \in Int /\ Len(all.keep) <= Len(i.list)
           /\ all.drop # i.dropIndex => Len(all.keep) < Len(i.list)
<1> DEFINE l == i.list
           d == i.dropIndex
           U == [keep : Seq(N), drop : Int]
           A == [k \in Nat |-> {a \in U : /\ a.drop >= d /\ Len(a.keep) <= k
                                          /\ a.drop # d => Len(a.keep) < k}]
           b == [keep |-> <<>>, drop |-> d]
           n == Len(l)
           F == [k \in 0..n |-> [a \in U |-> DropStep(a, l[k + 1])]]
           Run(r) == r = [k \in 0..n |-> IF k = 0 THEN b ELSE DropStep(r[k - 1], l[k])]
           at == CHOOSE r : Run(r)
<1>1. n \in Nat
  OBVIOUS
<1>2. b \in A[0]
  OBVIOUS
<1>3. ASSUME NEW k \in 0..n, k < n, NEW a \in A[k]
      PROVE  F[k][a] = DropStep(a, l[k + 1]) /\ DropStep(a, l[k + 1]) \in A[k + 1]
  <2>1. PICK e \in N : e = l[k + 1]
    BY <1>1, <1>3
  <2>2. /\ a.keep \in Seq(N) /\ a.drop \in Int /\ a \in U /\ a.drop >= d /\ Len(a.keep) <= k
        /\ a.drop # d => Len(a.keep) < k
    BY <1>3
  <2>3. Append(a.keep, e) \in Seq(N) /\ Len(Append(a.keep, e)) = Len(a.keep) + 1 /\ Len(a.keep) \in Nat
    BY <2>2
  <2>4. F[k][a] = DropStep(a, e)
    BY <2>1, <2>2
  <2>5. DropStep(a, e) \in A[k + 1]
    <3>1. CASE e.index <= a.drop
      <4>1. DropStep(a, e) = [a EXCEPT !.drop = a.drop + 1]
        BY <3>1 DEF DropStep
      <4>2. PICK c \in U : c = DropStep(a, e) /\ c.keep = a.keep /\ c.drop = a.drop + 1
        BY <4>1, <2>2
      <4>3. c \in A[k + 1]
        BY <4>2, <2>2, <2>3
      <4> QED
        BY <4>2, <4>3
    <3>2. CASE ~(e.index <= a.drop)
      <4>1. DropStep(a, e) = [a EXCEPT !.keep = Append(a.keep, e)]
        BY <3>2 DEF DropStep
      <4>2. PICK q \in Seq(N) : q = Append(a.keep, e) /\ Len(q) = Len(a.keep) + 1
        BY <2>3
      <4>5. DropStep(a, e) = [a EXCEPT !.keep = q]
        BY <4>1, <4>2
      <4>3. PICK c \in U : c = DropStep(a, e) /\ c.keep = q /\ c.drop = a.drop
        BY <4>5, <2>2
      <4>4. c \in A[k + 1]
        BY <4>2, <4>3, <2>2, <2>3
      <4> QED
        BY <4>3, <4>4
    <3> QED
      BY <3>1, <3>2
  <2> QED
    BY <2>1, <2>4, <2>5
<1>4. Leads(F, A, n)
  BY <1>3 DEF Leads
<1> HIDE DEF F, A, b, n
<1>5. PICK r : r[0] = b /\ Walks(r, F, A, n)
  <2> HIDE DEF Run, at
  <2> QED
    BY <1>1, <1>2, <1>4, StepsExist
<1>6. \A k \in 0..n : r[k] \in A[k]
  <2> HIDE DEF Run, at
  <2> QED
    BY <1>1, <1>2, <1>4, <1>5, StepsStay
<1>7. Run([k \in 0..n |-> r[k]])
  <2>1. ASSUME NEW k \in 0..n, k # 0 PROVE r[k] = DropStep(r[k - 1], l[k])
    <3>1. k - 1 \in 0..n /\ k - 1 < n /\ k - 1 + 1 = k
      BY <1>1, <2>1
    <3> QED
      BY <3>1, <1>3, <1>5, <1>6 DEF Walks
  <2>2. \A k \in 0..n : k # 0 => k - 1 \in 0..n
    BY <1>1
  <2> QED
    BY <2>1, <2>2, <1>5
<1>8. Run(at)
  BY <1>7
<1>9. Droppable(i) = at[n]
  BY DEF Droppable, Walk, b, n
<1> HIDE DEF at
<1>10. at[0] \in A[0]
  BY <1>1, <1>2, <1>8
<1>11. Walks(at, F, A, n)
  <2>1. ASSUME NEW k \in 0..n, k < n, at[k] \in A[k] PROVE at[k + 1] = F[k][at[k]]
    <3>1. k + 1 \in 0..n /\ k + 1 # 0 /\ k + 1 - 1 = k
      BY <1>1, <2>1
    <3>2. at[k + 1] = DropStep(at[k], l[k + 1])
      BY <3>1, <1>8
    <3> QED
      BY <3>2, <1>3, <2>1
  <2> QED
    BY <2>1 DEF Walks
<1>12. at[n] \in A[n]
  <2> HIDE DEF Run
  <2> QED
    BY <1>1, <1>4, <1>10, <1>11, StepsStay
<1> QED
  BY <1>1, <1>9, <1>12 DEF A, n

LEMMA NodesAre == \A m \in Nodes : m.index \in Int /\ m.offset \in Offsets /\ m.pts \in Stamps
BY DEF Nodes

\* After it the list is below the limit, and nothing else is changed.
LEMMA RecycleIs ==
    ASSUME NEW i, InsOK(i)
    PROVE  /\ InsOK(Recycle(i))
           /\ Same(i, Recycle(i), {"list", "free", "size", "dropIndex"})
           /\ Recycle(i).list \in Seq(Range(i.list))
           /\ Len(Recycle(i).list) < MaxCount
<1>1. /\ i.list \in Seq(Nodes) /\ i.size = Len(i.list) /\ Len(i.list) \in Nat /\ i.dropIndex \in Int
      /\ Len(i.list) <= MaxCount /\ MaxCount \in Nat
  <2>1. /\ i.list \in Seq(Nodes) /\ i.size = Len(i.list) /\ Len(i.list) \in Nat /\ i.dropIndex \in Int
        /\ i.free \in Nat /\ i.free + i.size = i.nodes /\ i.nodes \in {0, MaxCount}
    BY DEF InsOK
  <2> QED
    BY <2>1, Widths
<1>2. i.list \in Seq(Range(i.list)) /\ Range(i.list) \subseteq Nodes
  BY <1>1, SeqOver
<1>3. CASE i.size < MaxCount
  <2>1. Recycle(i) = i
    BY <1>3 DEF Recycle
  <2>2. Same(i, i, {"list", "free", "size", "dropIndex"})
    BY DEF Same, InsOK
  <2> QED
    BY <2>1, <2>2, <1>1, <1>2, <1>3
<1> DEFINE all == Droppable(i)
<1>4. /\ all.keep \in Seq(Range(i.list)) /\ all.keep \in Seq(Nodes) /\ all.drop \in Int
      /\ Len(all.keep) \in Nat /\ Len(all.keep) <= Len(i.list)
      /\ all.drop # i.dropIndex => Len(all.keep) < Len(i.list)
  <2>1. \A m \in Range(i.list) : m.index \in Int
    BY <1>2, NodesAre
  <2>2. /\ all.keep \in Seq(Range(i.list)) /\ all.drop \in Int
        /\ Len(all.keep) <= Len(i.list)
        /\ all.drop # i.dropIndex => Len(all.keep) < Len(i.list)
    BY <2>1, <1>1, <1>2, DroppableIs
  <2> HIDE DEF all
  <2> QED
    BY <2>2, <1>2, SeqIn
<1> HIDE DEF all
<1>5. CASE ~(i.size < MaxCount) /\ all.drop = i.dropIndex
  <2>1. Recycle(i) = Freed(i, Tail(i.list))
    BY <1>5 DEF Recycle, all
  <2>2. i.list # <<>>
    BY <1>1, <1>5, Widths
  <2>3. PICK t : /\ t = Tail(i.list) /\ t \in Seq(Range(i.list)) /\ t \in Seq(Nodes)
                 /\ Len(t) = Len(i.list) - 1
    BY <1>1, <1>2, <2>2, TailIs
  <2>4. Len(t) <= Len(i.list) /\ Len(t) < MaxCount
    BY <1>1, <2>3
  <2>5. InsOK(Freed(i, t)) /\ Same(i, Freed(i, t), {"list", "free", "size"}) /\ Freed(i, t).list = t
    BY <2>3, <2>4, FreedIs
  <2>6. Same(i, Freed(i, t), {"list", "free", "size", "dropIndex"})
    BY <2>5 DEF Same
  <2> QED
    BY <2>1, <2>3, <2>4, <2>5, <2>6
<1>6. CASE ~(i.size < MaxCount) /\ all.drop # i.dropIndex
  <2> DEFINE f == Freed(i, all.keep)
             j == [f EXCEPT !.dropIndex = all.drop]
  <2>1. Recycle(i) = j
    BY <1>6 DEF Recycle, all
  <2>2. InsOK(f) /\ Same(i, f, {"list", "free", "size"}) /\ f.list = all.keep
    BY <1>1, <1>4, FreedIs
  <2>3. Same(f, j, {"dropIndex"}) /\ j.dropIndex = all.drop /\ j.list = all.keep
    <3> HIDE DEF f
    <3> QED
      BY <2>2 DEF Same, Fields, InsOK
  <2> HIDE DEF f, j
  <2>4. InsOK(j)
    BY <2>2, <2>3, <1>4, SameOK
  <2>5. Same(i, j, {"list", "free", "size", "dropIndex"})
    BY <2>2, <2>3 DEF Same
  <2> QED
    BY <2>1, <2>3, <2>4, <2>5, <1>1, <1>4, <1>6
<1> QED
  BY <1>3, <1>5, <1>6

-----------------------------------------------------------------------------
(* Check-in *)

LEMMA InsertIs ==
    ASSUME NEW X, NEW l \in Seq(X), NEW x \in X, NEW p \in 1..(Len(l) + 1)
    PROVE  /\ InsertAt(l, p, x) \in Seq(X) /\ Len(InsertAt(l, p, x)) = Len(l) + 1
           /\ Range(InsertAt(l, p, x)) = Range(l) \cup {x}
<1> DEFINE a == SubSeq(l, 1, p - 1)
           c == SubSeq(l, p, Len(l))
           q == a \o <<x>> \o c
<1>1. Len(l) \in Nat /\ p \in Nat /\ p >= 1 /\ p <= Len(l) + 1
  OBVIOUS
<1>2. a \in Seq(X) /\ Len(a) = p - 1 /\ \A k \in 1..(p - 1) : a[k] = l[k]
  BY <1>1
<1>3. c \in Seq(X) /\ Len(c) = Len(l) + 1 - p /\ \A k \in 1..(Len(l) + 1 - p) : c[k] = l[k + p - 1]
  BY <1>1
<1>4. InsertAt(l, p, x) = q
  BY DEF InsertAt
<1> HIDE DEF a, c
<1>5. q \in Seq(X) /\ Len(q) = Len(l) + 1
  BY <1>1, <1>2, <1>3
<1>6. \A k \in 1..(Len(l) + 1) : q[k] = IF k < p THEN l[k] ELSE IF k = p THEN x ELSE l[k - 1]
  <2>1. ASSUME NEW k \in 1..(Len(l) + 1) PROVE q[k] = IF k < p THEN a[k] ELSE IF k = p THEN x ELSE c[k - p]
    <3> DEFINE h == a \o <<x>>
    <3>1. h \in Seq(X) /\ Len(h) = p /\ \A m \in 1..p : h[m] = IF m < p THEN a[m] ELSE x
      BY <1>1, <1>2
    <3>2. q = h \o c
      OBVIOUS
    <3> HIDE DEF h, q
    <3>3. q[k] = IF k <= p THEN h[k] ELSE c[k - p]
      BY <3>1, <3>2, <1>1, <1>3
    <3> QED
      BY <3>1, <3>3, <1>1
  <2>2. ASSUME NEW k \in 1..(Len(l) + 1), k < p PROVE a[k] = l[k]
    BY <1>1, <1>2, <2>2
  <2>3. ASSUME NEW k \in 1..(Len(l) + 1), k > p PROVE c[k - p] = l[k - 1]
    <3>1. k - p \in 1..(Len(l) + 1 - p) /\ k - p + p - 1 = k - 1
      BY <1>1, <2>3
    <3> QED
      BY <3>1, <1>3
  <2> HIDE DEF q
  <2> QED
    BY <1>1, <2>1, <2>2, <2>3
<1> HIDE DEF q
<1>7. ASSUME NEW y PROVE y \in Range(q) <=> y \in Range(l) \cup {x}
  <2>1. ASSUME NEW k \in DOMAIN q, y = q[k] PROVE y \in Range(l) \cup {x}
    <3>1. k \in 1..(Len(l) + 1) /\ (k < p => k \in DOMAIN l) /\ (k > p => k - 1 \in DOMAIN l)
      BY <1>1, <1>5
    <3> QED
      BY <3>1, <1>1, <1>6, <2>1 DEF Range
  <2>2. ASSUME NEW k \in DOMAIN l, y = l[k] PROVE y \in Range(q)
    <3>1. /\ k < p => k \in DOMAIN q /\ q[k] = y
          /\ k >= p => k + 1 \in DOMAIN q /\ q[k + 1] = y
      BY <1>1, <1>5, <1>6, <2>2
    <3> QED
      BY <3>1, <1>1 DEF Range
  <2>3. x \in Range(q)
    <3>1. p \in DOMAIN q /\ q[p] = x
      BY <1>1, <1>5, <1>6
    <3> QED
      BY <3>1 DEF Range
  <2> QED
    BY <2>1, <2>2, <2>3 DEF Range
<1> QED
  BY <1>4, <1>5, <1>7

LEMMA InsertedIs ==
    ASSUME NEW i, NEW X, i.list \in Seq(X), NEW n \in X
    PROVE  /\ Inserted(i, n) \in Seq(X) /\ Len(Inserted(i, n)) = Len(i.list) + 1
           /\ Range(Inserted(i, n)) = Range(i.list) \cup {n}
<1> DEFINE I == {k \in 1..Len(i.list) : Before(i, n, i.list[k])}
           p == IF I # {} THEN Min(I) ELSE 0
           q == IF p = 0 THEN Len(i.list) + 1 ELSE p
<1>1. Len(i.list) \in Nat /\ I \in SUBSET Nat
  OBVIOUS
<1>2. I # {} => Min(I) \in I
  <2>1. SUFFICES ASSUME I # {} PROVE Min(I) \in I
    OBVIOUS
  <2>2. \E k \in I : \A j \in I : k <= j
    BY <1>1, <2>1, Smallest
  <2> HIDE DEF I
  <2> QED
    BY <2>2 DEF Min
<1>3. q \in 1..(Len(i.list) + 1)
  BY <1>1, <1>2
<1>4. Inserted(i, n) = InsertAt(i.list, q, n)
  BY DEF Inserted, SelectInSeq
<1> HIDE DEF q
<1> QED
  BY <1>3, <1>4, InsertIs

LEMMA AlignedIs ==
    ASSUME NEW i, InsOK(i)
    PROVE  /\ InsOK(Aligned(i)) /\ Same(i, Aligned(i), {"pieceOffset", "align"})
           /\ Aligned(i).pieceOffset = (i.pieceOffset + i.align) % W /\ Aligned(i).align = 0
<1> DEFINE j == Aligned(i)
<1>1. /\ Same(i, j, {"pieceOffset", "align"})
      /\ j.pieceOffset = (i.pieceOffset + i.align) % W /\ j.align = 0
  BY DEF Aligned, Same, InsOK, Fields
<1>2. j.pieceOffset \in Offsets
  <2>1. i.pieceOffset + i.align \in Int
    BY SMTT(30), OffsetsAre DEF InsOK
  <2> QED
    BY <1>1, <2>1, ModW
<1> HIDE DEF j
<1>3. InsOK(j)
  BY <1>1, <1>2, SameOK
<1> QED
  BY <1>1, <1>3 DEF j

\* Where the next piece goes
Onward(i) == (i.pieceOffset + i.pieceSize) % W

LEMMA OnwardType == ASSUME NEW i, InsOK(i) PROVE Onward(i) \in Offsets
<1>1. i.pieceOffset + i.pieceSize \in Int
  BY OffsetsAre DEF InsOK
<1> QED
  BY <1>1, ModW DEF Onward

LEMMA PieceIs ==
    ASSUME NEW i, InsOK(i), NEW size \in Nat, NEW isOffset \in BOOLEAN, isOffset => size \in Offsets
    PROVE  LET j == Piece(i, size, isOffset) IN
           /\ InsOK(j) /\ Same(i, j, {"pieceOffset", "align", "pieceSize"})
           /\ j.pieceSize = size
           /\ ~isOffset => \/ j.pieceOffset = Onward(i) /\ j.align = i.align
                           \/ j.pieceOffset = (Onward(i) + i.align) % W /\ j.align = 0
<1> DEFINE x == IF isOffset THEN size ELSE Onward(i)
           i2 == [i EXCEPT !.pieceOffset = x]
           i3 == IF i.size = 0 THEN i2 ELSE Aligned(i2)
           j == [i3 EXCEPT !.pieceSize = size]
<1>1. Piece(i, size, isOffset) = j
  BY DEF Piece, Onward
<1>2. x \in Offsets
  BY OnwardType
<1> HIDE DEF x
<1>3. Same(i, i2, {"pieceOffset"}) /\ i2.pieceOffset = x /\ i2.align = i.align
  BY DEF Same, InsOK, Fields
<1> HIDE DEF i2
<1>4. InsOK(i2)
  BY <1>2, <1>3, SameOK
<1>5. /\ InsOK(i3) /\ Same(i, i3, {"pieceOffset", "align"})
      /\ \/ i3.pieceOffset = x /\ i3.align = i.align
         \/ i3.pieceOffset = (x + i.align) % W /\ i3.align = 0
  <2>1. CASE i.size = 0
    BY <2>1, <1>3, <1>4 DEF Same
  <2>2. CASE i.size # 0
    <3>1. /\ InsOK(Aligned(i2)) /\ Same(i2, Aligned(i2), {"pieceOffset", "align"})
          /\ Aligned(i2).pieceOffset = (i2.pieceOffset + i2.align) % W /\ Aligned(i2).align = 0
      BY <1>4, AlignedIs
    <3> QED
      BY <3>1, <2>2, <1>3 DEF Same
  <2> QED
    BY <2>1, <2>2
<1> HIDE DEF i3
<1>6. /\ Same(i3, j, {"pieceSize"}) /\ j.pieceSize = size
      /\ j.pieceOffset = i3.pieceOffset /\ j.align = i3.align
  BY <1>5 DEF Same, InsOK, Fields
<1> HIDE DEF j
<1>7. InsOK(j)
  BY <1>5, <1>6, SameOK
<1>8. Same(i, j, {"pieceOffset", "align", "pieceSize"})
  BY <1>5, <1>6 DEF Same
<1> QED
  BY <1>1, <1>5, <1>6, <1>7, <1>8 DEF x

\* What a piece with a time stamp makes of i
HeadOf(i, j, size, pts, isOffset) ==
    /\ InsOK(j) /\ Keeps(i, j)
    /\ i.nodes = 0 => j.list = i.list
    /\ i.nodes # 0 =>
         \E n \in Nodes :
             /\ Range(j.list) = Range(i.list) \cup {n} /\ n.pts = pts /\ n.index = i.index
             /\ ~isOffset => /\ n.offset = Onward(i) /\ j.pieceSize = size /\ j.align = 0
                             /\ j.pieceOffset = (Onward(i) + i.align) % W

LEMMA HeadIs ==
    ASSUME NEW i, InsOK(i), Len(i.list) < MaxCount, NEW size \in Nat, NEW pts \in Stamps,
           NEW isOffset \in BOOLEAN, isOffset => size \in Offsets
    PROVE  HeadOf(i, Head_(i, size, pts, isOffset), size, pts, isOffset)
<1> DEFINE x == IF isOffset THEN size ELSE Onward(i)
           n == [offset |-> x, pts |-> pts, expired |-> Expired, count |-> i.inCount, index |-> i.index]
           back == pts < i.inPts /\ PtsDist(pts, i.inPts) > Rewind
           i2 == [i EXCEPT !.pieceOffset = x]
           i3 == Aligned(i2)
           l == Inserted(i, n)
           j == [i3 EXCEPT
                  !.free = @ - 1, !.index = (@ + 1) % W, !.list = l, !.size = @ + 1,
                  !.inCount = IF back THEN (@ + 1) % W ELSE @, !.inPts = pts % P32,
                  !.pieceSize = size]
<1>1. Head_(i, size, pts, isOffset) = IF i.free = 0 THEN i2 ELSE j
  BY DEF Head_, Onward
<1>2. x \in Offsets
  BY OnwardType
<1>3. /\ n \in Nodes /\ n.offset = x /\ n.pts = pts /\ n.index = i.index
      /\ i.list \in Seq(Nodes) /\ Len(i.list) \in Nat
  BY <1>2, Widths DEF Nodes, InsOK
<1>4. l \in Seq(Nodes) /\ Len(l) = Len(i.list) + 1 /\ Range(l) = Range(i.list) \cup {n}
  BY <1>3, InsertedIs
<1> HIDE DEF x, n, back, l
<1>5. Same(i, i2, {"pieceOffset"}) /\ i2.pieceOffset = x /\ i2.align = i.align
  BY DEF Same, InsOK, Fields
<1> HIDE DEF i2
<1>6. InsOK(i2)
  BY <1>2, <1>5, SameOK
<1>7. CASE i.nodes = 0
  <2>1. i.free = 0
    BY <1>3, <1>7 DEF InsOK
  <2>2. Keeps(i, i2) /\ i2.list = i.list
    BY <1>5 DEF Same, Fields, Keeps
  <2> QED
    BY <1>1, <1>6, <1>7, <2>1, <2>2 DEF HeadOf
<1>8. CASE i.nodes # 0
  <2>1. i.free \in Nat /\ i.free # 0 /\ i.nodes = MaxCount /\ i.size = Len(i.list) /\ i.free + i.size = i.nodes
    BY <1>3, <1>8, Widths DEF InsOK
  <2>2. /\ InsOK(i3) /\ Same(i2, i3, {"pieceOffset", "align"})
        /\ i3.pieceOffset = (x + i.align) % W /\ i3.align = 0
    BY <1>5, <1>6, AlignedIs
  <2>3. /\ i3.free = i.free /\ i3.index = i.index /\ i3.size = i.size /\ i3.inCount = i.inCount
        /\ i3.id = i.id /\ i3.ref = i.ref /\ i3.nodes = i.nodes /\ DOMAIN i3 = Fields
    BY <1>5, <2>2 DEF Same, Fields
  <2> HIDE DEF i3
  <2>4. /\ j.free = i.free - 1 /\ j.index = (i.index + 1) % W /\ j.list = l /\ j.size = i.size + 1
        /\ j.inCount = (IF back THEN (i.inCount + 1) % W ELSE i.inCount) /\ j.inPts = pts % P32
        /\ j.pieceSize = size /\ j.pieceOffset = i3.pieceOffset /\ j.align = i3.align
        /\ j.nodes = i3.nodes /\ j.id = i3.id /\ j.ref = i3.ref
    BY <2>3 DEF Fields
  <2>5. Same(i3, j, {"free", "index", "list", "size", "inCount", "inPts", "pieceSize"})
    BY <2>3 DEF Same, Fields
  <2> HIDE DEF j
  <2>6. j.inCount \in Int /\ j.inPts \in Int /\ j.index \in Int
    <3>1. i.index \in Int /\ i.inCount \in Int /\ pts \in Int
      BY StampsAre DEF InsOK
    <3>2. \A y \in Int : (y + 1) % W \in Int /\ y % P32 \in Int
      BY Widths
    <3> QED
      BY <2>4, <3>1, <3>2
  <2>7. j.free \in Nat /\ j.size = Len(j.list) /\ j.free + j.size = j.nodes
    <3>1. PICK m \in Nat : m = Len(i.list) /\ Len(l) = m + 1
      BY <1>3, <1>4
    <3>2. i.size = m /\ i.free \in Nat /\ i.free # 0 /\ i.free + m = i.nodes
      BY <3>1, <2>1
    <3>3. j.free = i.free - 1 /\ j.size = m + 1 /\ Len(j.list) = m + 1 /\ j.nodes = i.nodes
      BY <3>1, <3>2, <2>3, <2>4
    <3> QED
      BY <3>2, <3>3
  <2>8. /\ j.dropIndex = i3.dropIndex /\ j.firstPts = i3.firstPts /\ j.outPts = i3.outPts
        /\ j.doublePts = i3.doublePts /\ j.curOffset = i3.curOffset /\ j.fails = i3.fails
        /\ j.frameDur = i3.frameDur /\ j.decDur = i3.decDur /\ j.margin = i3.margin
        /\ DOMAIN j = Fields
    BY <2>5 DEF Same, Fields
  <2>9. InsOK(j)
    BY <1>4, <2>2, <2>4, <2>6, <2>7, <2>8 DEF InsOK
  <2>10. Keeps(i, j)
    BY <2>3, <2>4 DEF Keeps
  <2>11. /\ Range(j.list) = Range(i.list) \cup {n} /\ n.pts = pts /\ n.index = i.index
         /\ ~isOffset => /\ n.offset = Onward(i) /\ j.pieceSize = size /\ j.align = 0
                         /\ j.pieceOffset = (Onward(i) + i.align) % W
    BY <1>3, <1>4, <2>2, <2>4 DEF x
  <2> QED
    BY <1>1, <1>3, <1>8, <2>1, <2>9, <2>10, <2>11 DEF HeadOf
<1> QED
  BY <1>7, <1>8

\* What a check-in makes of i: one that does not tell its offset puts its node where
\* the stream is.
CheckinOf(i, j, size, pts, isOffset) ==
    /\ InsOK(j) /\ Keeps(i, j)
    /\ (i.nodes # 0 /\ pts # 0) =>
          \E n \in Range(j.list) :
              /\ n.pts = pts /\ n.index = i.index
              /\ ~isOffset => /\ n.offset = Onward(i) /\ Range(j.list) \subseteq Range(i.list) \cup {n}
                              /\ Onward(j) = (Onward(i) + size + i.align - j.align) % W
    /\ pts = 0 => /\ Range(j.list) \subseteq Range(i.list)
                  /\ ~isOffset => Onward(j) = (Onward(i) + size + i.align - j.align) % W
    /\ i.nodes = 0 => j.list = <<>>

LEMMA CheckinPtsIs ==
    ASSUME NEW i, InsOK(i), NEW size \in Nat, NEW pts \in Stamps,
           NEW isOffset \in BOOLEAN, isOffset => size \in Offsets
    PROVE  CheckinOf(i, CheckinPts(i, size, pts, isOffset), size, pts, isOffset)
<1> DEFINE c == Recycle(i)
           j == CheckinPts(i, size, pts, isOffset)
<1>1. /\ InsOK(c) /\ Same(i, c, {"list", "free", "size", "dropIndex"})
      /\ c.list \in Seq(Range(i.list)) /\ Len(c.list) < MaxCount
  BY RecycleIs
<1> HIDE DEF c
<1>2. /\ Range(c.list) \subseteq Range(i.list) /\ Keeps(i, c)
      /\ Onward(c) = Onward(i) /\ c.align = i.align /\ c.index = i.index
  BY <1>1, RangeIn DEF Same, Fields, Keeps, Onward
<1>3. i.nodes = 0 => c.list = <<>>
  <2>1. c.nodes = i.nodes /\ c.list \in Seq(Nodes) /\ Len(c.list) \in Nat /\ c.free \in Nat
        /\ c.size = Len(c.list) /\ c.free + c.size = c.nodes
    BY <1>1, <1>2 DEF InsOK, Keeps
  <2> QED
    BY <2>1
<1>4. Onward(i) \in Nat /\ i.align \in Nat
  BY OnwardType, OffsetsAre DEF InsOK
\* What the alignment adds is added once.
<1>5. ASSUME NEW k, k.pieceSize = size,
             \/ k.pieceOffset = Onward(i) /\ k.align = i.align
             \/ k.pieceOffset = (Onward(i) + i.align) % W /\ k.align = 0
      PROVE  Onward(k) = (Onward(i) + size + i.align - k.align) % W
  <2>1. CASE k.pieceOffset = Onward(i) /\ k.align = i.align
    <3>1. Onward(i) + size = Onward(i) + size + i.align - k.align
      BY <1>4, <2>1
    <3> QED
      BY <3>1, <2>1, <1>5 DEF Onward
  <2>2. CASE k.pieceOffset = (Onward(i) + i.align) % W /\ k.align = 0
    <3>1. Onward(i) + size + i.align - k.align = Onward(i) + i.align + size
      BY <1>4, <2>2
    <3>2. PICK a \in Int : a = Onward(i) + i.align
      BY <1>4
    <3>3. ((a % W) + size) % W = (a + size) % W
      BY ModAdd
    <3> QED
      BY <3>1, <3>2, <3>3, <2>2, <1>5 DEF Onward
  <2> QED
    BY <2>1, <2>2, <1>5
<1>6. CASE pts = 0
  <2>1. j = Piece(c, size, isOffset)
    BY <1>6 DEF CheckinPts, c
  <2>2. /\ InsOK(j) /\ Same(c, j, {"pieceOffset", "align", "pieceSize"}) /\ j.pieceSize = size
        /\ ~isOffset => \/ j.pieceOffset = Onward(c) /\ j.align = c.align
                        \/ j.pieceOffset = (Onward(c) + c.align) % W /\ j.align = 0
    BY <1>1, <2>1, PieceIs, SMTT(30)
  <2> HIDE DEF j
  <2>3. Keeps(c, j) /\ j.list = c.list
    BY <2>2 DEF Same, Fields, Keeps
  <2>4. ~isOffset => Onward(j) = (Onward(i) + size + i.align - j.align) % W
    BY <1>2, <1>5, <2>2
  <2> QED
    BY <1>2, <1>3, <1>6, <2>2, <2>3, <2>4 DEF Keeps, CheckinOf, j
<1>7. CASE pts # 0
  <2>1. j = Head_(c, size, pts, isOffset)
    BY <1>7 DEF CheckinPts, c
  <2>2. HeadOf(c, j, size, pts, isOffset)
    BY <1>1, <2>1, HeadIs
  <2> HIDE DEF j
  <2>3. Keeps(i, j) /\ (i.nodes = 0 => j.list = <<>>)
    BY <1>2, <1>3, <2>2 DEF Keeps, HeadOf
  <2>4. ASSUME i.nodes # 0
        PROVE  \E n \in Range(j.list) :
                     /\ n.pts = pts /\ n.index = i.index
                     /\ ~isOffset => /\ n.offset = Onward(i) /\ Range(j.list) \subseteq Range(i.list) \cup {n}
                                     /\ Onward(j) = (Onward(i) + size + i.align - j.align) % W
    <3>1. PICK n \in Nodes :
                 /\ Range(j.list) = Range(c.list) \cup {n} /\ n.pts = pts /\ n.index = c.index
                 /\ ~isOffset => /\ n.offset = Onward(c) /\ j.pieceSize = size /\ j.align = 0
                                 /\ j.pieceOffset = (Onward(c) + c.align) % W
      BY <1>2, <2>2, <2>4 DEF Keeps, HeadOf
    <3>2. n \in Range(j.list) /\ Range(j.list) \subseteq Range(i.list) \cup {n}
      BY <3>1, <1>2
    <3>3. ~isOffset => Onward(j) = (Onward(i) + size + i.align - j.align) % W
      BY <3>1, <1>2, <1>5
    <3> QED
      BY <3>1, <3>2, <3>3, <1>2
  <2> QED
    BY <1>7, <2>2, <2>3, <2>4 DEF CheckinOf, j, HeadOf
<1> QED
  BY <1>6, <1>7

LEMMA CheckinAptsIs ==
    ASSUME NEW i, InsOK(i), NEW offset \in Offsets, NEW pts \in Stamps
    PROVE  InsOK(CheckinApts(i, offset, pts)) /\ Keeps(i, CheckinApts(i, offset, pts))
<1> DEFINE i2 == IF i.size >= MaxCount THEN Freed(i, Tail(i.list)) ELSE i
           n == [offset |-> offset, pts |-> pts, expired |-> 0, count |-> 0, index |-> i2.index]
           l == Append(i2.list, n)
           j == [i2 EXCEPT !.free = @ - 1, !.list = l, !.size = @ + 1,
                           !.index = (@ + 1) % W,
                           !.firstPts = IF i2.inStarted THEN @ ELSE pts % P32,
                           !.inStarted = TRUE, !.align = 0, !.inPts = pts % P32]
<1>1. CheckinApts(i, offset, pts) = IF i2.free = 0 THEN i2 ELSE j
  BY DEF CheckinApts
<1>2. InsOK(i2) /\ Keeps(i, i2)
  <2>1. CASE i.size >= MaxCount
    <3>1. i.list \in Seq(Nodes) /\ i.list # <<>> /\ Len(i.list) \in Nat
      BY <2>1, Widths DEF InsOK
    <3>2. PICK t : t = Tail(i.list) /\ t \in Seq(Nodes) /\ Len(t) = Len(i.list) - 1
      BY <3>1, TailIs
    <3>3. Len(t) <= Len(i.list)
      BY <3>1, <3>2
    <3>4. InsOK(Freed(i, t)) /\ Same(i, Freed(i, t), {"list", "free", "size"})
      BY <3>1, <3>2, <3>3, FreedIs
    <3> QED
      BY <2>1, <3>2, <3>4, SameKeeps
  <2>2. CASE ~(i.size >= MaxCount)
    BY <2>2 DEF Keeps
  <2> QED
    BY <2>1, <2>2
<1> HIDE DEF i2
<1>3. CASE i2.free = 0
  BY <1>1, <1>2, <1>3
<1>4. CASE i2.free # 0
  <2>1. n \in Nodes /\ i2.list \in Seq(Nodes) /\ Len(i2.list) \in Nat
    BY <1>2 DEF Nodes, InsOK
  <2>2. l \in Seq(Nodes) /\ Len(l) = Len(i2.list) + 1
    BY <2>1
  <2> HIDE DEF n, l
  <2>3. /\ j.free = i2.free - 1 /\ j.list = l /\ j.size = i2.size + 1
        /\ j.index = (i2.index + 1) % W /\ j.align = 0 /\ j.inPts = pts % P32
        /\ j.firstPts = IF i2.inStarted THEN i2.firstPts ELSE pts % P32
    BY <1>2 DEF Fields, InsOK
  <2>4. Same(i2, j, {"free", "list", "size", "index", "firstPts", "inStarted", "align", "inPts"})
    BY <1>2 DEF Fields, InsOK, Same
  <2> HIDE DEF j
  <2>5. j.index \in Int /\ j.align \in Nat /\ j.inPts \in Int /\ j.firstPts \in Stamps
    <3>1. i2.index \in Int /\ pts \in Int /\ i2.firstPts \in Stamps
      BY <1>2, StampsAre DEF InsOK
    <3>2. (i2.index + 1) % W \in Int /\ pts % P32 \in Int /\ pts % P32 \in Stamps
      BY <3>1, Widths, ModP32
    <3> QED
      BY <2>3, <3>1, <3>2
  <2>6. j.free \in Nat /\ j.size = Len(j.list) /\ j.free + j.size = i2.nodes
    <3>1. i2.free \in Nat /\ i2.size = Len(i2.list) /\ i2.free + i2.size = i2.nodes
      BY <1>2 DEF InsOK
    <3> QED
      BY <1>4, <2>1, <2>2, <2>3, <3>1
  <2>7. /\ j.nodes = i2.nodes /\ j.dropIndex = i2.dropIndex /\ j.inCount = i2.inCount
        /\ j.pieceOffset = i2.pieceOffset /\ j.pieceSize = i2.pieceSize /\ j.outPts = i2.outPts
        /\ j.doublePts = i2.doublePts /\ j.curOffset = i2.curOffset /\ j.fails = i2.fails
        /\ j.frameDur = i2.frameDur /\ j.decDur = i2.decDur /\ j.margin = i2.margin
        /\ DOMAIN j = Fields
    BY <2>4 DEF Same, Fields
  <2>8. InsOK(j)
    BY <1>2, <2>2, <2>3, <2>5, <2>6, <2>7 DEF InsOK
  <2>9. Keeps(i2, j)
    BY <2>4, SameKeeps
  <2> QED
    BY <1>1, <1>2, <1>4, <2>8, <2>9 DEF Keeps
<1> QED
  BY <1>3, <1>4

-----------------------------------------------------------------------------
(* Searching *)

\* The nodes a search may make of those of list l: it only ages them
Looks(l) == {m \in Nodes : [at |-> m.offset, pts |-> m.pts] \in Marks(l)}

LEMMA LooksAre ==
    ASSUME NEW l \in Seq(Nodes)
    PROVE  /\ l \in Seq(Looks(l)) /\ Range(l) \subseteq Looks(l)
           /\ \A q \in Seq(Looks(l)) : q \in Seq(Nodes) /\ Marks(q) \subseteq Marks(l)
<1>1. Range(l) \subseteq Looks(l)
  BY RangeIn DEF Looks, Marks
<1>2. l \in Seq(Range(l))
  BY SeqOver
<1>3. ASSUME NEW q \in Seq(Looks(l)) PROVE q \in Seq(Nodes) /\ Marks(q) \subseteq Marks(l)
  <2>1. Looks(l) \subseteq Nodes /\ Range(q) \subseteq Looks(l)
    BY RangeIn DEF Looks
  <2>2. q \in Seq(Nodes)
    BY <2>1, SeqIn
  <2> QED
    BY <2>1, <2>2 DEF Looks, Marks
<1> QED
  BY <1>1, <1>2, <1>3, SeqIn

LEMMA AgedIs ==
    ASSUME NEW i, NEW cur, NEW l, NEW n \in Looks(l)
    PROVE  Aged(i, cur, n) \in Looks(l)
<1>1. n \in Nodes
  BY DEF Looks
<1>2. PICK e \in Int : e = (n.expired - 1) % W
  BY <1>1, Widths DEF Nodes
<1>3. PICK m : m = [n EXCEPT !.expired = e]
  OBVIOUS
<1>4. m \in Nodes /\ m.offset = n.offset /\ m.pts = n.pts
  BY <1>1, <1>3 DEF Nodes
<1>5. m \in Looks(l)
  BY <1>4 DEF Looks
<1>6. Aged(i, cur, n) \in {n, m}
  BY <1>2, <1>3 DEF Aged
<1> QED
  BY <1>5, <1>6

\* The state of the search of ptsserver_checkout_pts_offset
SearchAcc(N) ==
    [keep : Seq(N), size : Int, key : N \cup {None}, keyFirst : BOOLEAN, fitPts : N \cup {None},
     fitOffset : N \cup {None}, firstPts : BOOLEAN, firstOffset : BOOLEAN, diff : Int,
     expPts : Int, num : Int, retry : Int, stop : BOOLEAN, visited : Int]

LEMMA CandidatesAre ==
    ASSUME NEW N, N \subseteq Nodes, NEW acc \in SearchAcc(N), NEW n \in N, NEW d \in Int, NEW past, NEW i
    PROVE  Candidates(i, acc, n, d, past) \in SearchAcc(N) /\ Candidates(i, acc, n, d, past).keep = acc.keep
<1> DEFINE below == d <= Threshold /\ past
           isKey == below /\ IsKey(i, acc, n)
           isFitPts == IsFitPts(i, acc, n, d)
           fits == below /\ d <= acc.diff
           c == Candidates(i, acc, n, d, past)
<1>1. n.pts \in Int
  BY StampsAre, NodesAre
<1>2. PICK key \in N \cup {None} : key = IF isKey THEN n ELSE acc.key
  BY DEF SearchAcc
<1>3. PICK expPts \in Int : expPts = IF isKey THEN n.pts ELSE acc.expPts
  BY <1>1 DEF SearchAcc
<1>4. PICK keyFirst \in BOOLEAN : keyFirst = IF isKey THEN acc.visited = 0 ELSE acc.keyFirst
  BY DEF SearchAcc
<1>5. PICK fitPts \in N \cup {None} : fitPts = IF isFitPts THEN n ELSE acc.fitPts
  BY DEF SearchAcc
<1>6. PICK firstPts \in BOOLEAN : firstPts = IF isFitPts THEN acc.visited = 0 ELSE acc.firstPts
  BY DEF SearchAcc
<1>7. PICK fitOffset \in N \cup {None} : fitOffset = IF fits THEN n ELSE acc.fitOffset
  BY DEF SearchAcc
<1>8. PICK diff \in Int : diff = IF fits THEN d ELSE acc.diff
  BY DEF SearchAcc
<1>9. PICK firstOffset \in BOOLEAN : firstOffset = IF fits THEN acc.visited = 0 ELSE acc.firstOffset
  BY DEF SearchAcc
<1>10. PICK num \in Int : num = IF d <= Threshold THEN (IF past \/ acc.num >= 0 THEN 0 ELSE acc.num)
                                ELSE IF acc.num >= 0 THEN acc.num + 1 ELSE acc.num
  BY DEF SearchAcc
<1>11. c = [acc EXCEPT !.key = key, !.expPts = expPts, !.keyFirst = keyFirst, !.fitPts = fitPts,
                       !.firstPts = firstPts, !.fitOffset = fitOffset, !.diff = diff,
                       !.firstOffset = firstOffset, !.num = num]
  BY <1>2, <1>3, <1>4, <1>5, <1>6, <1>7, <1>8, <1>9, <1>10 DEF Candidates
<1> HIDE DEF c
<1>12. /\ acc.keep \in Seq(N) /\ acc.size \in Int /\ acc.retry \in Int /\ acc.stop \in BOOLEAN
       /\ acc.visited \in Int
  BY DEF SearchAcc
<1>13. c = [keep |-> acc.keep, size |-> acc.size, key |-> key, keyFirst |-> keyFirst, fitPts |-> fitPts,
            fitOffset |-> fitOffset, firstPts |-> firstPts, firstOffset |-> firstOffset, diff |-> diff,
            expPts |-> expPts, num |-> num, retry |-> acc.retry, stop |-> acc.stop,
            visited |-> acc.visited]
  BY <1>11 DEF SearchAcc
<1>14. c \in SearchAcc(N) /\ c.keep = acc.keep
  BY <1>12, <1>13 DEF SearchAcc
<1> QED
  BY <1>14 DEF c

LEMMA SiftedIs ==
    ASSUME NEW N, NEW acc \in SearchAcc(N), NEW n \in N, NEW i, NEW drop \in BOOLEAN
    PROVE  /\ Sifted(i, acc, n, drop) \in SearchAcc(N)
           /\ Len(Sifted(i, acc, n, drop).keep) <= Len(acc.keep) + 1
<1> DEFINE c == Sifted(i, acc, n, drop)
           z == IF drop THEN acc.size - 1 ELSE acc.size
           y == IF acc.key # None /\ acc.keyFirst /\ i.notFirst THEN z ELSE acc.retry
<1>1. PICK size \in Int : size = z
  BY DEF SearchAcc
<1>2. PICK retry \in Int : retry = y
  BY <1>1 DEF SearchAcc
<1> DEFINE keep == IF drop THEN acc.keep ELSE Append(acc.keep, n)
           stop == acc.num >= retry
<1>3. keep \in Seq(N) /\ Len(keep) <= Len(acc.keep) + 1
  <2>1. acc.keep \in Seq(N) /\ Len(acc.keep) \in Nat
    BY DEF SearchAcc
  <2>2. Append(acc.keep, n) \in Seq(N) /\ Len(Append(acc.keep, n)) = Len(acc.keep) + 1
    BY <2>1
  <2>3. CASE drop
    BY <2>1, <2>3
  <2>4. CASE ~drop
    BY <2>1, <2>2, <2>4
  <2> QED
    BY <2>3, <2>4
<1>4. stop \in BOOLEAN
  BY DEF SearchAcc
<1>5. PICK visited \in Int : visited = acc.visited + 1
  BY DEF SearchAcc
<1>6. c = [acc EXCEPT !.keep = keep, !.size = size, !.retry = retry, !.stop = stop, !.visited = visited]
  BY <1>1, <1>2, <1>3, <1>4, <1>5 DEF Sifted
<1> HIDE DEF c, keep, stop
<1>7. c \in SearchAcc(N) /\ c.keep = keep
  BY <1>3, <1>4, <1>6 DEF SearchAcc
<1> QED
  BY <1>3, <1>7 DEF c

LEMMA SearchStepIs ==
    ASSUME NEW i, NEW cur \in Offsets, NEW l, NEW acc \in SearchAcc(Looks(l)), NEW n \in Looks(l)
    PROVE  /\ SearchStep(i, cur, acc, n) \in SearchAcc(Looks(l))
           /\ Len(SearchStep(i, cur, acc, n).keep) <= Len(acc.keep) + 1
<1> DEFINE N == Looks(l)
<1>1. N \subseteq Nodes /\ n \in Nodes
  BY DEF Looks
<1> HIDE DEF N
<1>2. CASE acc.stop
  <2>1. acc.keep \in Seq(N) /\ Len(acc.keep) \in Nat
    BY DEF SearchAcc, N
  <2> DEFINE q == Append(acc.keep, n)
  <2>2. q \in Seq(N) /\ Len(q) = Len(acc.keep) + 1
    <3>1. n \in N
      BY DEF N
    <3> QED
      BY <2>1, <3>1
  <2>3. PICK c : c = [acc EXCEPT !.keep = q]
    OBVIOUS
  <2> HIDE DEF q
  <2>4. c \in SearchAcc(N) /\ c.keep = q
    BY <2>2, <2>3 DEF SearchAcc, N
  <2>5. SearchStep(i, cur, acc, n) = c
    BY <1>2, <2>3 DEF SearchStep, q
  <2> QED
    BY <2>1, <2>2, <2>4, <2>5 DEF N
<1>3. CASE ~acc.stop
  <2>1. PICK m \in N : m = Aged(i, cur, n)
    BY AgedIs DEF N
  <2>2. PICK d \in Int : d = Dist(cur, n.offset)
    BY <1>1, DistNat, NodesAre
  <2>3. PICK a : a = Candidates(i, acc, m, d, Past(cur, n))
    OBVIOUS
  <2>4. a \in SearchAcc(N) /\ a.keep = acc.keep
    BY <1>1, <2>3, CandidatesAre DEF N
  <2> DEFINE drop == (d > OutOfBuffer \/ m.expired = 0) /\ m \notin {a.key, a.fitOffset, a.fitPts}
  <2>5. SearchStep(i, cur, acc, n) = Sifted(i, a, m, drop)
    BY <1>3, <2>1, <2>2, <2>3 DEF SearchStep, Visit
  <2>6. drop \in BOOLEAN
    BY Zenon
  <2> HIDE DEF drop
  <2> QED
    BY <2>4, <2>5, <2>6, SiftedIs DEF N
<1> QED
  BY <1>2, <1>3

\* The search drops and ages nodes, and its candidates are nodes of the list.
LEMMA SearchIs ==
    ASSUME NEW i, InsOK(i), NEW cur \in Offsets
    PROVE  LET s == Search(i, cur) IN s \in SearchAcc(Looks(i.list)) /\ Len(s.keep) <= Len(i.list)
<1> DEFINE l == i.list
           U == SearchAcc(Looks(l))
           A == [k \in Nat |-> {a \in U : Len(a.keep) <= k}]
           b == [keep |-> <<>>, size |-> i.size, key |-> None, keyFirst |-> FALSE, fitPts |-> None,
                 fitOffset |-> None, firstPts |-> FALSE, firstOffset |-> FALSE, diff |-> Threshold,
                 expPts |-> i.outPts, num |-> -1, retry |-> Retry, stop |-> FALSE, visited |-> 0]
           n == Len(l)
           F == [k \in 0..n |-> [a \in U |-> SearchStep(i, cur, a, l[k + 1])]]
           Run(r) == r = [k \in 0..n |-> IF k = 0 THEN b ELSE SearchStep(i, cur, r[k - 1], l[k])]
           at == CHOOSE r : Run(r)
<1>1. n \in Nat /\ l \in Seq(Nodes) /\ l \in Seq(Looks(l)) /\ DOMAIN l = 1..n
  BY LooksAre DEF InsOK
<1>2. b \in A[0]
  <2>1. /\ i.size \in Int /\ i.outPts \in Int /\ Threshold \in Int /\ Retry \in Int
    <3>1. i.outPts \in Stamps /\ i.size = Len(l)
      BY DEF InsOK
    <3>2. {Threshold, Retry} \subseteq Int
      BY Widths
    <3> QED
      BY <1>1, <3>1, <3>2, StampsAre
  <2>2. b \in U /\ Len(b.keep) = 0
    BY <2>1 DEF SearchAcc
  <2> HIDE DEF b, U
  <2> QED
    BY <2>2
<1> HIDE DEF U, b
<1>3. ASSUME NEW k \in 0..n, k < n, NEW a \in A[k]
      PROVE  F[k][a] = SearchStep(i, cur, a, l[k + 1]) /\ SearchStep(i, cur, a, l[k + 1]) \in A[k + 1]
  <2>1. k + 1 \in 1..n /\ k \in Nat /\ k + 1 \in Nat
    BY <1>1, <1>3
  <2>2. PICK e \in Looks(l) : e = l[k + 1]
    BY <1>1, <2>1
  <2>3. a \in U /\ Len(a.keep) <= k /\ a.keep \in Seq(Looks(l)) /\ Len(a.keep) \in Nat
    <3>1. a \in U /\ Len(a.keep) <= k
      BY <2>1
    <3> QED
      BY <3>1 DEF U, SearchAcc
  <2>4. F[k][a] = SearchStep(i, cur, a, l[k + 1])
    BY <2>3
  <2>5. PICK c \in U : c = SearchStep(i, cur, a, e) /\ Len(c.keep) <= Len(a.keep) + 1
    BY <2>3, SearchStepIs DEF U
  <2>6. Len(c.keep) <= k + 1
    <3>1. Len(c.keep) \in Nat
      BY <2>5 DEF U, SearchAcc
    <3> QED
      BY <3>1, <2>1, <2>3, <2>5
  <2>7. c \in A[k + 1]
    BY <2>1, <2>5, <2>6
  <2> QED
    BY <2>2, <2>4, <2>5, <2>7
<1>4. Leads(F, A, n)
  <2> HIDE DEF F, A
  <2> QED
    BY <1>3 DEF Leads
<1> HIDE DEF F, A, n
<1>5. PICK r : r[0] = b /\ Walks(r, F, A, n)
  <2> HIDE DEF Run, at
  <2> QED
    BY <1>1, <1>2, <1>4, StepsExist
<1>6. \A k \in 0..n : r[k] \in A[k]
  <2> HIDE DEF Run, at
  <2> QED
    BY <1>1, <1>2, <1>4, <1>5, StepsStay
<1>7. Run([k \in 0..n |-> r[k]])
  <2>1. ASSUME NEW k \in 0..n, k # 0 PROVE r[k] = SearchStep(i, cur, r[k - 1], l[k])
    <3>1. k - 1 \in 0..n /\ k - 1 < n /\ k - 1 + 1 = k
      BY <1>1, <2>1
    <3> QED
      BY <3>1, <1>3, <1>5, <1>6 DEF Walks
  <2>2. \A k \in 0..n : k # 0 => k - 1 \in 0..n
    BY <1>1
  <2> QED
    BY <2>1, <2>2, <1>5
<1>8. Run(at)
  BY <1>7
<1>9. Search(i, cur) = at[n]
  BY DEF Search, Walk, b, n
<1> HIDE DEF at
<1>10. at[0] \in A[0]
  BY <1>1, <1>2, <1>8
<1>11. Walks(at, F, A, n)
  <2>1. ASSUME NEW k \in 0..n, k < n, at[k] \in A[k] PROVE at[k + 1] = F[k][at[k]]
    <3>1. k + 1 \in 0..n /\ k + 1 # 0 /\ k + 1 - 1 = k
      BY <1>1, <2>1
    <3>2. at[k + 1] = SearchStep(i, cur, at[k], l[k + 1])
      BY <3>1, <1>8
    <3> QED
      BY <3>2, <1>3, <2>1
  <2> QED
    BY <2>1 DEF Walks
<1>12. at[n] \in A[n]
  <2> HIDE DEF Run
  <2> QED
    BY <1>1, <1>4, <1>10, <1>11, StepsStay
<1>13. at[n] \in U /\ Len(at[n].keep) <= n
  BY <1>1, <1>12 DEF A
<1> QED
  BY <1>9, <1>13 DEF U, n

FirstAcc(N) ==
    [node : N \cup {None}, first : BOOLEAN, diff : Int, num : Int, visited : Int, stop : BOOLEAN]

LEMMA FirstStepIs ==
    ASSUME NEW cur \in Offsets, NEW N, N \subseteq Nodes, NEW acc \in FirstAcc(N), NEW n \in N
    PROVE  FirstStep(cur, acc, n) \in FirstAcc(N)
<1>1. PICK d \in Int : d = Dist(cur, n.offset)
  BY DistNat, NodesAre
<1> DEFINE hit == d <= acc.diff /\ Past(cur, n)
<1>2. CASE acc.stop \/ (~hit /\ acc.num > Tries)
  <2>1. FirstStep(cur, acc, n) = [acc EXCEPT !.stop = TRUE]
    BY <1>1, <1>2 DEF FirstStep
  <2> QED
    BY <2>1 DEF FirstAcc
<1>3. CASE ~(acc.stop \/ (~hit /\ acc.num > Tries))
  <2>1. PICK node \in N \cup {None} : node = IF hit THEN n ELSE acc.node
    BY DEF FirstAcc
  <2>2. PICK first \in BOOLEAN : first = IF hit THEN acc.visited = 0 ELSE acc.first
    BY DEF FirstAcc
  <2>3. PICK diff \in Int : diff = IF hit THEN d ELSE acc.diff
    BY DEF FirstAcc
  <2>4. PICK num \in Int : num = IF hit \/ acc.node # None THEN acc.num + 1 ELSE acc.num
    BY DEF FirstAcc
  <2>5. PICK visited \in Int : visited = acc.visited + 1
    BY DEF FirstAcc
  <2>6. FirstStep(cur, acc, n) = [node |-> node, first |-> first, diff |-> diff, num |-> num,
                                  visited |-> visited, stop |-> FALSE]
    BY <1>1, <1>3, <2>1, <2>2, <2>3, <2>4, <2>5 DEF FirstStep
  <2> QED
    BY <2>6 DEF FirstAcc
<1> QED
  BY <1>2, <1>3

LEMMA FirstSearchIs ==
    ASSUME NEW N, N \subseteq Nodes, NEW l \in Seq(N), NEW cur \in Offsets
    PROVE  FirstSearch(l, cur) \in FirstAcc(N)
<1> DEFINE U == FirstAcc(N)
           A == [k \in Nat |-> U]
           b == [node |-> None, first |-> FALSE, diff |-> FirstDiff, num |-> 0, visited |-> 0,
                 stop |-> FALSE]
           n == Len(l)
           F == [k \in 0..n |-> [a \in U |-> FirstStep(cur, a, l[k + 1])]]
           Run(r) == r = [k \in 0..n |-> IF k = 0 THEN b ELSE FirstStep(cur, r[k - 1], l[k])]
           at == CHOOSE r : Run(r)
<1>1. n \in Nat /\ DOMAIN l = 1..n
  OBVIOUS
<1>2. b \in A[0]
  BY Widths DEF FirstAcc
<1> HIDE DEF U, b
<1>3. ASSUME NEW k \in 0..n, k < n, NEW a \in A[k]
      PROVE  F[k][a] = FirstStep(cur, a, l[k + 1]) /\ FirstStep(cur, a, l[k + 1]) \in A[k + 1]
  <2>1. k + 1 \in 1..n /\ k \in Nat /\ k + 1 \in Nat
    BY <1>1, <1>3
  <2>2. a \in U /\ l[k + 1] \in N
    BY <1>1, <2>1
  <2>3. FirstStep(cur, a, l[k + 1]) \in U
    BY <2>2, FirstStepIs DEF U
  <2> QED
    BY <2>1, <2>2, <2>3
<1>4. Leads(F, A, n)
  <2> HIDE DEF F, A
  <2> QED
    BY <1>3 DEF Leads
<1> HIDE DEF F, A, n
<1>5. PICK r : r[0] = b /\ Walks(r, F, A, n)
  <2> HIDE DEF Run, at
  <2> QED
    BY <1>1, <1>2, <1>4, StepsExist
<1>6. \A k \in 0..n : r[k] \in A[k]
  <2> HIDE DEF Run, at
  <2> QED
    BY <1>1, <1>2, <1>4, <1>5, StepsStay
<1>7. Run([k \in 0..n |-> r[k]])
  <2>1. ASSUME NEW k \in 0..n, k # 0 PROVE r[k] = FirstStep(cur, r[k - 1], l[k])
    <3>1. k - 1 \in 0..n /\ k - 1 < n /\ k - 1 + 1 = k
      BY <1>1, <2>1
    <3> QED
      BY <3>1, <1>3, <1>5, <1>6 DEF Walks
  <2>2. \A k \in 0..n : k # 0 => k - 1 \in 0..n
    BY <1>1
  <2> QED
    BY <2>1, <2>2, <1>5
<1>8. Run(at)
  BY <1>7
<1>9. FirstSearch(l, cur) = at[n]
  BY DEF FirstSearch, Walk, b, n
<1> HIDE DEF at
<1>10. at[0] \in A[0]
  BY <1>1, <1>2, <1>8
<1>11. Walks(at, F, A, n)
  <2>1. ASSUME NEW k \in 0..n, k < n, at[k] \in A[k] PROVE at[k + 1] = F[k][at[k]]
    <3>1. k + 1 \in 0..n /\ k + 1 # 0 /\ k + 1 - 1 = k
      BY <1>1, <2>1
    <3>2. at[k + 1] = FirstStep(cur, at[k], l[k + 1])
      BY <3>1, <1>8
    <3> QED
      BY <3>2, <1>3, <2>1
  <2> QED
    BY <2>1 DEF Walks
<1>12. at[n] \in A[n]
  <2> HIDE DEF Run
  <2> QED
    BY <1>1, <1>4, <1>10, <1>11, StepsStay
<1>13. at[n] \in U
  BY <1>1, <1>12 DEF A
<1> QED
  BY <1>9, <1>13 DEF U

AptsAcc(N) == [keep : Seq(N), node : N \cup {None}, diff : Int, num : Int, stop : BOOLEAN]

LEMMA AptsStepIs ==
    ASSUME NEW cur \in Offsets, NEW limit \in Int, NEW N, N \subseteq Nodes,
           NEW acc \in AptsAcc(N), NEW n \in N
    PROVE  /\ AptsStep(cur, limit, acc, n) \in AptsAcc(N)
           /\ Len(AptsStep(cur, limit, acc, n).keep) <= Len(acc.keep) + 1
<1> DEFINE d == Dist(cur, n.offset)
           drop == d > limit /\ d > OutOfBuffer /\ d # W \div 2
           hit == AptsHit(acc, d, limit)
           q == Append(acc.keep, n)
           c == AptsStep(cur, limit, acc, n)
<1>1. d \in Int
  BY DistNat, NodesAre
<1>2. q \in Seq(N) /\ Len(q) = Len(acc.keep) + 1 /\ acc.keep \in Seq(N) /\ Len(acc.keep) \in Nat
  <2>1. acc.keep \in Seq(N) /\ Len(acc.keep) \in Nat
    BY DEF AptsAcc
  <2> QED
    BY <2>1
<1>3. c = IF acc.stop \/ (d > limit /\ ~drop /\ acc.num > Tries)
          THEN [acc EXCEPT !.stop = TRUE, !.keep = q]
          ELSE [acc EXCEPT !.keep = IF drop THEN acc.keep ELSE q,
                           !.node = IF hit THEN n ELSE acc.node, !.diff = IF hit THEN d ELSE acc.diff,
                           !.num = IF hit \/ acc.node # None THEN acc.num + 1 ELSE acc.num]
  BY DEF AptsStep, AptsVisit
<1> HIDE DEF d, drop, hit, q
<1>4. CASE acc.stop \/ (d > limit /\ ~drop /\ acc.num > Tries)
  <2>1. c = [acc EXCEPT !.stop = TRUE, !.keep = q]
    BY <1>3, <1>4
  <2> HIDE DEF c
  <2>2. c \in AptsAcc(N) /\ c.keep = q
    BY <2>1, <1>2 DEF AptsAcc
  <2> QED
    BY <2>2, <1>2 DEF c
<1>5. CASE ~(acc.stop \/ (d > limit /\ ~drop /\ acc.num > Tries))
  <2>1. PICK node \in N \cup {None} : node = IF hit THEN n ELSE acc.node
    BY DEF AptsAcc
  <2>2. PICK diff \in Int : diff = IF hit THEN d ELSE acc.diff
    BY <1>1 DEF AptsAcc
  <2>3. PICK num \in Int : num = IF hit \/ acc.node # None THEN acc.num + 1 ELSE acc.num
    BY DEF AptsAcc
  <2> DEFINE keep == IF drop THEN acc.keep ELSE q
  <2>4. keep \in Seq(N) /\ Len(keep) <= Len(acc.keep) + 1
    BY <1>2
  <2>5. c = [acc EXCEPT !.keep = keep, !.node = node, !.diff = diff, !.num = num]
    BY <1>3, <1>5, <2>1, <2>2, <2>3
  <2> HIDE DEF c, keep
  <2>6. c \in AptsAcc(N) /\ c.keep = keep
    BY <2>4, <2>5 DEF AptsAcc
  <2> QED
    BY <2>6, <2>4 DEF c
<1> QED
  BY <1>4, <1>5

LEMMA AptsSearchIs ==
    ASSUME NEW N, N \subseteq Nodes, NEW l \in Seq(N), NEW cur \in Offsets, NEW limit \in Int
    PROVE  LET s == AptsSearch(l, cur, limit) IN s \in AptsAcc(N) /\ Len(s.keep) <= Len(l)
<1> DEFINE U == AptsAcc(N)
           A == [k \in Nat |-> {a \in U : Len(a.keep) <= k}]
           b == [keep |-> <<>>, node |-> None, diff |-> limit, num |-> 0, stop |-> FALSE]
           n == Len(l)
           F == [k \in 0..n |-> [a \in U |-> AptsStep(cur, limit, a, l[k + 1])]]
           Run(r) == r = [k \in 0..n |-> IF k = 0 THEN b ELSE AptsStep(cur, limit, r[k - 1], l[k])]
           at == CHOOSE r : Run(r)
<1>1. n \in Nat /\ DOMAIN l = 1..n
  OBVIOUS
<1>2. b \in A[0]
  <2>1. b \in U /\ Len(b.keep) = 0
    BY DEF AptsAcc
  <2> HIDE DEF b, U
  <2> QED
    BY <2>1
<1> HIDE DEF U, b
<1>3. ASSUME NEW k \in 0..n, k < n, NEW a \in A[k]
      PROVE  F[k][a] = AptsStep(cur, limit, a, l[k + 1]) /\ AptsStep(cur, limit, a, l[k + 1]) \in A[k + 1]
  <2>1. k + 1 \in 1..n /\ k \in Nat /\ k + 1 \in Nat
    BY <1>1, <1>3
  <2>2. PICK e \in N : e = l[k + 1]
    BY <1>1, <2>1
  <2>3. a \in U /\ Len(a.keep) <= k /\ Len(a.keep) \in Nat
    <3>1. a \in U /\ Len(a.keep) <= k
      BY <2>1
    <3> QED
      BY <3>1 DEF U, AptsAcc
  <2>4. F[k][a] = AptsStep(cur, limit, a, l[k + 1])
    BY <2>3
  <2>5. PICK c \in U : c = AptsStep(cur, limit, a, e) /\ Len(c.keep) <= Len(a.keep) + 1
    BY <2>3, AptsStepIs DEF U
  <2>6. Len(c.keep) <= k + 1
    <3>1. Len(c.keep) \in Nat
      BY <2>5 DEF U, AptsAcc
    <3> QED
      BY <3>1, <2>1, <2>3, <2>5
  <2>7. c \in A[k + 1]
    BY <2>1, <2>5, <2>6
  <2> QED
    BY <2>2, <2>4, <2>5, <2>7
<1>4. Leads(F, A, n)
  <2> HIDE DEF F, A
  <2> QED
    BY <1>3 DEF Leads
<1> HIDE DEF F, A, n
<1>5. PICK r : r[0] = b /\ Walks(r, F, A, n)
  <2> HIDE DEF Run, at
  <2> QED
    BY <1>1, <1>2, <1>4, StepsExist
<1>6. \A k \in 0..n : r[k] \in A[k]
  <2> HIDE DEF Run, at
  <2> QED
    BY <1>1, <1>2, <1>4, <1>5, StepsStay
<1>7. Run([k \in 0..n |-> r[k]])
  <2>1. ASSUME NEW k \in 0..n, k # 0 PROVE r[k] = AptsStep(cur, limit, r[k - 1], l[k])
    <3>1. k - 1 \in 0..n /\ k - 1 < n /\ k - 1 + 1 = k
      BY <1>1, <2>1
    <3> QED
      BY <3>1, <1>3, <1>5, <1>6 DEF Walks
  <2>2. \A k \in 0..n : k # 0 => k - 1 \in 0..n
    BY <1>1
  <2> QED
    BY <2>1, <2>2, <1>5
<1>8. Run(at)
  BY <1>7
<1>9. AptsSearch(l, cur, limit) = at[n]
  BY DEF AptsSearch, Walk, b, n
<1> HIDE DEF at
<1>10. at[0] \in A[0]
  BY <1>1, <1>2, <1>8
<1>11. Walks(at, F, A, n)
  <2>1. ASSUME NEW k \in 0..n, k < n, at[k] \in A[k] PROVE at[k + 1] = F[k][at[k]]
    <3>1. k + 1 \in 0..n /\ k + 1 # 0 /\ k + 1 - 1 = k
      BY <1>1, <2>1
    <3>2. at[k + 1] = AptsStep(cur, limit, at[k], l[k + 1])
      BY <3>1, <1>8
    <3> QED
      BY <3>2, <1>3, <2>1
  <2> QED
    BY <2>1 DEF Walks
<1>12. at[n] \in A[n]
  <2> HIDE DEF Run
  <2> QED
    BY <1>1, <1>4, <1>10, <1>11, StepsStay
<1>13. at[n] \in U /\ Len(at[n].keep) <= n
  BY <1>1, <1>12 DEF A
<1> QED
  BY <1>9, <1>13 DEF U, n

-----------------------------------------------------------------------------
(* Check-out *)

\* j is i without some of its nodes: the stream goes on where it did
OutOf(i, j) ==
    /\ InsOK(j) /\ Keeps(i, j) /\ Marks(j.list) \subseteq Marks(i.list)
    /\ j.pieceOffset = i.pieceOffset /\ j.pieceSize = i.pieceSize /\ j.align = i.align

LEMMA OutOfOut ==
    ASSUME NEW i, NEW j, NEW k, OutOf(i, j), OutOf(j, k)
    PROVE  OutOf(i, k)
BY DEF OutOf, Keeps

LEMMA SameOut ==
    ASSUME NEW i, NEW j, NEW S, Same(i, j, S), InsOK(i), InsOK(j),
           S \cap {"id", "ref", "nodes", "list", "pieceOffset", "pieceSize", "align"} = {}
    PROVE  OutOf(i, j)
BY DEF Same, Fields, Keeps, OutOf

LEMMA FreedOut ==
    ASSUME NEW i, InsOK(i), NEW keep \in Seq(Looks(i.list)), Len(keep) <= Len(i.list)
    PROVE  OutOf(i, Freed(i, keep)) /\ Freed(i, keep).list = keep
<1>1. i.list \in Seq(Nodes)
  BY DEF InsOK
<1>2. keep \in Seq(Nodes) /\ Marks(keep) \subseteq Marks(i.list)
  BY <1>1, LooksAre
<1>3. /\ InsOK(Freed(i, keep)) /\ Same(i, Freed(i, keep), {"list", "free", "size"})
      /\ Freed(i, keep).list = keep
  BY <1>2, FreedIs
<1> QED
  BY <1>2, <1>3 DEF Same, Fields, Keeps, OutOf

LEMMA UnlinkedIs ==
    ASSUME NEW i, InsOK(i), NEW n
    PROVE  OutOf(i, Unlinked(i, n))
<1> DEFINE l == i.list
           S == {m \in ToSet(i.list) : m.index = n.index}
           w == Without(l, S)
<1>1. l \in Seq(Nodes) /\ Len(l) \in Nat
  BY DEF InsOK
<1>2. w \in Seq(Nodes) /\ Range(w) = Range(l) \ S
  BY <1>1, WithoutOK
<1>3. Len(w) <= Len(l)
  <2> DEFINE K == Kept(l, S)
  <2>1. K \subseteq 1..Len(l)
    BY <1>1 DEF Kept
  <2>2. Cardinality(K) <= Cardinality(1..Len(l)) /\ Cardinality(K) \in Nat /\ IsFiniteSet(K)
    BY <1>1, <2>1, CountedTo, FS_Subset, FS_CardinalityType
  <2>3. w = [k \in 1..Cardinality(K) |-> l[Nth(K, k)]]
    BY DEF Without
  <2> HIDE DEF K, w
  <2>4. Len(w) = Cardinality(K)
    BY <1>2, <2>2, <2>3
  <2> QED
    BY <1>1, <2>2, <2>4, CountedTo
<1>4. w \in Seq(Looks(l))
  <2>1. Range(w) \subseteq Looks(l)
    BY <1>1, <1>2, LooksAre
  <2>2. w \in Seq(Range(w))
    BY <1>2, SeqOver
  <2> QED
    BY <2>1, <2>2, SeqIn
<1> HIDE DEF w
<1>5. OutOf(i, Freed(i, w))
  BY <1>3, <1>4, FreedOut
<1> QED
  BY <1>5 DEF Unlinked, w

LEMMA DivType == ASSUME NEW x \in Int, NEW y \in Nat, y > 0 PROVE x \div y \in Int
OBVIOUS

LEMMA LaterType == ASSUME NEW a \in Stamps, NEW b \in Stamps PROVE Later(a, b) \in Int
BY StampsAre, ModP DEF Later

LEMMA TimedIs ==
    ASSUME NEW i, InsOK(i), NEW pts \in Stamps
    PROVE  InsOK(Timed(i, pts)) /\ OutOf(i, Timed(i, pts))
<1> DEFINE S == {"started", "frameDur", "doubleDur", "doubleCount"}
           j == Timed(i, pts)
           first == Later(pts, i.outPts) \div (i.fails + 1)
           next == Later(pts, i.doublePts) \div (i.fails + 1)
           count == IF next = i.doubleDur THEN i.doubleCount + 1 ELSE 0
<1>1. first \in Int /\ next \in Int
  <2>1. i.fails + 1 \in Nat /\ i.fails + 1 > 0 /\ i.outPts \in Stamps /\ i.doublePts \in Stamps
    BY SMTT(30) DEF InsOK
  <2> QED
    BY <2>1, LaterType, DivType
<1>2. j = IF ~i.started THEN [i EXCEPT !.started = TRUE]
          ELSE IF i.frameDur = 0
          THEN [i EXCEPT !.frameDur = IF first > MaxDuration THEN 0 ELSE first]
          ELSE [i EXCEPT !.doubleDur = next,
                         !.doubleCount = IF count > DoubleCheck THEN 0 ELSE count,
                         !.frameDur = IF count > DoubleCheck THEN next ELSE i.frameDur]
  BY DEF Timed
<1> HIDE DEF first, next, count, j
<1>3. i.frameDur \in Int /\ DOMAIN i = Fields
  BY DEF InsOK
<1>4. Same(i, j, S) /\ j.frameDur \in Int
  <2>1. CASE ~i.started
    BY <1>2, <1>3, <2>1 DEF Same, Fields
  <2>2. CASE i.started /\ i.frameDur = 0
    BY <1>1, <1>2, <1>3, <2>2 DEF Same, Fields
  <2>3. CASE i.started /\ i.frameDur # 0
    BY <1>1, <1>2, <1>3, <2>3 DEF Same, Fields
  <2> QED
    BY <2>1, <2>2, <2>3
<1>5. InsOK(j)
  BY <1>4, SameOK
<1>6. OutOf(i, j)
  BY <1>4, <1>5, SameOut
<1> QED
  BY <1>5, <1>6 DEF j

LEMMA FoundIs ==
    ASSUME NEW i, InsOK(i), NEW node, NEW pts \in Stamps, NEW cur \in Offsets, NEW dur \in Int
    PROVE  OutOf(i, Found(i, node, pts, cur, dur).ins)
<1> DEFINE i2 == IF node = None THEN i ELSE Unlinked(i, node)
           i3 == Timed(i2, pts)
           j == [i3 EXCEPT !.fails = 0, !.outPts = pts, !.peekPts = pts,
                           !.doublePts = pts, !.decDur = dur, !.curOffset = cur]
<1>1. Found(i, node, pts, cur, dur).ins = j
  BY DEF Found
<1>2. OutOf(i, i2)
  <2>1. OutOf(i, i)
    BY DEF OutOf, Keeps
  <2> QED
    BY <2>1, UnlinkedIs
<1> HIDE DEF i2
<1>3. InsOK(i3) /\ OutOf(i2, i3)
  BY <1>2, TimedIs DEF OutOf
<1> HIDE DEF i3
<1>4. /\ Same(i3, j, {"fails", "outPts", "peekPts", "doublePts", "decDur", "curOffset"})
      /\ j.fails = 0 /\ j.outPts = pts /\ j.doublePts = pts /\ j.decDur = dur /\ j.curOffset = cur
  BY <1>3 DEF InsOK, Same, Fields
<1> HIDE DEF j
<1>5. InsOK(j)
  BY <1>3, <1>4, SameOK
<1>6. OutOf(i3, j)
  BY <1>3, <1>4, <1>5, SameOut
<1> QED
  BY <1>1, <1>2, <1>3, <1>6, OutOfOut

LEMMA FailedIs ==
    ASSUME NEW i, InsOK(i), NEW cur \in Offsets
    PROVE  OutOf(i, Failed(i, cur).ins)
<1> DEFINE pts == IF i.decDur # 0 THEN (i.outPts + i.decDur) % P
                  ELSE IF ~i.started THEN MinusOne
                  ELSE (i.outPts + i.frameDur) % P
           j == [i EXCEPT !.fails = @ + 1, !.outPts = pts, !.curOffset = cur,
                          !.sticky = @ /\ cur >= i.curOffset]
<1>1. pts \in Stamps
  <2>1. i.outPts \in Stamps /\ i.decDur \in Int /\ i.frameDur \in Int
    BY DEF InsOK
  <2>2. i.outPts + i.decDur \in Int /\ i.outPts + i.frameDur \in Int
    BY <2>1, StampsAre
  <2> QED
    BY <2>2, ModP, StampsAre
<1>2. Failed(i, cur).ins = j
  BY DEF Failed
<1> HIDE DEF pts
<1>3. /\ Same(i, j, {"fails", "outPts", "curOffset", "sticky"})
      /\ j.fails = i.fails + 1 /\ j.outPts = pts /\ j.curOffset = cur
  BY DEF InsOK, Same, Fields
<1>4. j.fails \in Nat
  BY <1>3 DEF InsOK
<1> HIDE DEF j
<1>5. InsOK(j)
  BY <1>1, <1>3, <1>4, SameOK
<1>6. OutOf(i, j)
  BY <1>3, <1>5, SameOut
<1> QED
  BY <1>2, <1>6

LEMMA C2NodeIs ==
    ASSUME NEW i, InsOK(i), NEW cur \in Offsets
    PROVE  C2Node(i, cur) \in Nodes \cup {None}
<1> DEFINE Fits(n) == /\ Past(cur, n) /\ n.offset >= i.curOffset
                      /\ i.started => Dist(cur, n.offset) < Dist(cur, i.curOffset)
           S == {k \in DOMAIN i.list : Fits(i.list[k])}
           Dif(k) == Dist(cur, i.list[k].offset)
           Least == {k \in S : \A j \in S : Dif(k) <= Dif(j)}
           x == CHOOSE k \in Least : \A j \in Least : k <= j
<1>1. i.list \in Seq(Nodes) /\ \A k \in DOMAIN i.list : i.list[k] \in Nodes
  BY DEF InsOK
<1>2. S # {} => x \in DOMAIN i.list
  <2>1. SUFFICES ASSUME S # {} PROVE x \in DOMAIN i.list
    OBVIOUS
  <2>2. \A k \in S : Dif(k) \in Nat
    <3>1. ASSUME NEW k \in S PROVE Dif(k) \in Nat
      <4>1. i.list[k].offset \in Offsets
        BY <1>1, NodesAre
      <4> QED
        BY <4>1, DistNat
    <3> QED
      BY <3>1
  <2>3. S \subseteq Nat /\ S \subseteq DOMAIN i.list
    BY <1>1
  <2> HIDE DEF S
  <2>4. PICK k \in S : \A j \in S : Dif(k) <= Dif(j)
    <3> HIDE DEF Dif
    <3> DEFINE T == {Dif(k) : k \in S}
    <3>1. T \in SUBSET Nat /\ T # {}
      BY <2>1, <2>2
    <3>2. PICK d \in T : \A e \in T : d <= e
      <4> HIDE DEF T
      <4> QED
        BY <3>1, Smallest
    <3> QED
      BY <3>2
  <2> HIDE DEF Dif
  <2>5. Least \in SUBSET Nat /\ Least # {}
    BY <2>3, <2>4
  <2> HIDE DEF Least
  <2>6. \E y \in Least : \A j \in Least : y <= j
    BY <2>5, Smallest
  <2>7. x \in Least
    BY <2>6
  <2> QED
    BY <2>3, <2>7 DEF Least
<1>3. C2Node(i, cur) = IF S # {} THEN i.list[x]
                       ELSE IF ~i.started /\ i.list # <<>> THEN i.list[1] ELSE None
  BY DEF C2Node
<1>4. i.list # <<>> => 1 \in DOMAIN i.list
  BY <1>1
<1> HIDE DEF S, x
<1> QED
  BY <1>1, <1>2, <1>3, <1>4

LEMMA FallbackIs ==
    ASSUME NEW i, InsOK(i), NEW n \in Nodes \cup {None}, NEW dur \in Int
    PROVE  OutOf(i, Fallback(i, n, dur).ins)
<1>1. CASE n # None
  <2>1. n.pts \in Stamps /\ n.offset \in Offsets
    BY <1>1, NodesAre
  <2> QED
    BY <1>1, <2>1, FoundIs DEF Fallback
<1>2. CASE n = None
  <2>1. PICK pts \in Stamps : pts = IF i.started THEN i.outPts ELSE 0
    BY StampsAre DEF InsOK
  <2>2. i.curOffset \in Offsets
    BY DEF InsOK
  <2> QED
    BY <1>2, <2>1, <2>2, FoundIs DEF Fallback
<1> QED
  BY <1>1, <1>2

LEMMA SettledIs ==
    ASSUME NEW i, InsOK(i), NEW c, c.node \in Nodes \cup {None}, NEW cur \in Offsets, NEW dur \in Int
    PROVE  OutOf(i, Settled(i, c, cur, dur).ins)
<1> DEFINE i2 == [i EXCEPT !.sticky = c.sticky, !.notFirst = ~c.first]
<1>1. Same(i, i2, {"sticky", "notFirst"})
  BY DEF InsOK, Same, Fields
<1>2. Settled(i, c, cur, dur) = IF c.node # None THEN Found(i2, c.node, c.node.pts, cur, dur)
                                ELSE IF i.c2 THEN Fallback(i2, C2Node(i, cur), dur)
                                ELSE Failed(i2, cur)
  BY DEF Settled
<1> HIDE DEF i2
<1>3. InsOK(i2)
  BY <1>1, SameOK
<1>4. OutOf(i, i2)
  BY <1>1, <1>3, SameOut
<1>5. OutOf(i2, Settled(i, c, cur, dur).ins)
  <2>1. CASE c.node # None
    <3>1. c.node.pts \in Stamps
      BY <2>1, NodesAre
    <3> QED
      BY <1>2, <1>3, <2>1, <3>1, FoundIs
  <2>2. CASE c.node = None /\ i.c2
    BY <1>2, <1>3, <2>2, C2NodeIs, FallbackIs
  <2>3. CASE c.node = None /\ ~i.c2
    BY <1>2, <1>3, <2>3, FailedIs
  <2> QED
    BY <2>1, <2>2, <2>3
<1> QED
  BY <1>4, <1>5, OutOfOut

LEMMA CheckoutPtsIs ==
    ASSUME NEW i, InsOK(i), NEW cur \in Offsets, NEW dur \in Int
    PROVE  OutOf(i, CheckoutPts(i, cur, dur).ins)
<1>1. CASE cur = NoOffset \/ i.list = <<>>
  BY <1>1, FailedIs DEF CheckoutPts
<1>2. CASE ~(cur = NoOffset \/ i.list = <<>>)
  <2> DEFINE N == Looks(i.list)
  <2>1. PICK s : s = Search(i, cur) /\ s \in SearchAcc(N) /\ Len(s.keep) <= Len(i.list)
    BY SearchIs
  <2>2. /\ N \subseteq Nodes /\ s.keep \in Seq(N)
        /\ {s.key, s.fitOffset, s.fitPts} \subseteq N \cup {None}
    <3>1. N \subseteq Nodes
      BY DEF Looks
    <3> HIDE DEF N
    <3> QED
      BY <2>1, <3>1 DEF SearchAcc
  <2>3. PICK f : f = Freed(i, s.keep)
    OBVIOUS
  <2>4. OutOf(i, f) /\ InsOK(f)
    BY <2>1, <2>2, <2>3, FreedOut DEF OutOf
  <2> HIDE DEF N
  <2>5. PICK c : c = Choose(i, s)
    OBVIOUS
  <2>6. c.node \in {s.key, s.fitOffset, s.fitPts}
    BY <2>5 DEF Choose, Choice
  <2>7. PICK g : g = Chosen(i, s.keep, c, cur)
    OBVIOUS
  <2>8. g.node \in Nodes \cup {None}
    <3>1. FirstSearch(s.keep, cur).node \in N \cup {None}
      BY <2>2, FirstSearchIs DEF FirstAcc
    <3>2. g.node \in {c.node, FirstSearch(s.keep, cur).node}
      BY <2>7 DEF Chosen, Choice
    <3> QED
      BY <2>2, <2>6, <3>1, <3>2
  <2>9. OutOf(f, Settled(f, g, cur, dur).ins)
    BY <2>4, <2>8, SettledIs
  <2>10. CheckoutPts(i, cur, dur) = Settled(f, g, cur, dur)
    BY <1>2, <2>1, <2>3, <2>5, <2>7 DEF CheckoutPts, Searched
  <2> QED
    BY <2>4, <2>9, <2>10, OutOfOut
<1> QED
  BY <1>1, <1>2

LEMMA PeekIs ==
    ASSUME NEW i, InsOK(i), NEW cur
    PROVE  OutOf(i, Peek(i, cur).ins)
<1>1. PICK pts : Peek(i, cur).ins = [i EXCEPT !.peekPts = pts]
  BY DEF Peek
<1>2. Same(i, Peek(i, cur).ins, {"peekPts"})
  BY <1>1 DEF InsOK, Same, Fields
<1>3. InsOK(Peek(i, cur).ins)
  BY <1>2, SameOK
<1> QED
  BY <1>2, <1>3, SameOut

LEMMA AptsOutIs ==
    ASSUME NEW i, InsOK(i), NEW node \in Nodes \cup {None}, NEW cur \in Offsets
    PROVE  OutOf(i, AptsOut(i, node, cur).ins)
<1> DEFINE u == IF node = None THEN i ELSE Unlinked(i, node)
           i2 == [u EXCEPT !.curOffset = cur]
           pts == IF node # None /\ node.pts # MinusOne THEN node.pts
                  ELSE IF i.started THEN MinusOne ELSE i.firstPts
           found == (node # None /\ node.pts # MinusOne) \/ ~i.started
           j == AptsOut(i, node, cur).ins
<1>1. j = IF found THEN [i2 EXCEPT !.started = TRUE, !.fails = 0, !.outPts = pts, !.doublePts = pts]
          ELSE [i2 EXCEPT !.fails = @ + 1]
  BY DEF AptsOut
<1>2. pts \in Stamps
  <2>1. i.firstPts \in Stamps /\ (node # None => node.pts \in Stamps)
    BY NodesAre DEF InsOK
  <2> QED
    BY <2>1, StampsAre
<1> HIDE DEF pts, found
<1>3. OutOf(i, u)
  <2>1. OutOf(i, i)
    BY DEF OutOf, Keeps
  <2> QED
    BY <2>1, UnlinkedIs
<1> HIDE DEF u
<1>4. InsOK(u) /\ Same(u, i2, {"curOffset"}) /\ i2.curOffset = cur
  BY <1>3 DEF OutOf, InsOK, Same, Fields
<1> HIDE DEF i2
<1>5. InsOK(i2) /\ OutOf(u, i2)
  <2>1. InsOK(i2)
    BY <1>4, SameOK
  <2> QED
    BY <2>1, <1>4, SameOut
<1> HIDE DEF j
<1>6. Same(i2, j, {"started", "fails", "outPts", "doublePts"}) /\ j.fails \in Nat /\ j.outPts \in Stamps
      /\ j.doublePts \in Stamps
  <2>1. DOMAIN i2 = Fields /\ i2.fails \in Nat /\ i2.outPts \in Stamps /\ i2.doublePts \in Stamps
    BY <1>5 DEF InsOK
  <2>2. CASE found
    BY <1>1, <1>2, <2>1, <2>2 DEF Same, Fields
  <2>3. CASE ~found
    BY <1>1, <1>2, <2>1, <2>3 DEF Same, Fields
  <2> QED
    BY <2>2, <2>3
<1>7. InsOK(j) /\ OutOf(i2, j)
  <2>1. InsOK(j)
    BY <1>5, <1>6, SameOK
  <2> QED
    BY <2>1, <1>5, <1>6, SameOut
<1> QED
  BY <1>3, <1>5, <1>7, OutOfOut DEF j

LEMMA CheckoutAptsIs ==
    ASSUME NEW i, InsOK(i), NEW cur \in Offsets
    PROVE  OutOf(i, CheckoutApts(i, cur).ins)
<1>1. CASE cur = NoOffset \/ i.list = <<>>
  BY <1>1, AptsOutIs DEF CheckoutApts
<1>2. CASE ~(cur = NoOffset \/ i.list = <<>>)
  <2> DEFINE N == Looks(i.list)
  <2>1. PICK limit \in Int : limit = IF i.margin = 0 THEN Threshold ELSE i.margin
    BY Widths DEF InsOK
  <2>2. N \subseteq Nodes /\ i.list \in Seq(N)
    <3>1. i.list \in Seq(Nodes)
      BY DEF InsOK
    <3> QED
      BY <3>1, LooksAre DEF Looks
  <2> HIDE DEF N
  <2>3. PICK s : s = AptsSearch(i.list, cur, limit) /\ s \in AptsAcc(N) /\ Len(s.keep) <= Len(i.list)
    BY <2>1, <2>2, AptsSearchIs
  <2>4. s.keep \in Seq(N) /\ s.node \in Nodes \cup {None}
    BY <2>2, <2>3 DEF AptsAcc
  <2>5. PICK f : f = Freed(i, s.keep)
    OBVIOUS
  <2>6. OutOf(i, f) /\ InsOK(f)
    BY <2>3, <2>4, <2>5, FreedOut DEF OutOf, N
  <2>7. OutOf(f, AptsOut(f, s.node, cur).ins)
    BY <2>4, <2>6, AptsOutIs
  <2>8. CheckoutApts(i, cur) = AptsOut(f, s.node, cur)
    BY <1>2, <2>1, <2>3, <2>5 DEF CheckoutApts, AptsFound
  <2> QED
    BY <2>6, <2>7, <2>8, OutOfOut
<1> QED
  BY <1>1, <1>2

-----------------------------------------------------------------------------
(* Making and resetting an instance *)

LEMMA NewInsIs ==
    ASSUME NEW id, NEW n \in {0, MaxCount}
    PROVE  LET j == NewIns(id, n) IN InsOK(j) /\ j.id = id /\ j.ref = 1 /\ j.list = <<>> /\ j.pieceSize = 0 /\ j.nodes = n
<1> DEFINE j == NewIns(id, n)
<1>1. DOMAIN j = Fields
  BY DEF NewIns, Fields
<1>2. /\ j.id = id /\ j.ref = 1 /\ j.nodes = n /\ j.free = n /\ j.list = <<>> /\ j.size = 0
      /\ j.dropIndex = 0 /\ j.index = 0 /\ j.pieceOffset = 0 /\ j.pieceSize = 0 /\ j.align = 0
      /\ j.inPts = 0 /\ j.inCount = 0 /\ j.firstPts = 0 /\ j.fails = 0 /\ j.frameDur = 0
      /\ j.doublePts = 0 /\ j.decDur = 0 /\ j.outPts = 0 /\ j.curOffset = 0 /\ j.margin = 0
  BY DEF NewIns
<1> HIDE DEF j
<1>3. 0 \in Offsets /\ 0 \in Stamps /\ n \in Nat /\ <<>> \in Seq(Nodes) /\ Len(<<>>) = 0
  BY Widths, StampsAre DEF Offsets
<1>4. InsOK(j)
  BY <1>1, <1>2, <1>3 DEF InsOK
<1> QED
  BY <1>2, <1>4 DEF j

LEMMA ResetIs ==
    ASSUME NEW i, InsOK(i)
    PROVE  InsOK(Reset(i)) /\ Keeps(i, Reset(i)) /\ Reset(i).list = <<>>
<1> DEFINE n == NewIns(i.id, i.nodes)
           j == [n EXCEPT !.ref = i.ref, !.free = i.free + Len(i.list), !.dropIndex = i.dropIndex,
                          !.index = i.index, !.peekPts = i.peekPts]
<1>1. InsOK(n) /\ n.id = i.id /\ n.nodes = i.nodes /\ n.list = <<>> /\ n.size = 0
  <2>1. i.nodes \in {0, MaxCount}
    BY DEF InsOK
  <2>2. InsOK(n) /\ n.id = i.id /\ n.nodes = i.nodes /\ n.list = <<>>
    BY <2>1, NewInsIs
  <2>3. Len(n.list) = 0
    BY <2>2
  <2> QED
    BY <2>2, <2>3 DEF InsOK
<1>2. Reset(i) = j
  BY DEF Reset
<1> HIDE DEF n
<1>3. /\ j.ref = i.ref /\ j.id = n.id /\ j.nodes = n.nodes /\ j.list = n.list /\ j.size = n.size
      /\ j.free = i.free + Len(i.list) /\ j.dropIndex = i.dropIndex /\ j.index = i.index
      /\ DOMAIN j = Fields /\ j.inCount = n.inCount /\ j.inPts = n.inPts
      /\ j.pieceOffset = n.pieceOffset /\ j.pieceSize = n.pieceSize /\ j.align = n.align
      /\ j.firstPts = n.firstPts /\ j.outPts = n.outPts /\ j.doublePts = n.doublePts
      /\ j.curOffset = n.curOffset /\ j.fails = n.fails /\ j.frameDur = n.frameDur
      /\ j.decDur = n.decDur /\ j.margin = n.margin
  BY <1>1 DEF InsOK, Fields
<1> HIDE DEF j
<1>4. /\ i.free + Len(i.list) = i.nodes /\ i.nodes \in Nat /\ i.dropIndex \in Int /\ i.index \in Int
  <2>1. i.free + i.size = i.nodes /\ i.size = Len(i.list) /\ i.nodes \in {0, MaxCount}
    BY DEF InsOK
  <2>2. i.dropIndex \in Int /\ i.index \in Int
    BY DEF InsOK
  <2> QED
    BY <2>1, <2>2, Widths
<1>5. InsOK(j)
  <2>1. j.size = Len(j.list) /\ j.free \in Nat /\ j.free + j.size = j.nodes
    <3>1. Len(j.list) = 0 /\ j.size = 0 /\ j.nodes = i.nodes /\ j.free = i.nodes
      BY <1>1, <1>3, <1>4
    <3> QED
      BY <3>1, <1>4
  <2> QED
    BY <2>1, <1>1, <1>3, <1>4 DEF InsOK
<1> QED
  BY <1>1, <1>2, <1>3, <1>5 DEF Keeps

-----------------------------------------------------------------------------
(* The table: its inductive invariant *)

UserRecords ==
    [st : {"closed", "open"}, opens : Nat, id : Int,
     op : {"none", "bind", "release", "ioctl", "resetting", "reset", "call"},
     at : Slots \cup {-1}, holds : Slots \cup {-1}, ins : Nat, outs : Nat,
     frames : Seq([at : Offsets, pts : Stamps]), pos : Offsets \cup {-1}, out : Nat,
     disturbed : BOOLEAN]

TableType ==
    /\ setup \in Setups /\ cl \in [Clients -> UserRecords]
    /\ tab = [s \in Slots |-> tab[s]]
    /\ \A s \in Live : InsOK(tab[s])

\* What the look-up of an id gives
Names(at, id) ==
    IF at = -1 THEN \A s \in Live : tab[s].id # id
    ELSE at \in Live /\ tab[at].id = id

\* The calls of a user, each with what it relies on between its two locks
Phase(c) ==
    LET k == cl[c] IN
    /\ k.st = "closed" => k.holds = -1
    /\ k.op = "bind" => k.st = "closed" /\ ById(c) /\ k.id = setup[c].id
    /\ k.op \in {"call", "release", "ioctl"} => k.st = "open" /\ k.at = k.holds
    /\ k.op = "call" => ById(c)
    /\ k.op = "ioctl" => Kind(c) = "player" /\ setup[c].ioctl
    /\ k.op = "resetting" => ById(c) /\ k.st = "closed" /\ k.id = setup[c].id
    /\ k.op = "reset" => ById(c) /\ k.at \in Static \cup {-1}

\* What a binder found is true until it is done.
Binder(c) == cl[c].op = "bind" => Names(cl[c].at, cl[c].id)

\* A user by id holds the instance of its id.
Bound(c) ==
    LET k == cl[c] IN
    k.st = "open" /\ ById(c) =>
        k.id = setup[c].id /\ k.holds \in Static /\ k.holds \in Live /\ tab[k.holds].id = k.id

\* The owner of a dynamic instance holds it, or has released it by ioctl.
Owned(c) ==
    LET k == cl[c] IN
    k.st = "open" /\ ~ById(c) =>
        /\ Kind(c) \in {"v4l", "player"} /\ k.id \in Dynamic
        /\ \/ k.holds = k.id /\ k.id \in Live
           \/ k.holds = -1 /\ k.id \notin Live /\ Kind(c) = "player" /\ setup[c].ioctl

SlotIds ==
    \A s \in Live : /\ s \in Dynamic \cup Static
                    /\ s \in Dynamic => tab[s].id = s
                    /\ s \in Static => tab[s].id \notin Dynamic

UniqueIds == \A s, t \in Live : tab[s].id = tab[t].id => s = t

SoleOwner == \A c, d \in Clients : cl[c].holds \in Dynamic /\ cl[d].holds = cl[c].holds => c = d

OneBinder == \A c, d \in Clients : cl[c].op = "bind" /\ cl[d].op = "bind" => c = d

\* The stream user k writes into instance i
Streaming(i, k) ==
    /\ Marks(i.list) \subseteq Range(k.frames)
    /\ k.pos = -1 => i.list = <<>> /\ k.frames = <<>> /\ i.pieceSize = 0
    /\ (k.pos # -1 /\ i.nodes # 0) => k.pos = Onward(i)

Stream(c) ==
    (Kind(c) = "v4l" /\ cl[c].st = "open" /\ cl[c].id \in Live) => Streaming(tab[cl[c].id], cl[c])

TableInv ==
    /\ TableType /\ SlotIds /\ UniqueIds /\ SoleOwner /\ OneBinder /\ RefsExact
    /\ \A c \in Clients : Phase(c) /\ Binder(c) /\ Bound(c) /\ Owned(c) /\ Stream(c)

-----------------------------------------------------------------------------
(* Looking slots up *)

LEMMA SlotsAre ==
    /\ Slots \subseteq Nat /\ Dynamic \subseteq Slots /\ Static \subseteq Slots
    /\ Dynamic \cap Static = {} /\ -1 \notin Slots
    /\ IsFiniteSet(Dynamic) /\ Cardinality(Dynamic) = DynamicNum - 1
    /\ IsFiniteSet(Static) /\ Cardinality(Static) = InstanceNum - DynamicNum
<1>1. DynamicNum \in Nat \ {0} /\ InstanceNum \in Nat /\ DynamicNum <= InstanceNum
  BY ServerAssumption
<1>2. /\ Slots \subseteq Nat /\ Dynamic \subseteq Slots /\ Static \subseteq Slots
      /\ Dynamic \cap Static = {} /\ -1 \notin Slots
  BY <1>1 DEF Slots, Dynamic, Static
<1>3. IsFiniteSet(Dynamic) /\ Cardinality(Dynamic) = DynamicNum - 1
  <2>1. 0 \in Int /\ DynamicNum - 2 \in Int
    BY <1>1
  <2>2. /\ IsFiniteSet(0..(DynamicNum - 2))
        /\ Cardinality(0..(DynamicNum - 2)) = IF 0 > DynamicNum - 2 THEN 0 ELSE DynamicNum - 2 - 0 + 1
    BY <2>1, FS_Interval
  <2> QED
    BY <1>1, <2>2 DEF Dynamic
<1>4. IsFiniteSet(Static) /\ Cardinality(Static) = InstanceNum - DynamicNum
  <2>1. DynamicNum \in Int /\ InstanceNum - 1 \in Int
    BY <1>1
  <2>2. /\ IsFiniteSet(DynamicNum..(InstanceNum - 1))
        /\ Cardinality(DynamicNum..(InstanceNum - 1))
              = IF DynamicNum > InstanceNum - 1 THEN 0 ELSE InstanceNum - 1 - DynamicNum + 1
    BY <2>1, FS_Interval
  <2> QED
    BY <1>1, <2>2 DEF Static
<1> QED
  BY <1>2, <1>3, <1>4

LEMMA InsLive == ASSUME NEW i, InsOK(i) PROVE i # Null
<1>1. "id" \in DOMAIN i
  BY DEF InsOK, Fields
<1>2. "id" \notin DOMAIN <<>>
  OBVIOUS
<1> QED
  BY <1>1, <1>2 DEF Null

LEMMA IndexOfIs == ASSUME NEW id PROVE Names(IndexOf(id), id)
<1> DEFINE S == {s \in Slots : tab[s] # Null /\ tab[s].id = id}
           x == CHOOSE s \in S : \A t \in S : s <= t
<1>1. IndexOf(id) = IF S = {} THEN -1 ELSE x
  BY DEF IndexOf
<1>2. S \in SUBSET Nat /\ S \subseteq Live /\ -1 \notin S
  BY SlotsAre DEF Live
<1>3. CASE S = {}
  BY <1>1, <1>3 DEF Names, Live
<1>4. CASE S # {}
  <2>1. x \in S
    <3>1. \E s \in S : \A t \in S : s <= t
      BY <1>2, <1>4, Smallest
    <3> HIDE DEF S
    <3> QED
      BY <3>1
  <2>2. x \in Live /\ tab[x].id = id /\ x # -1
    BY <1>2, <2>1
  <2> HIDE DEF S, x
  <2> QED
    BY <1>1, <1>4, <2>2 DEF Names
<1> QED
  BY <1>3, <1>4

LEMMA FreeInIs ==
    ASSUME NEW S, S \subseteq Slots, ~(S \subseteq Live)
    PROVE  FreeIn(S) \in S /\ FreeIn(S) \notin Live /\ FreeIn(S) # -1
<1> DEFINE F == {s \in S : tab[s] = Null}
<1>1. F \in SUBSET Nat /\ F # {}
  BY SlotsAre DEF Live
<1>2. \E s \in F : \A t \in F : s <= t
  <2> HIDE DEF F
  <2> QED
    BY <1>1, Smallest
<1>3. FreeIn(S) = CHOOSE s \in F : \A t \in F : s <= t
  BY <1>1 DEF FreeIn
<1>4. FreeIn(S) \in F
  <2> HIDE DEF F
  <2> QED
    BY <1>2, <1>3
<1> QED
  BY <1>4, SlotsAre DEF Live

\* A set that maps into a smaller one by choosing a witness for each member
LEMMA TooMany ==
    ASSUME NEW A, NEW B, NEW f, IsFiniteSet(B), f \in [A -> B],
           \A x, y \in A : f[x] = f[y] => x = y
    PROVE  IsFiniteSet(A) /\ Cardinality(A) <= Cardinality(B)
<1>1. f \in Injection(A, B)
  BY DEF Injection, IsInjective
<1> QED
  BY <1>1, FS_Injection

\* Who holds a slot is open, and the slot is of its kind.
LEMMA HolderIs ==
    ASSUME TableInv, NEW c \in Clients, cl[c].holds # -1
    PROVE  /\ cl[c].st = "open" /\ cl[c].holds \in Live
           /\ IF ById(c) THEN cl[c].holds \in Static /\ tab[cl[c].holds].id = setup[c].id
              ELSE cl[c].holds \in Dynamic /\ Kind(c) \in {"v4l", "player"} /\ cl[c].id = cl[c].holds
<1>1. cl[c] \in UserRecords /\ Phase(c) /\ Bound(c) /\ Owned(c)
  BY DEF TableInv, TableType
<1>2. cl[c].st = "open"
  BY <1>1 DEF Phase, UserRecords
<1> QED
  BY <1>1, <1>2 DEF Bound, Owned

LEMMA HeldIs ==
    ASSUME TableInv, NEW s \in Live
    PROVE  \E c \in Clients : cl[c].holds = s
BY DEF TableInv, RefsExact, Live

LEMMA DynamicRoom ==
    ASSUME TableInv, Room, NEW c \in Clients, Kind(c) \in {"v4l", "player"}, cl[c].st = "closed"
    PROVE  ~(Dynamic \subseteq Live)
<1> DEFINE dyn == {d \in Clients : setup[d].kind \in {"v4l", "player"}}
           f == [s \in Dynamic |-> CHOOSE d \in Clients : cl[d].holds = s]
           B == dyn \ {c}
<1>1. SUFFICES ASSUME Dynamic \subseteq Live PROVE FALSE
  OBVIOUS
<1>2. setup \in Setups /\ Cardinality(dyn) < DynamicNum
  BY DEF TableInv, TableType, Room
<1>3. ASSUME NEW s \in Dynamic PROVE f[s] \in B /\ cl[f[s]].holds = s
  <2>1. \E d \in Clients : cl[d].holds = s
    BY <1>1, <1>3, HeldIs
  <2>2. PICK d \in Clients : d = f[s] /\ cl[d].holds = s
    BY <2>1
  <2>3. s # -1 /\ s \notin Static
    BY <1>3, SlotsAre
  <2>4. cl[d].st = "open" /\ Kind(d) \in {"v4l", "player"}
    BY <2>2, <2>3, HolderIs
  <2> QED
    BY <2>2, <2>4 DEF Kind
<1>4. f \in [Dynamic -> B]
  <2> HIDE DEF B
  <2> QED
    BY <1>3
<1>5. \A x, y \in Dynamic : f[x] = f[y] => x = y
  <2> HIDE DEF f
  <2> QED
    BY <1>3
<1>6. IsFiniteSet(dyn) /\ c \in dyn
  <2>1. IsFiniteSet(Clients) /\ dyn \subseteq Clients
    BY ServerAssumption
  <2> QED
    BY <2>1, FS_Subset DEF Kind
<1>7. IsFiniteSet(B) /\ Cardinality(B) = Cardinality(dyn) - 1
  <2> HIDE DEF dyn
  <2> QED
    BY <1>6, FS_RemoveElement
<1>8. Cardinality(Dynamic) <= Cardinality(B)
  <2> HIDE DEF B, f
  <2> QED
    BY <1>4, <1>5, <1>7, TooMany
<1>9. Cardinality(dyn) \in Nat /\ DynamicNum \in Nat
  BY <1>6, FS_CardinalityType, ServerAssumption
<1> HIDE DEF B, dyn
<1> QED
  BY <1>2, <1>7, <1>8, <1>9, SlotsAre

LEMMA StaticRoom ==
    ASSUME TableInv, Room, NEW c \in Clients, ById(c), Names(-1, setup[c].id)
    PROVE  ~(Static \subseteq Live)
<1> DEFINE byId == {d \in Clients : setup[d].kind \in {"audio", "demux"}}
           I == {setup[d].id : d \in byId}
           f == [s \in Static |-> tab[s].id]
           B == I \ {setup[c].id}
<1>1. SUFFICES ASSUME Static \subseteq Live PROVE FALSE
  OBVIOUS
<1>2. setup \in Setups /\ Cardinality(I) <= InstanceNum - DynamicNum
  BY DEF TableInv, TableType, Room
<1>3. ASSUME NEW s \in Static PROVE f[s] \in B /\ f[s] = tab[s].id
  <2>1. PICK d \in Clients : cl[d].holds = s
    BY <1>1, <1>3, HeldIs
  <2>2. s # -1 /\ s \notin Dynamic
    BY <1>3, SlotsAre
  <2>3. ById(d) /\ tab[s].id = setup[d].id
    BY <2>1, <2>2, HolderIs
  <2>4. tab[s].id # setup[c].id
    BY <1>1, <1>3 DEF Names
  <2> QED
    BY <1>3, <2>3, <2>4 DEF ById, Kind
<1>4. f \in [Static -> B]
  <2> HIDE DEF B
  <2> QED
    BY <1>3
<1>5. \A x, y \in Static : f[x] = f[y] => x = y
  <2> HIDE DEF f
  <2> QED
    BY <1>1, <1>3 DEF TableInv, UniqueIds
<1>6. IsFiniteSet(I) /\ setup[c].id \in I
  <2>1. IsFiniteSet(byId)
    <3>1. IsFiniteSet(Clients) /\ byId \subseteq Clients
      BY ServerAssumption
    <3> HIDE DEF byId
    <3> QED
      BY <3>1, FS_Subset
  <2>2. c \in byId
    BY DEF ById, Kind
  <2> DEFINE g == [d \in byId |-> setup[d].id]
  <2>3. g \in Surjection(byId, I)
    <3> HIDE DEF byId
    <3> QED
      BY DEF Surjection
  <2>4. IsFiniteSet(I)
    <3> HIDE DEF g, I, byId
    <3> QED
      BY <2>1, <2>3, FS_Surjection
  <2> QED
    BY <2>2, <2>4
<1>7. IsFiniteSet(B) /\ Cardinality(B) = Cardinality(I) - 1
  <2> HIDE DEF I
  <2> QED
    BY <1>6, FS_RemoveElement
<1>8. Cardinality(Static) <= Cardinality(B)
  <2> HIDE DEF B, f
  <2> QED
    BY <1>4, <1>5, <1>7, TooMany
<1>9. Cardinality(I) \in Nat /\ DynamicNum \in Nat /\ InstanceNum \in Nat
  BY <1>6, FS_CardinalityType, ServerAssumption
<1> HIDE DEF B, I
<1> QED
  BY <1>2, <1>7, <1>8, <1>9, SlotsAre

\* What an open user looks up is what it holds.
LEMMA IndexHolds ==
    ASSUME TableInv, NEW c \in Clients, cl[c].st = "open"
    PROVE  IndexOf(cl[c].id) = cl[c].holds
<1> DEFINE x == IndexOf(cl[c].id)
<1>1. Names(x, cl[c].id)
  BY IndexOfIs
<1> HIDE DEF x
<1>2. UniqueIds /\ SlotIds /\ Bound(c) /\ Owned(c)
  BY DEF TableInv
<1>3. x = cl[c].holds
  <2>1. CASE ById(c)
    <3>1. cl[c].holds \in Live /\ tab[cl[c].holds].id = cl[c].id
      BY <1>2, <2>1 DEF Bound
    <3> QED
      BY <3>1, <1>1, <1>2 DEF Names, UniqueIds
  <2>2. CASE ~ById(c) /\ cl[c].holds # -1
    <3>1. cl[c].holds = cl[c].id /\ cl[c].id \in Live /\ cl[c].id \in Dynamic
      BY <1>2, <2>2 DEF Owned
    <3>2. tab[cl[c].id].id = cl[c].id
      BY <3>1, <1>2 DEF SlotIds
    <3> QED
      BY <3>1, <3>2, <1>1, <1>2 DEF Names, UniqueIds
  <2>3. CASE ~ById(c) /\ cl[c].holds = -1
    <3>1. cl[c].id \in Dynamic /\ cl[c].id \notin Live
      BY <1>2, <2>3, SlotsAre DEF Owned
    <3> QED
      BY <3>1, <2>3, <1>1, <1>2 DEF Names, SlotIds
  <2> QED
    BY <2>1, <2>2, <2>3
<1> QED
  BY <1>3 DEF x

-----------------------------------------------------------------------------
(* Steps *)

\* A step of user c
StepOf(c) ==
    /\ setup' = setup /\ cl' \in [Clients -> UserRecords] /\ tab' = [s \in Slots |-> tab'[s]]
    /\ \A d \in Clients : d # c => cl'[d] = cl[d]

Elsewhere(x) == \A s \in Slots : s # x => tab'[s] = tab[s]

\* A step that leaves the table's users alone: at most the list of instance x changes
KeptTab(x) ==
    /\ Elsewhere(x)
    /\ \/ x \in Live /\ InsOK(tab'[x]) /\ Keeps(tab[x], tab'[x])
       \/ tab'[x] = tab[x]

LEMMA KeptIds ==
    ASSUME TableInv, NEW x, KeptTab(x)
    PROVE  /\ Live' = Live
           /\ \A s \in Live : tab'[s].id = tab[s].id /\ tab'[s].ref = tab[s].ref /\ InsOK(tab'[s])
<1>1. ASSUME NEW s \in Slots
      PROVE  /\ s \in Live' <=> s \in Live
             /\ s \in Live => /\ tab'[s].id = tab[s].id /\ tab'[s].ref = tab[s].ref
                              /\ InsOK(tab'[s])
  <2>1. CASE tab'[s] = tab[s]
    BY <2>1 DEF Live, TableInv, TableType
  <2>2. CASE tab'[s] # tab[s]
    <3>1. s = x /\ s \in Live /\ InsOK(tab'[s]) /\ Keeps(tab[s], tab'[s])
      BY <2>2 DEF KeptTab, Elsewhere
    <3>2. tab'[s] # Null
      BY <3>1, InsLive
    <3> QED
      BY <3>1, <3>2 DEF Keeps, Live
  <2> QED
    BY <2>1, <2>2
<1>2. \A s \in Live : s \in Slots
  BY DEF Live
<1>3. \A s \in Live' : s \in Slots
  BY DEF Live
<1>4. Live' = Live
  BY <1>1, <1>2, <1>3
<1> QED
  BY <1>1, <1>2, <1>4

\* The slot of a V4L2 user is its own.
LEMMA StreamSlot ==
    ASSUME TableInv, NEW d \in Clients, Kind(d) = "v4l", cl[d].st = "open"
    PROVE  cl[d].id \in Dynamic /\ cl[d].holds = cl[d].id /\ cl[d].id \in Live
<1>1. Owned(d) /\ ~ById(d)
  BY DEF TableInv, ById
<1> QED
  BY <1>1 DEF Owned

\* The streams of the others go on.
LEMMA StreamOthers ==
    ASSUME TableInv, NEW c \in Clients, NEW d \in Clients, d # c, StepOf(c), NEW x, Elsewhere(x),
           (Kind(d) = "v4l" /\ cl[d].st = "open") => cl[d].id # x
    PROVE  Stream(d)'
<1>1. SUFFICES ASSUME Kind(d) = "v4l", cl[d].st = "open"
               PROVE  Streaming(tab'[cl[d].id], cl[d])
  BY DEF Stream, StepOf, Kind
<1>2. cl[d].id \in Live /\ cl[d].id \in Slots /\ cl[d].id # x /\ Stream(d)
  BY <1>1, StreamSlot DEF TableInv, Live
<1>3. tab'[cl[d].id] = tab[cl[d].id]
  BY <1>2 DEF Elsewhere
<1> QED
  BY <1>1, <1>2, <1>3 DEF Stream

LEMMA KeptStep ==
    ASSUME TableInv, NEW c \in Clients, NEW x, StepOf(c), KeptTab(x),
           cl'[c].holds = cl[c].holds,
           cl'[c].st = "open" => cl[c].st = "open" /\ cl'[c].id = cl[c].id,
           cl'[c].op # "bind", Phase(c)', Stream(c)',
           \A d \in Clients : (d # c /\ Kind(d) = "v4l" /\ cl[d].st = "open") => cl[d].id # x
    PROVE  TableInv'
<1>1. /\ Live' = Live
      /\ \A s \in Live : tab'[s].id = tab[s].id /\ tab'[s].ref = tab[s].ref /\ InsOK(tab'[s])
  BY KeptIds
<1>2. \A d \in Clients : cl'[d].holds = cl[d].holds
  BY DEF StepOf
<1>3. \A d \in Clients : ById(d)' = ById(d) /\ Kind(d)' = Kind(d)
  BY DEF StepOf, ById, Kind
<1>4. TableType'
  BY <1>1 DEF TableInv, TableType, StepOf
<1>5. SlotIds' /\ UniqueIds'
  BY <1>1 DEF TableInv, SlotIds, UniqueIds
<1>6. SoleOwner' /\ OneBinder'
  BY <1>2 DEF TableInv, SoleOwner, OneBinder, StepOf
<1>7. RefsExact'
  <2>1. \A s \in Slots : {d \in Clients : cl'[d].holds = s} = {d \in Clients : cl[d].holds = s}
    BY <1>2
  <2>2. \A s \in Slots : (tab'[s] = Null <=> tab[s] = Null) /\ (tab[s] # Null => tab'[s].ref = tab[s].ref)
    BY <1>1 DEF Live
  <2> QED
    BY <2>1, <2>2 DEF TableInv, RefsExact
<1>8. ASSUME NEW d \in Clients PROVE Phase(d)' /\ Binder(d)' /\ Bound(d)' /\ Owned(d)' /\ Stream(d)'
  <2>1. Phase(d) /\ Binder(d) /\ Bound(d) /\ Owned(d)
    BY DEF TableInv
  <2>2. Bound(d)' /\ Owned(d)'
    <3>1. CASE cl'[d].st = "open"
      <4>1. cl[d].st = "open" /\ cl'[d].id = cl[d].id /\ cl'[d].holds = cl[d].holds
        BY <3>1 DEF StepOf
      <4> QED
        BY <4>1, <2>1, <1>1, <1>3 DEF Bound, Owned, StepOf
    <3>2. CASE cl'[d].st # "open"
      BY <3>2 DEF Bound, Owned
    <3> QED
      BY <3>1, <3>2
  <2>3. CASE d = c
    BY <2>2, <2>3 DEF Binder
  <2>4. CASE d # c
    <3>1. cl'[d] = cl[d] /\ setup' = setup
      BY <2>4 DEF StepOf
    <3>2. Phase(d)'
      BY <2>1, <3>1, <1>3 DEF Phase
    <3>3. Binder(d)'
      BY <2>1, <3>1, <1>1 DEF Binder, Names
    <3>4. Stream(d)'
      BY <2>4, StreamOthers DEF KeptTab
    <3> QED
      BY <2>2, <3>2, <3>3, <3>4
  <2> QED
    BY <2>3, <2>4
<1> QED
  BY <1>4, <1>5, <1>6, <1>7, <1>8 DEF TableInv

LEMMA UserStep ==
    ASSUME TableInv, NEW c \in Clients, NEW k \in UserRecords, cl' = [cl EXCEPT ![c] = k]
    PROVE  /\ cl' \in [Clients -> UserRecords] /\ cl'[c] = k
           /\ \A d \in Clients : d # c => cl'[d] = cl[d]
BY DEF TableInv, TableType

LEMMA IndexType == ASSUME NEW id PROVE IndexOf(id) \in Slots \cup {-1}
BY IndexOfIs DEF Names, Live

\* A look-up: the user is between its two locks.
LEMMA LookStep ==
    ASSUME TableInv, NEW c \in Clients, NEW op \in {"release", "ioctl", "reset", "call"},
           NEW at \in Slots \cup {-1},
           cl' = [cl EXCEPT ![c] = [@ EXCEPT !.op = op, !.at = at]], UNCHANGED <<setup, tab>>,
           op \in {"call", "release", "ioctl"} => cl[c].st = "open" /\ at = cl[c].holds,
           op = "call" => ById(c), op = "ioctl" => Kind(c) = "player" /\ setup[c].ioctl,
           op = "reset" => ById(c) /\ at \in Static \cup {-1}
    PROVE  TableInv'
<1>1. PICK k : k = [cl[c] EXCEPT !.op = op, !.at = at]
  OBVIOUS
<1>2. cl[c] \in UserRecords /\ Phase(c) /\ Stream(c)
  BY DEF TableInv, TableType
<1>3. /\ k \in UserRecords /\ k.op = op /\ k.at = at /\ k.st = cl[c].st /\ k.id = cl[c].id
      /\ k.holds = cl[c].holds /\ k.frames = cl[c].frames /\ k.pos = cl[c].pos
  BY <1>1, <1>2 DEF UserRecords
<1>4. cl' = [cl EXCEPT ![c] = k]
  BY <1>1
<1>5. /\ cl' \in [Clients -> UserRecords] /\ cl'[c] = k /\ \A d \in Clients : d # c => cl'[d] = cl[d]
  BY <1>3, <1>4, UserStep
<1>6. StepOf(c) /\ KeptTab(-1)
  BY <1>5 DEF StepOf, KeptTab, Elsewhere, TableInv, TableType
<1>7. Phase(c)'
  <2>1. setup' = setup /\ ById(c)' = ById(c) /\ Kind(c)' = Kind(c)
    BY DEF ById, Kind
  <2> QED
    BY <1>2, <1>3, <1>5, <2>1 DEF Phase
<1>8. Stream(c)'
  <2>1. Live' = Live /\ Kind(c)' = Kind(c) /\ tab' = tab
    BY DEF Live, Kind
  <2> QED
    BY <1>2, <1>3, <1>5, <2>1 DEF Stream, Streaming
<1>9. \A d \in Clients : (d # c /\ Kind(d) = "v4l" /\ cl[d].st = "open") => cl[d].id # -1
  BY StreamSlot, SlotsAre
<1> QED
  BY <1>3, <1>5, <1>6, <1>7, <1>8, <1>9, KeptStep

LEMMA ReleaseLookInv == ASSUME TableInv, NEW c \in Clients, ReleaseLook(c) PROVE TableInv'
<1>1. cl[c].st = "open"
  BY DEF ReleaseLook, Idle
<1>2. IndexOf(cl[c].id) = cl[c].holds /\ IndexOf(cl[c].id) \in Slots \cup {-1}
  BY <1>1, IndexHolds, IndexType
<1> QED
  BY <1>1, <1>2, LookStep DEF ReleaseLook

LEMMA IoctlInv == ASSUME TableInv, NEW c \in Clients, Ioctl(c) PROVE TableInv'
<1>1. cl[c].st = "open" /\ Kind(c) = "player" /\ setup[c].ioctl
  BY DEF Ioctl, Idle
<1>2. IndexOf(cl[c].id) = cl[c].holds /\ IndexOf(cl[c].id) \in Slots \cup {-1}
  BY <1>1, IndexHolds, IndexType
<1> QED
  BY <1>1, <1>2, LookStep DEF Ioctl

LEMMA CallLookInv == ASSUME TableInv, NEW c \in Clients, CallLook(c) PROVE TableInv'
<1>1. cl[c].st = "open" /\ ById(c)
  BY DEF CallLook, Idle
<1>2. IndexOf(cl[c].id) = cl[c].holds /\ IndexOf(cl[c].id) \in Slots \cup {-1}
  BY <1>1, IndexHolds, IndexType
<1> QED
  BY <1>1, <1>2, LookStep DEF CallLook

\* An id its users agreed on names no dynamic slot.
LEMMA StaticIndex ==
    ASSUME TableInv, Room, NEW c \in Clients, ById(c)
    PROVE  IndexOf(setup[c].id) \in Static \cup {-1} /\ setup[c].id \notin Dynamic
<1>1. setup[c].id \notin Dynamic
  BY DEF TableInv, TableType, Room, ById, Kind
<1>2. Names(IndexOf(setup[c].id), setup[c].id)
  BY IndexOfIs
<1> QED
  BY <1>1, <1>2 DEF Names, TableInv, SlotIds

LEMMA ResetLookInv == ASSUME TableInv, Room, NEW c \in Clients, ResetLook(c) PROVE TableInv'
<1>1. Phase(c) /\ Bound(c)
  BY DEF TableInv
<1>2. ById(c) /\ cl[c].id = setup[c].id
  BY <1>1 DEF ResetLook, Phase, Bound, ById, Idle
<1>3. IndexOf(cl[c].id) \in Static \cup {-1} /\ IndexOf(cl[c].id) \in Slots \cup {-1}
  BY <1>2, StaticIndex, IndexType
<1> QED
  BY <1>2, <1>3, LookStep DEF ResetLook

LEMMA ClosedIs ==
    ASSUME NEW n \in Nat
    PROVE  LET k == Closed(n) IN
           /\ k \in UserRecords /\ k.st = "closed" /\ k.opens = n /\ k.id = -1 /\ k.op = "none" /\ k.at = -1
           /\ k.holds = -1 /\ k.frames = <<>> /\ k.pos = -1
BY DEF Closed, UserRecords

LEMMA TabStep ==
    ASSUME TableInv, NEW x \in Slots, NEW y, tab' = [tab EXCEPT ![x] = y]
    PROVE  tab' = [s \in Slots |-> tab'[s]] /\ tab'[x] = y /\ Elsewhere(x)
<1>1. DOMAIN tab = Slots
  BY DEF TableInv, TableType
<1> QED
  BY <1>1 DEF Elsewhere

\* Users by id change no stream.
LEMMA NotStreams ==
    ASSUME TableInv, NEW x \in Static \cup {-1}, NEW d \in Clients, Kind(d) = "v4l", cl[d].st = "open"
    PROVE  cl[d].id # x
BY StreamSlot, SlotsAre

\* The second section of a call by id
LEMMA ByIdStep ==
    ASSUME TableInv, NEW c \in Clients, ById(c), NEW x \in Static \cup {-1}, NEW k \in UserRecords,
           cl' = [cl EXCEPT ![c] = k], setup' = setup,
           \/ tab' = tab
           \/ x \in Live /\ \E y : tab' = [tab EXCEPT ![x] = y] /\ InsOK(y) /\ Keeps(tab[x], y),
           k.op = "none", k.holds = cl[c].holds, k.st = cl[c].st, k.st = "open" => k.id = cl[c].id
    PROVE  TableInv'
<1>1. /\ cl' \in [Clients -> UserRecords] /\ cl'[c] = k /\ \A d \in Clients : d # c => cl'[d] = cl[d]
  BY UserStep
<1>2. KeptTab(x) /\ tab' = [s \in Slots |-> tab'[s]]
  <2>1. CASE tab' = tab
    BY <2>1 DEF KeptTab, Elsewhere, TableInv, TableType
  <2>2. CASE x \in Live /\ \E y : tab' = [tab EXCEPT ![x] = y] /\ InsOK(y) /\ Keeps(tab[x], y)
    <3>1. PICK y : tab' = [tab EXCEPT ![x] = y] /\ InsOK(y) /\ Keeps(tab[x], y)
      BY <2>2
    <3>2. x \in Slots
      BY <2>2 DEF Live
    <3>3. tab' = [s \in Slots |-> tab'[s]] /\ tab'[x] = y /\ Elsewhere(x)
      BY <3>1, <3>2, TabStep
    <3> QED
      BY <2>2, <3>1, <3>3 DEF KeptTab
  <2> QED
    BY <2>1, <2>2
<1>3. StepOf(c)
  BY <1>1, <1>2 DEF StepOf
<1>4. Phase(c)'
  <2>1. Phase(c)
    BY DEF TableInv
  <2> QED
    BY <2>1, <1>1 DEF Phase
<1>5. Stream(c)'
  BY DEF Stream, ById, Kind
<1>6. \A d \in Clients : (d # c /\ Kind(d) = "v4l" /\ cl[d].st = "open") => cl[d].id # x
  BY NotStreams
<1> QED
  BY <1>1, <1>2, <1>3, <1>4, <1>5, <1>6, KeptStep

LEMMA ResetDoInv == ASSUME TableInv, NEW c \in Clients, ResetDo(c) PROVE TableInv'
<1> DEFINE x == cl[c].at
           k == IF cl[c].st = "closed" THEN Closed(cl[c].opens) ELSE [cl[c] EXCEPT !.op = "none", !.at = -1]
<1>1. cl[c] \in UserRecords /\ Phase(c)
  BY DEF TableInv, TableType
<1>2. ById(c) /\ x \in Static \cup {-1} /\ cl' = [cl EXCEPT ![c] = k] /\ setup' = setup
  BY <1>1 DEF ResetDo, Phase
<1>3. /\ k \in UserRecords /\ k.op = "none" /\ k.holds = cl[c].holds /\ k.st = cl[c].st
      /\ k.st = "open" => k.id = cl[c].id
  <2>1. CASE cl[c].st = "closed"
    <3>1. cl[c].opens \in Nat /\ cl[c].holds = -1 /\ k = Closed(cl[c].opens)
      BY <1>1, <2>1 DEF UserRecords, Phase
    <3> HIDE DEF k
    <3> QED
      BY <2>1, <3>1, ClosedIs
  <2>2. CASE cl[c].st # "closed"
    BY <1>1, <2>2 DEF UserRecords
  <2> QED
    BY <2>1, <2>2
<1>4. \/ tab' = tab
      \/ x \in Live /\ \E y : tab' = [tab EXCEPT ![x] = y] /\ InsOK(y) /\ Keeps(tab[x], y)
  <2>1. SUFFICES ASSUME tab' # tab
                 PROVE  x \in Live /\ \E y : tab' = [tab EXCEPT ![x] = y] /\ InsOK(y) /\ Keeps(tab[x], y)
    OBVIOUS
  <2>2. x # -1 /\ tab[x] # Null /\ tab' = [tab EXCEPT ![x] = Reset(tab[x])]
    BY <2>1 DEF ResetDo
  <2>3. x \in Live
    BY <1>2, <2>2, SlotsAre DEF Live
  <2>4. InsOK(Reset(tab[x])) /\ Keeps(tab[x], Reset(tab[x]))
    BY <2>3, ResetIs DEF TableInv, TableType
  <2> QED
    BY <2>2, <2>3, <2>4
<1> HIDE DEF x, k
<1> QED
  BY <1>2, <1>3, <1>4, ByIdStep

LEMMA CallsAre ==
    ASSUME TableInv, NEW c \in Clients, ById(c), NEW i, InsOK(i), NEW y \in Calls(c, i)
    PROVE  InsOK(y) /\ Keeps(i, y)
<1>1. cl[c] \in UserRecords /\ cl[c].ins \in Nat
  BY DEF TableInv, TableType, UserRecords
<1>2. ASSUME NEW f \in Frames, y = CheckinApts(i, (cl[c].ins * f.size) % W, (f.step * (cl[c].ins + 1)) % P)
      PROVE  InsOK(y) /\ Keeps(i, y)
  <2>1. f.size \in Nat /\ f.step \in Nat
    BY StreamAssumption
  <2>2. PICK a \in Int, b \in Int : a = cl[c].ins * f.size /\ b = f.step * (cl[c].ins + 1)
    BY <1>1, <2>1
  <2>3. a % W \in Offsets /\ b % P \in Stamps
    BY ModW, ModP
  <2> QED
    BY <1>2, <2>2, <2>3, CheckinAptsIs
<1>3. ASSUME NEW cur \in WildOut, y = CheckoutApts(i, cur).ins PROVE InsOK(y) /\ Keeps(i, y)
  <2>1. cur \in Offsets
    BY StreamAssumption
  <2> QED
    BY <1>3, <2>1, CheckoutAptsIs DEF OutOf
<1>4. ASSUME y = [i EXCEPT !.margin = Threshold + 1] PROVE InsOK(y) /\ Keeps(i, y)
  <2>1. PICK m \in Nat : m = Threshold + 1
    BY Widths
  <2>2. y = [i EXCEPT !.margin = m] /\ DOMAIN i = Fields
    BY <1>4, <2>1 DEF InsOK
  <2>3. Same(i, y, {"margin"}) /\ y.margin = m
    BY <2>2 DEF Same, Fields
  <2> QED
    BY <2>1, <2>3, SameOK, SameKeeps
<1> QED
  BY <1>2, <1>3, <1>4 DEF Calls

LEMMA CallDoInv == ASSUME TableInv, NEW c \in Clients, CallDo(c) PROVE TableInv'
<1> DEFINE x == cl[c].at
<1>1. cl[c] \in UserRecords /\ Phase(c) /\ Bound(c)
  BY DEF TableInv, TableType
<1>2. ById(c) /\ x \in Static /\ x \in Live
  BY <1>1 DEF CallDo, Phase, Bound
<1>3. PICK ins \in Nat : ins = IF Kind(c) = "demux" THEN cl[c].ins + 1 ELSE cl[c].ins
  BY <1>1 DEF UserRecords
<1>4. PICK outs \in Nat : outs = IF Kind(c) = "audio" THEN cl[c].outs + 1 ELSE cl[c].outs
  BY <1>1 DEF UserRecords
<1>5. PICK k : k = [cl[c] EXCEPT !.op = "none", !.at = -1, !.ins = ins, !.outs = outs]
  OBVIOUS
<1>6. cl' = [cl EXCEPT ![c] = k] /\ setup' = setup
  <2> DEFINE e == [cl[c] EXCEPT !.op = "none", !.at = -1,
                      !.ins = IF Kind(c) = "demux" THEN @ + 1 ELSE @,
                      !.outs = IF Kind(c) = "audio" THEN @ + 1 ELSE @]
  <2>1. cl' = [cl EXCEPT ![c] = e] /\ setup' = setup
    BY DEF CallDo
  <2>2. k = e
    BY <1>1, <1>3, <1>4, <1>5 DEF UserRecords
  <2> HIDE DEF e
  <2> QED
    BY <2>1, <2>2
<1>7. k \in UserRecords /\ k.op = "none" /\ k.holds = cl[c].holds /\ k.st = cl[c].st /\ k.id = cl[c].id
  BY <1>1, <1>5 DEF UserRecords
<1>8. \E y : tab' = [tab EXCEPT ![x] = y] /\ InsOK(y) /\ Keeps(tab[x], y)
  <2>1. x # -1 /\ tab[x] # Null /\ InsOK(tab[x])
    BY <1>2, SlotsAre DEF Live, TableInv, TableType
  <2>2. PICK y \in Calls(c, tab[x]) : tab' = [tab EXCEPT ![x] = y]
    BY <2>1 DEF CallDo
  <2> QED
    BY <1>2, <2>1, <2>2, CallsAre
<1> HIDE DEF x
<1> QED
  BY <1>2, <1>6, <1>7, <1>8, ByIdStep

LEMMA MineIs ==
    ASSUME TableInv, NEW c \in Clients, Kind(c) \in {"v4l", "player"}, Idle(c), Mine(c) # Null
    PROVE  /\ cl[c].id \in Slots /\ cl[c].id \in Live /\ Mine(c) = tab[cl[c].id] /\ InsOK(Mine(c))
           /\ cl[c].id \in Dynamic /\ cl[c].holds = cl[c].id
           /\ cl[c] \in UserRecords /\ cl[c].st = "open" /\ cl[c].op = "none"
           /\ Kind(c) = "v4l" => Streaming(Mine(c), cl[c])
<1>1. cl[c].id \in Slots /\ cl[c].id \in Live /\ Mine(c) = tab[cl[c].id]
  BY DEF Mine, Live
<1>2. Owned(c) /\ Stream(c) /\ ~ById(c) /\ InsOK(tab[cl[c].id]) /\ cl[c] \in UserRecords
  BY <1>1 DEF TableInv, TableType, ById
<1>3. cl[c].st = "open" /\ cl[c].op = "none"
  BY DEF Idle
<1> QED
  BY <1>1, <1>2, <1>3 DEF Owned, Stream

\* A call of a user that owns its instance, in one section
LEMMA OwnStep ==
    ASSUME TableInv, NEW c \in Clients, Kind(c) \in {"v4l", "player"}, Idle(c), Mine(c) # Null,
           NEW i, NEW k \in UserRecords, Update(c, i, k), InsOK(i), Keeps(Mine(c), i),
           k.st = "open", k.op = "none", k.id = cl[c].id, k.holds = cl[c].holds,
           Kind(c) = "v4l" => Streaming(i, k)
    PROVE  TableInv'
<1> DEFINE x == cl[c].id
<1>1. /\ x \in Slots /\ x \in Live /\ Mine(c) = tab[x] /\ x \in Dynamic /\ cl[c].holds = x
      /\ cl[c].st = "open"
  BY MineIs
<1>2. /\ cl' \in [Clients -> UserRecords] /\ cl'[c] = k /\ \A d \in Clients : d # c => cl'[d] = cl[d]
  BY UserStep DEF Update
<1>3. tab' = [s \in Slots |-> tab'[s]] /\ tab'[x] = i /\ Elsewhere(x)
  <2>1. tab' = [tab EXCEPT ![x] = i]
    BY DEF Update
  <2> HIDE DEF x
  <2> QED
    BY <1>1, <2>1, TabStep
<1>4. StepOf(c) /\ KeptTab(x)
  BY <1>1, <1>2, <1>3 DEF StepOf, KeptTab, Update
<1>5. Phase(c)'
  BY <1>2 DEF Phase
<1>6. Stream(c)'
  BY <1>2, <1>3 DEF Stream, Kind, Update
<1>7. ASSUME NEW d \in Clients, d # c, Kind(d) = "v4l", cl[d].st = "open" PROVE cl[d].id # x
  <2>1. cl[d].holds = cl[d].id
    BY <1>7, StreamSlot
  <2> QED
    BY <1>1, <1>7, <2>1 DEF TableInv, SoleOwner
<1>8. /\ cl'[c].holds = cl[c].holds /\ cl'[c].op # "bind"
      /\ cl'[c].st = "open" => cl[c].st = "open" /\ cl'[c].id = cl[c].id
  BY <1>1, <1>2
<1> HIDE DEF x
<1> QED
  BY <1>8, <1>4, <1>5, <1>6, <1>7, KeptStep

\* What leaves the list leaves the stream's marks as they are.
LEMMA OutStreaming ==
    ASSUME NEW i, NEW j, OutOf(i, j), NEW u, NEW k, Streaming(i, u), k.frames = u.frames, k.pos = u.pos
    PROVE  Streaming(j, k)
<1>1. Marks(j.list) \subseteq Range(k.frames)
  BY DEF OutOf, Streaming
<1>2. i.list = <<>> => j.list = <<>>
  <2>1. SUFFICES ASSUME i.list = <<>> PROVE j.list = <<>>
    OBVIOUS
  <2>2. Range(i.list) = {}
    <3>1. DOMAIN <<>> = {}
      OBVIOUS
    <3> QED
      BY <2>1, <3>1 DEF Range
  <2>3. Range(j.list) = {} /\ j.list \in Seq(Nodes)
    BY <2>2 DEF OutOf, Marks, InsOK
  <2>4. PICK l \in Seq(Nodes) : l = j.list /\ DOMAIN l = {}
    BY <2>3 DEF Range
  <2>5. Len(l) \in Nat /\ DOMAIN l = 1..Len(l)
    OBVIOUS
  <2>6. Len(l) = 0
    <3>1. SUFFICES ASSUME Len(l) # 0 PROVE FALSE
      OBVIOUS
    <3>2. 1 \in 1..Len(l)
      BY <2>5, <3>1
    <3> QED
      BY <2>4, <2>5, <3>2
  <2> QED
    BY <2>4, <2>6
<1>3. j.pieceSize = i.pieceSize /\ j.nodes = i.nodes /\ Onward(j) = Onward(i)
  BY DEF OutOf, Keeps, Onward
<1> QED
  BY <1>1, <1>2, <1>3 DEF Streaming

LEMMA OutStep ==
    ASSUME TableInv, NEW c \in Clients, Kind(c) \in {"v4l", "player"}, Idle(c), Mine(c) # Null,
           NEW i, NEW k \in UserRecords, Update(c, i, k), OutOf(Mine(c), i),
           k.st = "open", k.op = "none", k.id = cl[c].id, k.holds = cl[c].holds,
           k.frames = cl[c].frames, k.pos = cl[c].pos
    PROVE  TableInv'
<1>1. InsOK(i) /\ Keeps(Mine(c), i)
  BY DEF OutOf
<1>2. Kind(c) = "v4l" => Streaming(i, k)
  BY MineIs, OutStreaming
<1> QED
  BY <1>1, <1>2, OwnStep

LEMMA CountOut ==
    ASSUME NEW u \in UserRecords
    PROVE  LET k == [u EXCEPT !.outs = @ + 1] IN
           /\ k \in UserRecords /\ k.st = u.st /\ k.op = u.op /\ k.id = u.id /\ k.holds = u.holds
           /\ k.frames = u.frames /\ k.pos = u.pos
BY SMTT(30) DEF UserRecords

LEMMA CountIn ==
    ASSUME NEW u \in UserRecords
    PROVE  LET k == [u EXCEPT !.ins = @ + 1] IN
           /\ k \in UserRecords /\ k.st = u.st /\ k.op = u.op /\ k.id = u.id /\ k.holds = u.holds
           /\ k.frames = u.frames /\ k.pos = u.pos
BY SMTT(30) DEF UserRecords

LEMMA PeekPtsInv == ASSUME TableInv, NEW c \in Clients, PeekPts(c) PROVE TableInv'
<1>1. Kind(c) \in {"v4l", "player"} /\ Idle(c) /\ Mine(c) # Null
  BY DEF PeekPts, CanOut
<1>2. InsOK(Mine(c)) /\ cl[c] \in UserRecords /\ cl[c].st = "open" /\ cl[c].op = "none"
  BY <1>1, MineIs
<1>3. PICK cur \in WildOut : Update(c, Peek(Mine(c), cur).ins, [cl[c] EXCEPT !.outs = @ + 1])
  BY DEF PeekPts
<1>4. OutOf(Mine(c), Peek(Mine(c), cur).ins)
  BY <1>2, PeekIs
<1> QED
  BY <1>1, <1>2, <1>3, <1>4, CountOut, OutStep, ZenonT(40)

LEMMA PeekFrameInv == ASSUME TableInv, NEW c \in Clients, PeekFrame(c) PROVE TableInv'
<1>1. Kind(c) \in {"v4l", "player"} /\ Idle(c) /\ Mine(c) # Null
  BY DEF PeekFrame, CanOut
<1>2. InsOK(Mine(c)) /\ cl[c] \in UserRecords /\ cl[c].st = "open" /\ cl[c].op = "none"
  BY <1>1, MineIs
<1>3. PICK cur : Update(c, Peek(Mine(c), cur).ins, [cl[c] EXCEPT !.outs = @ + 1])
  BY DEF PeekFrame
<1>4. OutOf(Mine(c), Peek(Mine(c), cur).ins)
  BY <1>2, PeekIs
<1> QED
  BY <1>1, <1>2, <1>3, <1>4, CountOut, OutStep, ZenonT(40)

LEMMA CheckOutInv == ASSUME TableInv, NEW c \in Clients, CheckOut(c) PROVE TableInv'
<1>1. Kind(c) \in {"v4l", "player"} /\ Idle(c) /\ Mine(c) # Null
  BY DEF CheckOut, CanOut
<1>2. InsOK(Mine(c)) /\ cl[c] \in UserRecords /\ cl[c].st = "open" /\ cl[c].op = "none"
  BY <1>1, MineIs
<1>3. PICK cur \in WildOut, dur \in {0, Near + 1} :
         Update(c, CheckoutPts(Mine(c), cur, dur).ins, [cl[c] EXCEPT !.outs = @ + 1])
  BY DEF CheckOut
<1>4. cur \in Offsets /\ dur \in Int
  BY StreamAssumption, Widths
<1>5. PICK j : j = CheckoutPts(Mine(c), cur, dur).ins /\ OutOf(Mine(c), j)
  BY <1>2, <1>4, CheckoutPtsIs
<1>6. PICK k : k = [cl[c] EXCEPT !.outs = @ + 1]
  OBVIOUS
<1>7. Update(c, j, k)
  BY <1>3, <1>5, <1>6
<1>8. /\ k \in UserRecords /\ k.st = cl[c].st /\ k.op = cl[c].op /\ k.id = cl[c].id
      /\ k.holds = cl[c].holds /\ k.frames = cl[c].frames /\ k.pos = cl[c].pos
  BY <1>2, <1>6, CountOut
<1> QED
  BY <1>1, <1>2, <1>5, <1>7, <1>8, OutStep

LEMMA SeqAt == ASSUME NEW X, NEW l \in Seq(X), NEW n \in Nat, n < Len(l) PROVE l[n + 1] \in X
OBVIOUS

LEMMA OutFrameInv == ASSUME TableInv, NEW c \in Clients, OutFrame(c) PROVE TableInv'
<1>1. Kind(c) \in {"v4l", "player"} /\ Idle(c) /\ Mine(c) # Null
  BY DEF OutFrame, CanOut
<1>2. InsOK(Mine(c)) /\ cl[c] \in UserRecords /\ cl[c].st = "open" /\ cl[c].op = "none"
  BY <1>1, MineIs
<1> DEFINE f == cl[c].frames[cl[c].out + 1]
<1>3. f \in [at : Offsets, pts : Stamps]
  <2>1. /\ cl[c].frames \in Seq([at : Offsets, pts : Stamps]) /\ cl[c].out \in Nat
        /\ cl[c].out < Len(cl[c].frames)
    BY <1>2 DEF OutFrame, UserRecords
  <2> QED
    BY <2>1, SeqAt
<1>4. PICK n \in 1..Threshold, dur \in {0, Near + 1} :
         LET r == CheckoutPts(Mine(c), (f.at + n) % W, dur) IN
         Update(c, r.ins, [cl[c] EXCEPT !.outs = @ + 1, !.out = @ + 1,
                                        !.disturbed = @ \/ r.node = None \/ r.pts # f.pts])
  BY DEF OutFrame
<1>5. (f.at + n) % W \in Offsets /\ dur \in Int
  <2>1. f.at \in Offsets /\ Threshold \in Nat /\ Near \in Nat
    BY <1>3, Widths
  <2>2. f.at + n \in Int /\ dur \in Int
    BY <2>1, OffsetsAre
  <2> QED
    BY <2>2, ModW
<1> HIDE DEF f
<1>6. PICK r : r = CheckoutPts(Mine(c), (f.at + n) % W, dur)
  OBVIOUS
<1>7. OutOf(Mine(c), r.ins)
  BY <1>2, <1>5, <1>6, CheckoutPtsIs
<1> DEFINE b == cl[c].disturbed \/ r.node = None \/ r.pts # f.pts
           k == [cl[c] EXCEPT !.outs = @ + 1, !.out = @ + 1, !.disturbed = b]
<1>8. Update(c, r.ins, k)
  BY <1>4, <1>6
<1>9. b \in BOOLEAN
  OBVIOUS
<1> HIDE DEF b
<1>10. PICK n1 \in Nat, n2 \in Nat : n1 = cl[c].outs + 1 /\ n2 = cl[c].out + 1
  BY <1>2 DEF UserRecords
<1>11. k = [cl[c] EXCEPT !.outs = n1, !.out = n2, !.disturbed = b]
  BY <1>10
<1> HIDE DEF k
<1>12. /\ k \in UserRecords /\ k.st = cl[c].st /\ k.op = cl[c].op /\ k.id = cl[c].id
       /\ k.holds = cl[c].holds /\ k.frames = cl[c].frames /\ k.pos = cl[c].pos
  BY <1>2, <1>9, <1>11 DEF UserRecords
<1> QED
  BY <1>1, <1>2, <1>7, <1>8, <1>12, OutStep

LEMMA CheckInInv == ASSUME TableInv, NEW c \in Clients, CheckIn(c) PROVE TableInv'
<1>1. Kind(c) = "player" /\ Idle(c) /\ Mine(c) # Null
  BY DEF CheckIn, CanIn
<1>2. InsOK(Mine(c)) /\ cl[c] \in UserRecords /\ cl[c].st = "open" /\ cl[c].op = "none"
  BY <1>1, MineIs
<1>3. PICK w \in WildIn :
         Update(c, CheckinPts(Mine(c), w.size, w.pts, w.isOffset), [cl[c] EXCEPT !.ins = @ + 1])
  BY DEF CheckIn
<1>4. w.size \in Offsets /\ w.size \in Nat /\ w.pts \in Stamps /\ w.isOffset \in BOOLEAN
  BY StreamAssumption, OffsetsAre DEF Stamps
<1>5. PICK j : j = CheckinPts(Mine(c), w.size, w.pts, w.isOffset) /\ InsOK(j) /\ Keeps(Mine(c), j)
  BY <1>2, <1>4, CheckinPtsIs DEF CheckinOf
<1>6. PICK k : k = [cl[c] EXCEPT !.ins = @ + 1]
  OBVIOUS
<1>7. Update(c, j, k)
  BY <1>3, <1>5, <1>6
<1>8. k \in UserRecords /\ k.st = cl[c].st /\ k.op = cl[c].op /\ k.id = cl[c].id /\ k.holds = cl[c].holds
  BY <1>2, <1>6, CountIn
<1> QED
  BY <1>1, <1>2, <1>5, <1>7, <1>8, OwnStep

LEMMA SetModeInv == ASSUME TableInv, NEW c \in Clients, SetMode(c) PROVE TableInv'
<1>1. Kind(c) \in {"v4l", "player"} /\ Idle(c) /\ Mine(c) # Null
  BY DEF SetMode
<1>2. InsOK(Mine(c)) /\ cl[c] \in UserRecords /\ cl[c].st = "open" /\ cl[c].op = "none"
  BY <1>1, MineIs
<1>3. PICK on \in BOOLEAN : Update(c, [Mine(c) EXCEPT !.c2 = on, !.offsetMode = @ \/ on], cl[c])
  BY DEF SetMode
<1>4. PICK j : j = [Mine(c) EXCEPT !.c2 = on, !.offsetMode = @ \/ on]
  OBVIOUS
<1>5. Same(Mine(c), j, {"c2", "offsetMode"})
  BY <1>2, <1>4 DEF InsOK, Same, Fields
<1>6. InsOK(j)
  BY <1>2, <1>5, SameOK
<1>7. OutOf(Mine(c), j)
  BY <1>2, <1>5, <1>6, SameOut
<1>8. Update(c, j, cl[c])
  BY <1>3, <1>4
<1> QED
  BY <1>1, <1>2, <1>7, <1>8, OutStep

LEMMA SetTrickInv == ASSUME TableInv, NEW c \in Clients, SetTrick(c) PROVE TableInv'
<1>1. Kind(c) \in {"v4l", "player"} /\ Idle(c) /\ Mine(c) # Null
  BY DEF SetTrick
<1>2. InsOK(Mine(c)) /\ cl[c] \in UserRecords /\ cl[c].st = "open" /\ cl[c].op = "none"
  BY <1>1, MineIs
<1>3. PICK mode \in 0..2 :
         Update(c, [Mine(c) EXCEPT !.trick = mode = 1, !.offsetMode = mode # 0], cl[c])
  BY DEF SetTrick
<1>4. PICK j : j = [Mine(c) EXCEPT !.trick = mode = 1, !.offsetMode = mode # 0]
  OBVIOUS
<1>5. Same(Mine(c), j, {"trick", "offsetMode"})
  BY <1>2, <1>4 DEF InsOK, Same, Fields
<1>6. InsOK(j)
  BY <1>2, <1>5, SameOK
<1>7. OutOf(Mine(c), j)
  BY <1>2, <1>5, <1>6, SameOut
<1>8. Update(c, j, cl[c])
  BY <1>3, <1>4
<1> QED
  BY <1>1, <1>2, <1>7, <1>8, OutStep

LEMMA SetFirstInv == ASSUME TableInv, NEW c \in Clients, SetFirst(c) PROVE TableInv'
<1>1. Kind(c) \in {"v4l", "player"} /\ Idle(c) /\ Mine(c) # Null /\ cl[c].pos = -1
  BY DEF SetFirst
<1>2. /\ InsOK(Mine(c)) /\ cl[c] \in UserRecords /\ cl[c].st = "open" /\ cl[c].op = "none"
      /\ Kind(c) = "v4l" => Streaming(Mine(c), cl[c])
  BY <1>1, MineIs
<1>3. PICK s \in Starts :
         Update(c, [Mine(c) EXCEPT !.pieceOffset = s.base, !.align = s.align], [cl[c] EXCEPT !.pos = s.base])
  BY DEF SetFirst
<1>4. s.base \in Offsets /\ s.align \in Nat /\ s.base \in Nat /\ s.base < W
  BY StreamAssumption, OffsetsAre
<1>5. PICK j : j = [Mine(c) EXCEPT !.pieceOffset = s.base, !.align = s.align]
  OBVIOUS
<1>6. Same(Mine(c), j, {"pieceOffset", "align"}) /\ j.pieceOffset = s.base /\ j.align = s.align
  BY <1>2, <1>5 DEF InsOK, Same, Fields
<1>7. InsOK(j) /\ Keeps(Mine(c), j)
  <2>1. InsOK(j)
    BY <1>2, <1>4, <1>6, SameOK
  <2> QED
    BY <2>1, <1>6, SameKeeps
<1>8. PICK k : k = [cl[c] EXCEPT !.pos = s.base]
  OBVIOUS
<1>9. /\ k \in UserRecords /\ k.st = cl[c].st /\ k.op = cl[c].op /\ k.id = cl[c].id
      /\ k.holds = cl[c].holds /\ k.frames = cl[c].frames /\ k.pos = s.base
  BY <1>2, <1>4, <1>8 DEF UserRecords
<1>10. Update(c, j, k)
  BY <1>3, <1>5, <1>8
<1>11. ASSUME Kind(c) = "v4l" PROVE Streaming(j, k)
  <2>1. Streaming(Mine(c), cl[c])
    BY <1>2, <1>11
  <2>2. j.list = Mine(c).list /\ j.pieceSize = 0
    BY <1>1, <1>6, <2>1 DEF Same, Fields, Streaming
  <2>3. Onward(j) = s.base
    <3>1. (s.base + 0) % W = s.base
      BY <1>4, Widths
    <3> QED
      BY <3>1, <1>6, <2>2 DEF Onward
  <2>4. s.base # -1
    BY <1>4
  <2> QED
    BY <1>9, <2>1, <2>2, <2>3, <2>4 DEF Streaming
<1> QED
  BY <1>1, <1>2, <1>7, <1>9, <1>10, <1>11, OwnStep

\* The next piece of a stream goes where the instance expects it.
LEMMA WriteInv ==
    ASSUME TableInv, NEW c \in Clients, Kind(c) = "v4l", CanIn(c), cl[c].pos # -1,
           NEW n \in Nat, NEW pts \in Stamps, Write(c, n, pts)
    PROVE  TableInv'
<1>1. Kind(c) \in {"v4l", "player"} /\ Idle(c) /\ Mine(c) # Null
  BY DEF CanIn
<1>2. /\ InsOK(Mine(c)) /\ cl[c] \in UserRecords /\ cl[c].st = "open" /\ cl[c].op = "none"
      /\ Streaming(Mine(c), cl[c])
  BY <1>1, MineIs
<1>3. PICK i : i = Mine(c) /\ InsOK(i) /\ Streaming(i, cl[c])
  BY <1>2
<1>4. PICK j : j = CheckinPts(i, n, pts, FALSE) /\ CheckinOf(i, j, n, pts, FALSE)
  BY <1>3, CheckinPtsIs
<1>5. InsOK(j) /\ Keeps(i, j)
  BY <1>4 DEF CheckinOf
<1> DEFINE F == [at : Offsets, pts : Stamps]
<1>6. cl[c].pos \in Offsets /\ cl[c].frames \in Seq(F)
  BY <1>2 DEF UserRecords
<1>7. PICK m \in F : m = [at |-> cl[c].pos, pts |-> pts]
  BY <1>6
<1> DEFINE here == IF pts = 0 THEN <<>> ELSE <<m>>
<1>8. PICK fs : fs = cl[c].frames \o here
  OBVIOUS
<1>9. /\ fs \in Seq(F) /\ Range(cl[c].frames) \subseteq Range(fs)
      /\ pts # 0 => m \in Range(fs)
  <2>1. CASE pts = 0
    <3>1. fs = cl[c].frames
      BY <1>6, <1>8, <2>1
    <3> QED
      BY <3>1, <1>6, <2>1
  <2>2. CASE pts # 0
    <3>1. fs = Append(cl[c].frames, m)
      BY <1>6, <1>7, <1>8, <2>2
    <3> HIDE DEF F
    <3>2. /\ Append(cl[c].frames, m) \in Seq(F)
          /\ Range(Append(cl[c].frames, m)) = Range(cl[c].frames) \cup {m}
      BY <1>6, <1>7, AppendRange
    <3> QED
      BY <3>1, <3>2
  <2> QED
    BY <2>1, <2>2
<1>10. PICK pos \in Offsets : pos = (cl[c].pos + n + i.align - j.align) % W
  <2>1. cl[c].pos \in Nat
    BY <1>6, OffsetsAre
  <2>2. i.align \in Nat /\ j.align \in Nat
    BY <1>3, <1>5 DEF InsOK
  <2>3. cl[c].pos + n + i.align - j.align \in Int
    BY <2>1, <2>2
  <2> QED
    BY <2>3, ModW
<1>11. PICK ins \in Nat : ins = cl[c].ins + 1
  BY <1>2 DEF UserRecords
<1>12. PICK k : k = [cl[c] EXCEPT !.ins = ins, !.frames = fs, !.pos = pos]
  OBVIOUS
<1>13. Update(c, j, k)
  <2>1. Update(c, j, [cl[c] EXCEPT !.ins = cl[c].ins + 1, !.frames = cl[c].frames \o here,
                                   !.pos = (cl[c].pos + n + i.align - j.align) % W])
    BY <1>3, <1>4, <1>7 DEF Write
  <2> HIDE DEF here
  <2> QED
    BY <2>1, <1>8, <1>10, <1>11, <1>12
<1> HIDE DEF here
<1>14. /\ k \in UserRecords /\ k.st = cl[c].st /\ k.op = cl[c].op /\ k.id = cl[c].id
       /\ k.holds = cl[c].holds /\ k.frames = fs /\ k.pos = pos
  BY <1>2, <1>9, <1>10, <1>11, <1>12 DEF UserRecords
<1>15. Streaming(j, k)
  <2>1. Marks(i.list) \subseteq Range(cl[c].frames)
    BY <1>3 DEF Streaming
  <2>2. pos # -1
    <3>1. pos \in Nat
      BY <1>10, OffsetsAre
    <3> QED
      BY <3>1
  <2>3. CASE i.nodes = 0
    <3>1. j.list = <<>> /\ j.nodes = 0
      BY <1>4, <2>3 DEF CheckinOf, Keeps
    <3>2. DOMAIN <<>> = {}
      OBVIOUS
    <3>3. Marks(j.list) = {}
      BY <3>1, <3>2 DEF Marks, Range
    <3> QED
      BY <3>1, <3>3, <1>14, <2>2 DEF Streaming
  <2>4. CASE i.nodes # 0
    <3>1. Onward(i) = cl[c].pos
      BY <1>3, <2>4 DEF Streaming
    <3>2. Onward(j) = pos
      BY <3>1, <1>4, <1>10, <2>4 DEF CheckinOf
    <3>3. Marks(j.list) \subseteq Range(fs)
      <4>1. CASE pts = 0
        <5>1. Range(j.list) \subseteq Range(i.list)
          BY <1>4, <4>1 DEF CheckinOf
        <5>2. Marks(j.list) \subseteq Marks(i.list)
          BY <5>1 DEF Marks
        <5> QED
          BY <5>2, <1>9, <2>1
      <4>2. CASE pts # 0
        <5>1. PICK q \in Range(j.list) :
                 q.pts = pts /\ q.offset = Onward(i) /\ Range(j.list) \subseteq Range(i.list) \cup {q}
          BY <1>4, <2>4, <4>2 DEF CheckinOf
        <5>2. [at |-> q.offset, pts |-> q.pts] = m
          BY <5>1, <3>1, <1>7
        <5>3. Marks(j.list) \subseteq Marks(i.list) \cup {m}
          BY <5>1, <5>2 DEF Marks
        <5> QED
          BY <5>3, <1>9, <2>1, <4>2
      <4> QED
        BY <4>1, <4>2
    <3> QED
      BY <3>2, <3>3, <1>14, <2>2 DEF Streaming
  <2> QED
    BY <2>3, <2>4
<1> QED
  BY <1>1, <1>2, <1>3, <1>5, <1>13, <1>14, <1>15, OwnStep

LEMMA WritePieceInv == ASSUME TableInv, NEW c \in Clients, WritePiece(c) PROVE TableInv'
<1>1. PICK n \in Pieces : Write(c, n, 0)
  BY DEF WritePiece
<1>2. n \in Nat /\ 0 \in Stamps
  BY StreamAssumption, StampsAre
<1> QED
  BY <1>1, <1>2, WriteInv DEF WritePiece

LEMMA LastIs == ASSUME NEW X, NEW l \in Seq(X), l # <<>> PROVE Last(l) \in X
<1>1. Len(l) \in Nat /\ Len(l) # 0
  OBVIOUS
<1>2. Len(l) \in 1..Len(l)
  BY <1>1
<1> QED
  BY <1>2 DEF Last

LEMMA WriteFrameInv == ASSUME TableInv, NEW c \in Clients, WriteFrame(c) PROVE TableInv'
<1>1. PICK f \in Frames :
         LET pts == IF cl[c].frames = <<>> THEN f.step ELSE Last(cl[c].frames).pts + f.step
         IN  pts < P /\ Write(c, f.size, pts)
  BY DEF WriteFrame
<1>2. PICK pts : /\ pts = IF cl[c].frames = <<>> THEN f.step ELSE Last(cl[c].frames).pts + f.step
                 /\ pts < P /\ Write(c, f.size, pts)
  BY <1>1
<1>3. f.size \in Nat /\ f.step \in Nat
  BY StreamAssumption
<1>4. pts \in Stamps
  <2>1. cl[c].frames \in Seq([at : Offsets, pts : Stamps])
    BY DEF TableInv, TableType, UserRecords
  <2>2. cl[c].frames # <<>> => Last(cl[c].frames) \in [at : Offsets, pts : Stamps]
    BY <2>1, LastIs
  <2>3. cl[c].frames # <<>> => Last(cl[c].frames).pts \in Nat
    BY <2>2, StampsAre
  <2>4. pts \in Nat
    BY <1>2, <1>3, <2>3
  <2> QED
    BY <1>2, <2>4, Widths DEF Stamps, MinusOne
<1> QED
  BY <1>2, <1>3, <1>4, WriteInv DEF WriteFrame

-----------------------------------------------------------------------------
(* Taking and giving back *)

Users(s) == {d \in Clients : cl[d].holds = s}

LEMMA UsersAre ==
    ASSUME TableInv, NEW s \in Slots
    PROVE  /\ IsFiniteSet(Users(s)) /\ Cardinality(Users(s)) \in Nat
           /\ IF s \in Live THEN tab[s].ref = Cardinality(Users(s)) /\ Users(s) # {} ELSE Users(s) = {}
<1>1. IsFiniteSet(Users(s))
  <2>1. Users(s) \subseteq Clients
    BY DEF Users
  <2> QED
    BY <2>1, ServerAssumption, FS_Subset
<1>2. Cardinality(Users(s)) \in Nat
  BY <1>1, FS_CardinalityType
<1>3. IF s \in Live THEN tab[s].ref = Cardinality(Users(s)) /\ Users(s) # {} ELSE Users(s) = {}
  BY DEF TableInv, RefsExact, Users, Live
<1> QED
  BY <1>1, <1>2, <1>3

\* A step that changes who holds slot x
LEMMA RefsStep ==
    ASSUME TableInv, NEW c \in Clients, StepOf(c), NEW x \in Slots, Elsewhere(x),
           cl[c].holds \in {x, -1}, cl'[c].holds \in {x, -1},
           IF tab'[x] = Null THEN Users(x)' = {}
           ELSE tab'[x].ref = Cardinality(Users(x)') /\ Users(x)' # {}
    PROVE  RefsExact'
<1>1. ASSUME NEW s \in Slots
      PROVE  IF tab'[s] = Null THEN Users(s)' = {}
             ELSE tab'[s].ref = Cardinality(Users(s)') /\ Users(s)' # {}
  <2>1. CASE s = x
    BY <2>1
  <2>2. CASE s # x
    <3>1. tab'[s] = tab[s]
      BY <2>2 DEF Elsewhere
    <3>2. Users(s)' = Users(s)
      BY <2>2, SlotsAre DEF Users, StepOf
    <3>3. IF tab[s] = Null THEN Users(s) = {} ELSE tab[s].ref = Cardinality(Users(s)) /\ Users(s) # {}
      BY UsersAre DEF Live
    <3> QED
      BY <3>1, <3>2, <3>3
  <2> QED
    BY <2>1, <2>2
<1> QED
  BY <1>1 DEF RefsExact, Users

\* A user takes a new instance.
LEMMA NewStep ==
    ASSUME TableInv, NEW c \in Clients, StepOf(c), NEW x \in Slots, x \notin Live, Elsewhere(x),
           InsOK(tab'[x]), tab'[x].ref = 1, cl[c].st = "closed", Phase(c)', Stream(c)',
           cl'[c].st = "open", cl'[c].op = "none", cl'[c].holds = x, cl'[c].id = tab'[x].id,
           \/ x \in Dynamic /\ tab'[x].id = x /\ Kind(c) \in {"v4l", "player"}
           \/ /\ x \in Static /\ ById(c) /\ tab'[x].id = setup[c].id
              /\ Names(-1, setup[c].id) /\ setup[c].id \notin Dynamic,
           \A d \in Clients : (d # c /\ cl[d].op = "bind") => cl[d].id # tab'[x].id,
           \A d \in Clients :
               (d # c /\ cl[d].st = "open" /\ ~ById(d) /\ cl[d].holds = -1) => cl[d].id # x
    PROVE  TableInv'
<1>1. cl[c].holds = -1
  BY DEF TableInv, Phase
<1>2. Live' = Live \cup {x} /\ \A s \in Live : tab'[s] = tab[s]
  <2>1. tab'[x] # Null
    BY InsLive
  <2> QED
    BY <2>1 DEF Live, Elsewhere
<1>3. \A d \in Clients : ById(d)' = ById(d) /\ Kind(d)' = Kind(d)
  BY DEF StepOf, ById, Kind
<1>4. TableType'
  BY <1>2 DEF TableInv, TableType, StepOf
<1>5. SlotIds'
  BY <1>2, SlotsAre DEF TableInv, SlotIds
<1>6. UniqueIds'
  <2>1. \A s \in Live : tab[s].id # tab'[x].id
    <3>1. CASE x \in Dynamic /\ tab'[x].id = x
      BY <3>1 DEF TableInv, SlotIds
    <3>2. CASE tab'[x].id = setup[c].id /\ Names(-1, setup[c].id)
      BY <3>2 DEF Names
    <3> QED
      BY <3>1, <3>2
  <2> QED
    BY <2>1, <1>2 DEF TableInv, UniqueIds
<1>7. Users(x) = {}
  BY UsersAre
<1>8. SoleOwner'
  <2>1. \A d \in Clients : d # c => cl'[d].holds # x
    BY <1>7 DEF Users, StepOf
  <2> QED
    BY <2>1 DEF TableInv, SoleOwner, StepOf
<1>9. OneBinder'
  BY DEF TableInv, OneBinder, StepOf
<1>10. RefsExact'
  <2>1. Users(x)' = {c}
    BY <1>7 DEF Users, StepOf
  <2>2. Cardinality({c}) = 1
    BY FS_Singleton
  <2>3. tab'[x] # Null
    BY InsLive
  <2> QED
    BY <1>1, <2>1, <2>2, <2>3, RefsStep
<1>11. ASSUME NEW d \in Clients PROVE Phase(d)' /\ Binder(d)' /\ Bound(d)' /\ Owned(d)' /\ Stream(d)'
  <2>1. CASE d = c
    <3>1. Binder(c)'
      BY DEF Binder
    <3>2. Bound(c)' /\ Owned(c)'
      BY <1>2, <1>3, SlotsAre DEF Bound, Owned, StepOf, ById
    <3> QED
      BY <2>1, <3>1, <3>2
  <2>2. CASE d # c
    <3>1. Phase(d) /\ Binder(d) /\ Bound(d) /\ Owned(d)
      BY DEF TableInv
    <3>2. cl'[d] = cl[d] /\ setup' = setup
      BY <2>2 DEF StepOf
    <3>3. Phase(d)'
      BY <1>3, <3>1, <3>2 DEF Phase
    <3>4. Binder(d)'
      BY <1>2, <2>2, <3>1, <3>2 DEF Binder, Names
    <3>5. Bound(d)'
      BY <1>2, <1>3, <3>1, <3>2 DEF Bound
    <3>6. Owned(d)'
      BY <1>2, <1>3, <2>2, <3>1, <3>2 DEF Owned
    <3>7. Stream(d)'
      <4>1. (Kind(d) = "v4l" /\ cl[d].st = "open") => cl[d].id # x
        BY StreamSlot
      <4> QED
        BY <2>2, <4>1, StreamOthers
    <3> QED
      BY <3>3, <3>4, <3>5, <3>6, <3>7
  <2> QED
    BY <2>1, <2>2
<1> QED
  BY <1>4, <1>5, <1>6, <1>8, <1>9, <1>10, <1>11 DEF TableInv

LEMMA AllocInv == ASSUME TableInv, Room, NEW c \in Clients, Alloc(c) PROVE TableInv'
<1> DEFINE x == FreeIn(Dynamic)
<1>1. Kind(c) \in {"v4l", "player"} /\ cl[c].st = "closed" /\ cl[c] \in UserRecords /\ setup' = setup
  BY DEF Alloc, MayOpen, TableInv, TableType
<1>2. x \in Dynamic /\ x \notin Live /\ x # -1 /\ x \in Slots
  BY <1>1, DynamicRoom, FreeInIs, SlotsAre
<1>3. PICK n \in {0, MaxCount} : tab' = [tab EXCEPT ![x] = NewIns(x, n)]
  BY <1>2 DEF Alloc
<1>4. PICK k0 : k0 = Closed(cl[c].opens + 1)
  OBVIOUS
<1>5. PICK k : k = [k0 EXCEPT !.st = "open", !.id = x, !.holds = x]
  OBVIOUS
<1>6. cl' = [cl EXCEPT ![c] = k]
  BY <1>2, <1>4, <1>5 DEF Alloc
<1> HIDE DEF x
<1>7. PICK i : i = NewIns(x, n) /\ InsOK(i) /\ i.id = x /\ i.ref = 1 /\ i.list = <<>> /\ i.pieceSize = 0
  BY NewInsIs
<1>8. tab' = [s \in Slots |-> tab'[s]] /\ tab'[x] = i /\ Elsewhere(x)
  BY <1>2, <1>3, <1>7, TabStep
<1>9. /\ k \in UserRecords /\ k.st = "open" /\ k.op = "none" /\ k.id = x /\ k.holds = x /\ k.pos = -1
      /\ k.frames = <<>>
  <2>1. cl[c].opens + 1 \in Nat
    BY <1>1 DEF UserRecords
  <2>2. k0 \in UserRecords /\ k0.op = "none" /\ k0.frames = <<>> /\ k0.pos = -1
    BY <1>4, <2>1, ClosedIs
  <2>3. x \in Int
    BY <1>2, SlotsAre
  <2> QED
    BY <1>2, <1>5, <2>2, <2>3 DEF UserRecords
<1>10. /\ cl' \in [Clients -> UserRecords] /\ cl'[c] = k /\ \A d \in Clients : d # c => cl'[d] = cl[d]
  BY <1>6, <1>9, UserStep
<1>11. StepOf(c)
  BY <1>1, <1>8, <1>10 DEF StepOf
<1>12. Phase(c)'
  BY <1>9, <1>10 DEF Phase
<1>13. Stream(c)'
  <2>1. DOMAIN <<>> = {}
    OBVIOUS
  <2>2. Marks(i.list) = {}
    BY <1>7, <2>1 DEF Marks, Range
  <2> QED
    BY <1>7, <1>8, <1>9, <1>10, <2>2 DEF Stream, Streaming
<1>14. ASSUME NEW d \in Clients, d # c, cl[d].op = "bind" PROVE cl[d].id # x
  <2>1. ById(d) /\ cl[d].id = setup[d].id
    BY <1>14 DEF TableInv, Phase
  <2> QED
    BY <1>2, <2>1, StaticIndex
<1>15. ASSUME NEW d \in Clients, d # c, cl[d].st = "open", ~ById(d), cl[d].holds = -1 PROVE cl[d].id # x
  <2>1. Kind(d) = "player" /\ setup[d].ioctl
    BY <1>15, SlotsAre DEF TableInv, Owned
  <2>2. c = d
    BY <1>1, <2>1 DEF Room, TableInv, TableType, Kind
  <2> QED
    BY <2>2, <1>15
<1> QED
  BY <1>1, <1>2, <1>7, <1>8, <1>9, <1>10, <1>11, <1>12, <1>13, <1>14, <1>15, NewStep

-----------------------------------------------------------------------------
(* Binding *)

LEMMA BindLookInv ==
    ASSUME TableInv, Room, Serial, NEW c \in Clients, BindLook(c)
    PROVE  TableInv'
<1> DEFINE x == IndexOf(setup[c].id)
<1>1. /\ ById(c) /\ cl[c].st = "closed" /\ cl[c].op = "none" /\ ~Binding /\ cl[c] \in UserRecords
      /\ setup' = setup /\ tab' = tab
  BY DEF BindLook, MayOpen, TableInv, TableType
<1>2. Names(x, setup[c].id) /\ x \in Slots \cup {-1}
  BY IndexOfIs, IndexType
<1>3. PICK k0 : k0 = Closed(cl[c].opens)
  OBVIOUS
<1>4. PICK k : k = [k0 EXCEPT !.id = setup[c].id, !.op = "bind", !.at = x]
  OBVIOUS
<1>5. cl' = [cl EXCEPT ![c] = k]
  BY <1>3, <1>4 DEF BindLook
<1> HIDE DEF x
<1>6. k \in UserRecords /\ k.st = "closed" /\ k.holds = -1 /\ k.op = "bind" /\ k.id = setup[c].id /\ k.at = x
  <2>1. k0 \in UserRecords /\ k0.st = "closed" /\ k0.holds = -1
    BY <1>1, <1>3, ClosedIs DEF UserRecords
  <2>2. setup[c].id \in Int
    BY ServerAssumption DEF TableInv, TableType, KindRecords
  <2> QED
    BY <1>2, <1>4, <2>1, <2>2 DEF UserRecords
<1>7. cl' \in [Clients -> UserRecords] /\ cl'[c] = k /\ \A d \in Clients : d # c => cl'[d] = cl[d]
  BY <1>5, <1>6, UserStep
<1>8. StepOf(c) /\ Elsewhere(-1)
  BY <1>1, <1>7 DEF StepOf, Elsewhere, TableInv, TableType
<1>9. cl[c].holds = -1
  BY <1>1 DEF TableInv, Phase
<1>10. \A d \in Clients : cl'[d].holds = cl[d].holds
  BY <1>6, <1>7, <1>9
<1>11. Live' = Live /\ \A d \in Clients : ById(d)' = ById(d) /\ Kind(d)' = Kind(d)
  BY <1>1 DEF Live, ById, Kind
<1>12. TableType' /\ SlotIds' /\ UniqueIds'
  BY <1>1, <1>7, <1>8, <1>11 DEF StepOf, TableInv, TableType, SlotIds, UniqueIds
<1>13. SoleOwner'
  BY <1>10 DEF TableInv, SoleOwner
<1>14. OneBinder'
  BY <1>1, <1>7 DEF OneBinder, Binding
<1>15. RefsExact'
  <2>1. \A s \in Slots : {d \in Clients : cl'[d].holds = s} = {d \in Clients : cl[d].holds = s}
    BY <1>10
  <2> QED
    BY <1>1, <2>1 DEF TableInv, RefsExact
<1>16. ASSUME NEW d \in Clients PROVE Phase(d)' /\ Binder(d)' /\ Bound(d)' /\ Owned(d)' /\ Stream(d)'
  <2>1. CASE d = c
    BY <1>1, <1>2, <1>6, <1>7, <1>11, <2>1 DEF Phase, Binder, Names, Bound, Owned, Stream
  <2>2. CASE d # c
    <3>1. Phase(d) /\ Binder(d) /\ Bound(d) /\ Owned(d) /\ Stream(d) /\ cl'[d] = cl[d]
      BY <1>7, <2>2 DEF TableInv
    <3> QED
      BY <1>1, <1>11, <3>1 DEF Phase, Binder, Names, Bound, Owned, Stream, Streaming
  <2> QED
    BY <2>1, <2>2
<1> QED
  BY <1>12, <1>13, <1>14, <1>15, <1>16 DEF TableInv

\* What a binder makes of its record
LEMMA BoundIs ==
    ASSUME TableInv, NEW c \in Clients, cl[c].op = "bind", NEW x \in Slots,
           cl' = [cl EXCEPT ![c] = [cl[c] EXCEPT !.st = "open", !.opens = @ + 1, !.op = "none",
                                          !.at = -1, !.holds = x]]
    PROVE  /\ cl' \in [Clients -> UserRecords] /\ \A d \in Clients : d # c => cl'[d] = cl[d]
           /\ cl'[c].st = "open" /\ cl'[c].op = "none" /\ cl'[c].holds = x /\ cl'[c].id = cl[c].id
<1>1. cl[c] \in UserRecords
  BY DEF TableInv, TableType
<1>2. PICK n \in Nat : n = cl[c].opens + 1
  BY <1>1 DEF UserRecords
<1>3. PICK k : k = [cl[c] EXCEPT !.st = "open", !.opens = n, !.op = "none", !.at = -1, !.holds = x]
  OBVIOUS
<1>4. cl' = [cl EXCEPT ![c] = k]
  BY <1>2, <1>3
<1>5. k \in UserRecords /\ k.st = "open" /\ k.op = "none" /\ k.holds = x /\ k.id = cl[c].id
  BY <1>1, <1>3 DEF UserRecords
<1> QED
  BY <1>4, <1>5, UserStep

\* A binder takes the instance it found.
LEMMA BindFound ==
    ASSUME TableInv, Room, NEW c \in Clients, BindTake(c), cl[c].at # -1
    PROVE  TableInv'
<1>0. PICK x : x = cl[c].at
  OBVIOUS
<1>1. /\ cl[c].op = "bind" /\ cl[c].st = "closed" /\ cl[c].holds = -1 /\ ById(c) /\ cl[c].id = setup[c].id
      /\ Names(x, setup[c].id) /\ cl[c] \in UserRecords /\ setup' = setup
  BY <1>0 DEF BindTake, TableInv, TableType, Phase, Binder
<1>2. x \in Live /\ x \in Slots /\ tab[x].id = setup[c].id /\ x # -1 /\ tab[x] # Null
  BY <1>0, <1>1 DEF Names, Live
<1>3. x \in Static
  BY <1>1, <1>2, StaticIndex DEF TableInv, SlotIds
<1>4. InsOK(tab[x]) /\ tab[x].ref = Cardinality(Users(x)) /\ IsFiniteSet(Users(x))
  BY <1>2, UsersAre DEF TableInv, TableType
<1>5. PICK n : n = tab[x].ref + 1
  OBVIOUS
<1>6. PICK y : y = [tab[x] EXCEPT !.ref = n]
  OBVIOUS
<1>7. tab' = [tab EXCEPT ![x] = y]
  BY <1>0, <1>2, <1>5, <1>6 DEF BindTake
<1>8. InsOK(y) /\ y.ref = n /\ y.id = tab[x].id /\ y # Null
  <2>1. DOMAIN tab[x] = Fields
    BY <1>4 DEF InsOK
  <2>2. Same(tab[x], y, {"ref"}) /\ y.ref = n
    BY <1>6, <2>1 DEF Same, Fields
  <2>3. InsOK(y)
    BY <1>4, <2>2 DEF InsOK, Same, Fields
  <2>4. y.id = tab[x].id
    BY <2>2 DEF Same, Fields
  <2> QED
    BY <2>2, <2>3, <2>4, InsLive
<1>9. tab' = [s \in Slots |-> tab'[s]] /\ tab'[x] = y /\ Elsewhere(x)
  BY <1>2, <1>7, TabStep
<1>10. /\ cl' \in [Clients -> UserRecords] /\ \A d \in Clients : d # c => cl'[d] = cl[d]
       /\ cl'[c].st = "open" /\ cl'[c].op = "none" /\ cl'[c].holds = x /\ cl'[c].id = cl[c].id
  <2>1. cl' = [cl EXCEPT ![c] = [cl[c] EXCEPT !.st = "open", !.opens = @ + 1, !.op = "none",
                                          !.at = -1, !.holds = x]]
    BY <1>0, <1>2 DEF BindTake
  <2> QED
    BY <1>1, <1>2, <2>1, BoundIs
<1>11. StepOf(c)
  BY <1>1, <1>9, <1>10 DEF StepOf
<1>12. Live' = Live /\ \A s \in Live : tab'[s].id = tab[s].id /\ InsOK(tab'[s])
  BY <1>2, <1>8, <1>9 DEF Live, Elsewhere, TableInv, TableType
<1>13. \A d \in Clients : ById(d)' = ById(d) /\ Kind(d)' = Kind(d)
  BY <1>1 DEF ById, Kind
<1>14. TableType' /\ SlotIds' /\ UniqueIds'
  <2>1. TableType'
    BY <1>11, <1>12 DEF StepOf, TableInv, TableType
  <2>2. SlotIds' /\ UniqueIds'
    BY <1>12 DEF TableInv, SlotIds, UniqueIds
  <2> QED
    BY <2>1, <2>2
<1>15. SoleOwner'
  <2>1. x \notin Dynamic
    BY <1>3, SlotsAre
  <2> QED
    BY <1>10, <2>1 DEF TableInv, SoleOwner
<1>16. OneBinder'
  BY <1>10 DEF TableInv, OneBinder
<1>17. RefsExact'
  <2>1. Users(x)' = Users(x) \cup {c} /\ c \notin Users(x)
    <3>1. c \notin Users(x)
      BY <1>1, <1>2 DEF Users
    <3>2. \A d \in Clients : cl'[d].holds = x <=> d \in Users(x) \cup {c}
      BY <1>10 DEF Users
    <3>3. Users(x) \subseteq Clients /\ Users(x)' = {d \in Clients : cl'[d].holds = x}
      BY DEF Users
    <3> QED
      BY <3>1, <3>2, <3>3
  <2>2. Cardinality(Users(x)') = Cardinality(Users(x)) + 1
    BY <1>4, <2>1, FS_AddElement
  <2>3. Users(x)' # {}
    BY <2>1
  <2>4. tab'[x] # Null /\ tab'[x].ref = Cardinality(Users(x)')
    BY <1>4, <1>5, <1>8, <1>9, <2>2
  <2> QED
    BY <1>1, <1>2, <1>9, <1>10, <1>11, <2>3, <2>4, RefsStep
<1>18. ASSUME NEW d \in Clients PROVE Phase(d)' /\ Binder(d)' /\ Bound(d)' /\ Owned(d)' /\ Stream(d)'
  <2>1. CASE d = c
    <3>1. Phase(c)' /\ Binder(c)'
      BY <1>10 DEF Phase, Binder
    <3>2. Bound(c)' /\ Owned(c)' /\ Stream(c)'
      BY <1>1, <1>2, <1>3, <1>10, <1>12, <1>13 DEF Bound, Owned, Stream, ById
    <3> QED
      BY <2>1, <3>1, <3>2
  <2>2. CASE d # c
    <3>1. Phase(d) /\ Binder(d) /\ Bound(d) /\ Owned(d) /\ cl'[d] = cl[d]
      BY <1>10, <2>2 DEF TableInv
    <3>2. Phase(d)' /\ Binder(d)' /\ Bound(d)' /\ Owned(d)'
      BY <1>1, <1>12, <1>13, <3>1 DEF Phase, Binder, Names, Bound, Owned
    <3>3. Stream(d)'
      <4>1. (Kind(d) = "v4l" /\ cl[d].st = "open") => cl[d].id # x
        BY <1>3, NotStreams
      <4> QED
        BY <1>9, <1>11, <2>2, <4>1, StreamOthers
    <3> QED
      BY <3>2, <3>3
  <2> QED
    BY <2>1, <2>2
<1> QED
  BY <1>14, <1>15, <1>16, <1>17, <1>18 DEF TableInv

\* A binder that found nothing makes the instance.
LEMMA BindMade ==
    ASSUME TableInv, Room, NEW c \in Clients, BindTake(c), cl[c].at = -1
    PROVE  TableInv'
<1> DEFINE x == FreeIn(Static)
<1>1. /\ cl[c].op = "bind" /\ cl[c].st = "closed" /\ ById(c) /\ cl[c].id = setup[c].id
      /\ Names(-1, setup[c].id) /\ cl[c] \in UserRecords /\ setup' = setup
  BY DEF BindTake, TableInv, TableType, Phase, Binder
<1>2. setup[c].id \notin Dynamic
  BY <1>1, StaticIndex
<1>3. x \in Static /\ x \notin Live /\ x # -1 /\ x \in Slots
  BY <1>1, StaticRoom, FreeInIs, SlotsAre
<1>4. PICK y : y = NewIns(setup[c].id, MaxCount) /\ InsOK(y) /\ y.id = setup[c].id /\ y.ref = 1
  BY NewInsIs
<1>5. tab' = [tab EXCEPT ![x] = y]
  BY <1>1, <1>3, <1>4 DEF BindTake
<1>6. cl' = [cl EXCEPT ![c] = [cl[c] EXCEPT !.st = "open", !.opens = @ + 1, !.op = "none",
                                       !.at = -1, !.holds = x]]
  BY DEF BindTake
<1> HIDE DEF x
<1>7. tab' = [s \in Slots |-> tab'[s]] /\ tab'[x] = y /\ Elsewhere(x)
  BY <1>3, <1>5, TabStep
<1>8. /\ cl' \in [Clients -> UserRecords] /\ \A d \in Clients : d # c => cl'[d] = cl[d]
      /\ cl'[c].st = "open" /\ cl'[c].op = "none" /\ cl'[c].holds = x /\ cl'[c].id = cl[c].id
  BY <1>1, <1>3, <1>6, BoundIs
<1>9. StepOf(c)
  BY <1>1, <1>7, <1>8 DEF StepOf
<1>10. Phase(c)' /\ Stream(c)'
  BY <1>1, <1>8 DEF Phase, Stream, ById, Kind
<1>11. \A d \in Clients : (d # c /\ cl[d].op = "bind") => cl[d].id # tab'[x].id
  BY <1>1 DEF TableInv, OneBinder
<1>12. ASSUME NEW d \in Clients, d # c, cl[d].st = "open", ~ById(d), cl[d].holds = -1
       PROVE  cl[d].id # x
  <2>1. cl[d].id \in Dynamic
    BY <1>12 DEF TableInv, Owned
  <2> QED
    BY <1>3, <2>1, SlotsAre
<1>13. tab'[x].id = setup[c].id /\ tab'[x].ref = 1 /\ InsOK(tab'[x]) /\ cl'[c].id = tab'[x].id
  BY <1>1, <1>4, <1>7, <1>8
<1> QED
  BY <1>1, <1>2, <1>3, <1>7, <1>8, <1>9, <1>10, <1>11, <1>12, <1>13, NewStep

LEMMA BindTakeInv == ASSUME TableInv, Room, NEW c \in Clients, BindTake(c) PROVE TableInv'
BY BindFound, BindMade

-----------------------------------------------------------------------------
(* Releasing *)

\* A user gives back what it holds: the instance goes, or another one has it still.
LEMMA GivenBack ==
    ASSUME TableInv, ~Binding, NEW c \in Clients, StepOf(c), NEW x \in Live, Elsewhere(x),
           cl[c].holds = x, cl'[c].holds = -1, cl'[c].op # "bind",
           \/ tab'[x] = Null /\ Users(x) = {c}
           \/ x \in Static /\ InsOK(tab'[x]) /\ tab'[x].id = tab[x].id,
           RefsExact', Phase(c)', Bound(c)', Owned(c)', Stream(c)'
    PROVE  TableInv'
<1>1. \A d \in Clients : ById(d)' = ById(d) /\ Kind(d)' = Kind(d)
  BY DEF StepOf, ById, Kind
<1>2. x \in Slots /\ x # -1
  BY SlotsAre DEF Live
<1>3. /\ Live' \subseteq Live
      /\ \A s \in Live' : tab'[s].id = tab[s].id /\ InsOK(tab'[s])
      /\ \A s \in Live : s \in Live' \/ (s = x /\ Users(x) = {c})
  <2>1. \A s \in Live : InsOK(tab[s])
    BY DEF TableInv, TableType
  <2>2. tab'[x] # Null => InsOK(tab'[x]) /\ tab'[x].id = tab[x].id
    OBVIOUS
  <2>3. tab'[x] = Null => Users(x) = {c}
    BY InsLive
  <2> QED
    BY <1>2, <2>1, <2>2, <2>3 DEF Live, Elsewhere
<1>4. TableType' /\ SlotIds' /\ UniqueIds'
  BY <1>3 DEF StepOf, TableInv, TableType, SlotIds, UniqueIds
<1>5. SoleOwner'
  BY SlotsAre DEF TableInv, SoleOwner, StepOf
<1>6. \A d \in Clients : cl'[d].op # "bind"
  BY DEF StepOf, Binding
<1>7. OneBinder'
  BY <1>6 DEF OneBinder
<1>8. ASSUME NEW d \in Clients PROVE Phase(d)' /\ Binder(d)' /\ Bound(d)' /\ Owned(d)' /\ Stream(d)'
  <2>1. Binder(d)'
    BY <1>6 DEF Binder
  <2>2. CASE d = c
    BY <2>1, <2>2
  <2>3. CASE d # c
    <3>1. Phase(d) /\ Bound(d) /\ Owned(d) /\ cl'[d] = cl[d] /\ setup' = setup
      BY <2>3 DEF TableInv, StepOf
    <3>2. Phase(d)'
      BY <1>1, <3>1 DEF Phase
    <3>3. cl[d].holds \in Live => cl[d].holds \in Live'
      BY <1>3, <2>3 DEF Users
    <3>4. Bound(d)'
      BY <1>1, <1>3, <3>1, <3>3 DEF Bound
    <3>5. Owned(d)'
      BY <1>1, <1>3, <3>1, <3>3 DEF Owned
    <3>6. Stream(d)'
      <4>1. (Kind(d) = "v4l" /\ cl[d].st = "open") => cl[d].id # x
        <5>1. SUFFICES ASSUME Kind(d) = "v4l", cl[d].st = "open" PROVE cl[d].id # x
          OBVIOUS
        <5>2. cl[d].id \in Dynamic /\ cl[d].holds = cl[d].id
          BY <5>1, StreamSlot
        <5> QED
          BY <2>3, <5>2, SlotsAre DEF TableInv, SoleOwner
      <4> QED
        BY <2>3, <4>1, StreamOthers
    <3> QED
      BY <2>1, <3>2, <3>4, <3>5, <3>6
  <2> QED
    BY <2>2, <2>3
<1> QED
  BY <1>4, <1>5, <1>7, <1>8 DEF TableInv

\* The call ends: the file stays open after an ioctl, and is closed otherwise.
LEMMA EndIs ==
    ASSUME TableInv, NEW c \in Clients, cl[c].op \in {"release", "ioctl"},
           cl' = [cl EXCEPT ![c] = IF cl[c].op = "ioctl"
                                   THEN [@ EXCEPT !.op = "none", !.at = -1, !.holds = -1]
                                   ELSE Closed(@.opens)]
    PROVE  /\ cl' \in [Clients -> UserRecords] /\ \A d \in Clients : d # c => cl'[d] = cl[d]
           /\ cl'[c].op = "none" /\ cl'[c].holds = -1
           /\ \/ cl'[c].st = "closed"
              \/ /\ cl'[c].st = "open" /\ cl[c].st = "open" /\ cl'[c].id = cl[c].id
                 /\ Kind(c) = "player" /\ setup[c].ioctl
<1>1. cl[c] \in UserRecords /\ Phase(c)
  BY DEF TableInv, TableType
<1>2. CASE cl[c].op = "ioctl"
  <2>1. PICK k : k = [cl[c] EXCEPT !.op = "none", !.at = -1, !.holds = -1]
    OBVIOUS
  <2>2. cl' = [cl EXCEPT ![c] = k]
    BY <1>2, <2>1
  <2>3. k \in UserRecords /\ k.op = "none" /\ k.holds = -1 /\ k.st = cl[c].st /\ k.id = cl[c].id
    BY <1>1, <2>1 DEF UserRecords
  <2>4. cl[c].st = "open" /\ Kind(c) = "player" /\ setup[c].ioctl
    BY <1>1, <1>2 DEF Phase
  <2> QED
    BY <2>2, <2>3, <2>4, UserStep
<1>3. CASE cl[c].op = "release"
  <2>1. PICK k : k = Closed(cl[c].opens)
    OBVIOUS
  <2>2. cl' = [cl EXCEPT ![c] = k]
    BY <1>3, <2>1
  <2>3. k \in UserRecords /\ k.op = "none" /\ k.holds = -1 /\ k.st = "closed"
    BY <1>1, <2>1, ClosedIs DEF UserRecords
  <2> QED
    BY <2>2, <2>3, UserStep
<1> QED
  BY <1>2, <1>3

\* A release finds what its user holds.
LEMMA DropHolds ==
    ASSUME TableInv, NEW c \in Clients, ReleaseDrop(c)
    PROVE  /\ cl[c].op \in {"release", "ioctl"} /\ cl[c].st = "open" /\ cl[c].at = cl[c].holds
           /\ cl[c].at = -1 \/ (cl[c].at \in Live /\ cl[c].at # -1)
<1>1. cl[c].op \in {"release", "ioctl"} /\ cl[c].st = "open" /\ cl[c].at = cl[c].holds
  BY DEF ReleaseDrop, TableInv, Phase
<1> QED
  BY <1>1, HolderIs

LEMMA DropNothing ==
    ASSUME TableInv, NEW c \in Clients, ReleaseDrop(c), cl[c].holds = -1
    PROVE  TableInv'
<1>1. cl[c].op \in {"release", "ioctl"} /\ cl[c].st = "open" /\ cl[c].at = -1
  BY DropHolds
<1>2. /\ tab' = tab /\ setup' = setup
      /\ cl' = [cl EXCEPT ![c] = IF cl[c].op = "ioctl"
                                 THEN [@ EXCEPT !.op = "none", !.at = -1, !.holds = -1]
                                 ELSE Closed(@.opens)]
  BY <1>1 DEF ReleaseDrop
<1>3. /\ cl' \in [Clients -> UserRecords] /\ \A d \in Clients : d # c => cl'[d] = cl[d]
      /\ cl'[c].op = "none" /\ cl'[c].holds = -1
      /\ \/ cl'[c].st = "closed"
         \/ /\ cl'[c].st = "open" /\ cl[c].st = "open" /\ cl'[c].id = cl[c].id
            /\ Kind(c) = "player" /\ setup[c].ioctl
  BY <1>1, <1>2, EndIs
<1>4. StepOf(c) /\ KeptTab(-1)
  BY <1>2, <1>3 DEF StepOf, KeptTab, Elsewhere, TableInv, TableType
<1>5. Phase(c)' /\ Stream(c)'
  BY <1>2, <1>3 DEF Phase, Stream, Kind
<1>6. \A d \in Clients : (d # c /\ Kind(d) = "v4l" /\ cl[d].st = "open") => cl[d].id # -1
  BY StreamSlot, SlotsAre
<1> QED
  BY <1>3, <1>4, <1>5, <1>6, KeptStep

LEMMA DropLast ==
    ASSUME TableInv, Serial, NEW c \in Clients, ReleaseDrop(c), cl[c].holds # -1,
           tab[cl[c].holds].ref = 1
    PROVE  TableInv'
<1>0. PICK x : x = cl[c].holds
  OBVIOUS
<1>1. /\ cl[c].op \in {"release", "ioctl"} /\ cl[c].st = "open" /\ cl[c].at = x /\ x # -1
      /\ x \in Live /\ x \in Slots /\ tab[x] # Null /\ tab[x].ref = 1
  BY <1>0, DropHolds DEF Live
<1>2. /\ tab' = [tab EXCEPT ![x] = Null] /\ setup' = setup /\ ~Binding
      /\ cl' = [cl EXCEPT ![c] = IF cl[c].op = "ioctl"
                                 THEN [@ EXCEPT !.op = "none", !.at = -1, !.holds = -1]
                                 ELSE Closed(@.opens)]
  BY <1>1 DEF ReleaseDrop
<1>3. /\ cl' \in [Clients -> UserRecords] /\ \A d \in Clients : d # c => cl'[d] = cl[d]
      /\ cl'[c].op = "none" /\ cl'[c].holds = -1
      /\ \/ cl'[c].st = "closed"
         \/ /\ cl'[c].st = "open" /\ cl[c].st = "open" /\ cl'[c].id = cl[c].id
            /\ Kind(c) = "player" /\ setup[c].ioctl
  BY <1>1, <1>2, EndIs
<1>4. tab' = [s \in Slots |-> tab'[s]] /\ tab'[x] = Null /\ Elsewhere(x)
  BY <1>1, <1>2, TabStep
<1>5. StepOf(c)
  BY <1>2, <1>3, <1>4 DEF StepOf
<1>6. Users(x) = {c}
  <2>1. IsFiniteSet(Users(x)) /\ Cardinality(Users(x)) = 1
    BY <1>1, UsersAre
  <2>2. PICK d : Users(x) = {d}
    BY <2>1, FS_Singleton
  <2>3. c \in Users(x)
    BY <1>0 DEF Users
  <2> QED
    BY <2>2, <2>3
<1>7. RefsExact'
  <2>1. \A d \in Clients : cl'[d].holds # x
    BY <1>1, <1>3, <1>6 DEF Users
  <2>2. Users(x)' = {}
    BY <2>1 DEF Users
  <2> QED
    BY <1>0, <1>1, <1>3, <1>4, <1>5, <2>2, RefsStep
<1>8. Phase(c)' /\ Stream(c)'
  BY <1>2, <1>3 DEF Phase, Stream, Kind
<1>9. Bound(c)' /\ Owned(c)'
  <2>1. CASE cl'[c].st = "closed"
    BY <2>1 DEF Bound, Owned
  <2>2. CASE cl'[c].st = "open" /\ cl'[c].id = cl[c].id /\ Kind(c) = "player" /\ setup[c].ioctl
    <3>1. Kind(c)' = "player" /\ ~ById(c)' /\ ~ById(c) /\ setup[c].ioctl'
      BY <1>2, <2>2 DEF ById, Kind
    <3>2. cl[c].id = x /\ x \in Dynamic
      BY <1>0, <1>1, <3>1, HolderIs
    <3>3. x \notin Live'
      BY <1>4 DEF Live
    <3> QED
      BY <1>3, <2>2, <3>1, <3>2, <3>3 DEF Bound, Owned
  <2> QED
    BY <1>3, <2>1, <2>2
<1> QED
  BY <1>0, <1>1, <1>2, <1>3, <1>4, <1>5, <1>6, <1>7, <1>8, <1>9, GivenBack

LEMMA DropShared ==
    ASSUME TableInv, Serial, NEW c \in Clients, ReleaseDrop(c), cl[c].holds # -1,
           tab[cl[c].holds].ref # 1
    PROVE  TableInv'
<1>0. PICK x : x = cl[c].holds
  OBVIOUS
<1>1. /\ cl[c].op \in {"release", "ioctl"} /\ cl[c].st = "open" /\ cl[c].at = x /\ x # -1
      /\ x \in Live /\ x \in Slots /\ tab[x] # Null /\ tab[x].ref # 1 /\ InsOK(tab[x])
      /\ cl[c] \in UserRecords
  BY <1>0, DropHolds DEF Live, TableInv, TableType
<1>2. /\ tab[x].ref = Cardinality(Users(x)) /\ IsFiniteSet(Users(x)) /\ Cardinality(Users(x)) \in Nat
      /\ c \in Users(x)
  BY <1>0, <1>1, UsersAre DEF Users
<1>3. ById(c) /\ x \in Static /\ cl[c].op = "release" /\ cl[c].id = setup[c].id
  <2>1. ById(c)
    <3>1. SUFFICES ASSUME ~ById(c) PROVE FALSE
      OBVIOUS
    <3>2. x \in Dynamic
      BY <1>0, <3>1, HolderIs
    <3>3. Users(x) = {c}
      BY <1>0, <1>2, <3>2 DEF Users, TableInv, SoleOwner
    <3> QED
      BY <1>1, <1>2, <3>3, FS_Singleton
  <2>2. Phase(c) /\ Bound(c)
    BY DEF TableInv
  <2> QED
    BY <1>0, <1>1, <2>1, <2>2 DEF Phase, Bound, ById, Kind
<1>4. PICK n : n = tab[x].ref - 1
  OBVIOUS
<1>5. PICK y : y = [tab[x] EXCEPT !.ref = n]
  OBVIOUS
<1>6. PICK k : k = [cl[c] EXCEPT !.op = "resetting", !.at = -1, !.holds = -1, !.st = "closed"]
  OBVIOUS
<1>7. tab' = [tab EXCEPT ![x] = y] /\ setup' = setup /\ ~Binding
  BY <1>1, <1>4, <1>5 DEF ReleaseDrop
<1>8. cl' = [cl EXCEPT ![c] = k]
  <2> DEFINE e == [cl[c] EXCEPT !.op = "resetting", !.at = -1, !.holds = -1,
                                !.st = IF cl[c].op = "ioctl" THEN @ ELSE "closed"]
  <2>1. cl' = [cl EXCEPT ![c] = e]
    BY <1>1 DEF ReleaseDrop
  <2>2. e = k
    BY <1>1, <1>3, <1>6 DEF UserRecords
  <2> HIDE DEF e
  <2> QED
    BY <2>1, <2>2
<1>9. InsOK(y) /\ y.ref = n /\ y.id = tab[x].id /\ y # Null
  <2>1. DOMAIN tab[x] = Fields
    BY <1>1 DEF InsOK
  <2>2. Same(tab[x], y, {"ref"}) /\ y.ref = n
    BY <1>5, <2>1 DEF Same, Fields
  <2>3. InsOK(y)
    BY <1>1, <2>2 DEF InsOK, Same, Fields
  <2>4. y.id = tab[x].id
    BY <2>2 DEF Same, Fields
  <2> QED
    BY <2>2, <2>3, <2>4, InsLive
<1>10. tab' = [s \in Slots |-> tab'[s]] /\ tab'[x] = y /\ Elsewhere(x)
  BY <1>1, <1>7, TabStep
<1>11. k \in UserRecords /\ k.op = "resetting" /\ k.st = "closed" /\ k.holds = -1 /\ k.id = cl[c].id
  BY <1>1, <1>6 DEF UserRecords
<1>12. cl' \in [Clients -> UserRecords] /\ cl'[c] = k /\ \A d \in Clients : d # c => cl'[d] = cl[d]
  BY <1>8, <1>11, UserStep
<1>13. StepOf(c)
  BY <1>7, <1>10, <1>12 DEF StepOf
<1>14. RefsExact'
  <2>1. Users(x)' = Users(x) \ {c}
    <3>1. \A d \in Clients : cl'[d].holds = x <=> d \in Users(x) \ {c}
      BY <1>1, <1>11, <1>12 DEF Users
    <3>2. Users(x) \subseteq Clients /\ Users(x)' = {d \in Clients : cl'[d].holds = x}
      BY DEF Users
    <3> QED
      BY <3>1, <3>2
  <2>2. IsFiniteSet(Users(x)') /\ Cardinality(Users(x)') = Cardinality(Users(x)) - 1
    BY <1>2, <2>1, FS_RemoveElement
  <2>3. Users(x)' # {}
    BY <1>1, <1>2, <2>2, FS_EmptySet
  <2>4. tab'[x] # Null /\ tab'[x].ref = Cardinality(Users(x)')
    BY <1>2, <1>4, <1>9, <1>10, <2>2
  <2> QED
    BY <1>0, <1>1, <1>10, <1>11, <1>12, <1>13, <2>3, <2>4, RefsStep
<1>15. Phase(c)'
  <2>1. ById(c)'
    BY <1>3, <1>7 DEF ById, Kind
  <2> QED
    BY <1>3, <1>7, <1>11, <1>12, <2>1 DEF Phase
<1>16. Bound(c)' /\ Owned(c)' /\ Stream(c)'
  BY <1>11, <1>12 DEF Bound, Owned, Stream
<1> QED
  BY <1>0, <1>1, <1>3, <1>7, <1>9, <1>10, <1>11, <1>12, <1>13, <1>14, <1>15, <1>16, GivenBack

LEMMA ReleaseDropInv == ASSUME TableInv, Serial, NEW c \in Clients, ReleaseDrop(c) PROVE TableInv'
BY DropNothing, DropLast, DropShared

-----------------------------------------------------------------------------
(* The theorems *)

LEMMA InitInv == ASSUME Init PROVE TableInv
<1>1. setup \in Setups /\ tab = [s \in Slots |-> Null] /\ cl = [c \in Clients |-> Closed(0)]
  BY DEF Init
<1>2. Live = {}
  BY <1>1 DEF Live
<1>3. PICK k : k = Closed(0)
  OBVIOUS
<1>4. /\ k \in UserRecords /\ k.st = "closed" /\ k.op = "none" /\ k.holds = -1
      /\ cl = [c \in Clients |-> k]
  BY <1>1, <1>3, ClosedIs
<1>5. TableType
  BY <1>1, <1>2, <1>4 DEF TableType
<1>6. SlotIds /\ UniqueIds
  BY <1>2 DEF SlotIds, UniqueIds
<1>7. SoleOwner
  BY <1>4, SlotsAre DEF SoleOwner
<1>8. OneBinder
  BY <1>4 DEF OneBinder
<1>9. RefsExact
  <2>1. \A s \in Slots : {c \in Clients : cl[c].holds = s} = {}
    BY <1>4, SlotsAre
  <2> QED
    BY <1>1, <2>1 DEF RefsExact
<1>10. ASSUME NEW c \in Clients PROVE Phase(c) /\ Binder(c) /\ Bound(c) /\ Owned(c) /\ Stream(c)
  BY <1>4 DEF Phase, Binder, Bound, Owned, Stream
<1> QED
  BY <1>5, <1>6, <1>7, <1>8, <1>9, <1>10 DEF TableInv

LEMMA StutterInv == ASSUME TableInv, UNCHANGED vars PROVE TableInv'
<1>1. setup' = setup /\ tab' = tab /\ cl' = cl
  BY DEF vars
<1>2. Live' = Live
  BY <1>1 DEF Live
<1>3. TableType' /\ SlotIds' /\ UniqueIds'
  BY <1>1, <1>2 DEF TableInv, TableType, SlotIds, UniqueIds
<1>4. SoleOwner' /\ OneBinder' /\ RefsExact'
  BY <1>1 DEF TableInv, SoleOwner, OneBinder, RefsExact
<1>5. ASSUME NEW c \in Clients PROVE Phase(c)' /\ Binder(c)' /\ Bound(c)' /\ Owned(c)' /\ Stream(c)'
  <2>1. Phase(c) /\ Binder(c) /\ Bound(c) /\ Owned(c) /\ Stream(c)
    BY DEF TableInv
  <2>2. ById(c)' = ById(c) /\ Kind(c)' = Kind(c)
    BY <1>1 DEF ById, Kind
  <2>3. Phase(c)' /\ Binder(c)'
    BY <1>1, <1>2, <2>1, <2>2 DEF Phase, Binder, Names
  <2>4. Bound(c)' /\ Owned(c)' /\ Stream(c)'
    BY <1>1, <1>2, <2>1, <2>2 DEF Bound, Owned, Stream, Streaming
  <2> QED
    BY <2>3, <2>4
<1> QED
  BY <1>3, <1>4, <1>5 DEF TableInv

LEMMA NextInv == ASSUME TableInv, Room, Serial, [Next]_vars PROVE TableInv'
<1>1. ASSUME NEW c \in Clients, Alloc(c) PROVE TableInv'
  BY <1>1, AllocInv
<1>2. ASSUME NEW c \in Clients, BindLook(c) PROVE TableInv'
  BY <1>2, BindLookInv
<1>3. ASSUME NEW c \in Clients, BindTake(c) PROVE TableInv'
  BY <1>3, BindTakeInv
<1>4. ASSUME NEW c \in Clients, ReleaseLook(c) PROVE TableInv'
  BY <1>4, ReleaseLookInv
<1>5. ASSUME NEW c \in Clients, ReleaseDrop(c) PROVE TableInv'
  BY <1>5, ReleaseDropInv
<1>6. ASSUME NEW c \in Clients, Ioctl(c) PROVE TableInv'
  BY <1>6, IoctlInv
<1>7. ASSUME NEW c \in Clients, ResetLook(c) PROVE TableInv'
  BY <1>7, ResetLookInv
<1>8. ASSUME NEW c \in Clients, ResetDo(c) PROVE TableInv'
  BY <1>8, ResetDoInv
<1>9. ASSUME NEW c \in Clients, SetFirst(c) PROVE TableInv'
  BY <1>9, SetFirstInv
<1>10. ASSUME NEW c \in Clients, WriteFrame(c) PROVE TableInv'
  BY <1>10, WriteFrameInv
<1>11. ASSUME NEW c \in Clients, WritePiece(c) PROVE TableInv'
  BY <1>11, WritePieceInv
<1>12. ASSUME NEW c \in Clients, OutFrame(c) PROVE TableInv'
  BY <1>12, OutFrameInv
<1>13. ASSUME NEW c \in Clients, PeekFrame(c) PROVE TableInv'
  BY <1>13, PeekFrameInv
<1>14. ASSUME NEW c \in Clients, CheckIn(c) PROVE TableInv'
  BY <1>14, CheckInInv
<1>15. ASSUME NEW c \in Clients, CheckOut(c) PROVE TableInv'
  BY <1>15, CheckOutInv
<1>16. ASSUME NEW c \in Clients, PeekPts(c) PROVE TableInv'
  BY <1>16, PeekPtsInv
<1>17. ASSUME NEW c \in Clients, SetMode(c) PROVE TableInv'
  BY <1>17, SetModeInv
<1>18. ASSUME NEW c \in Clients, SetTrick(c) PROVE TableInv'
  BY <1>18, SetTrickInv
<1>19. ASSUME NEW c \in Clients, CallLook(c) PROVE TableInv'
  BY <1>19, CallLookInv
<1>20. ASSUME NEW c \in Clients, CallDo(c) PROVE TableInv'
  BY <1>20, CallDoInv
<1>21. CASE UNCHANGED vars
  BY <1>21, StutterInv
<1> QED
  BY <1>1, <1>2, <1>3, <1>4, <1>5, <1>6, <1>7, <1>8, <1>9, <1>10, <1>11, <1>12, <1>13, <1>14, <1>15,
     <1>16, <1>17, <1>18, <1>19, <1>20, <1>21 DEF Next

(* The table of instances (vPtsServerInsList) stays consistent under every *)
(* call of pts_server_core.c: who holds a slot, what each caller found     *)
(* before it let the lock go, and what each list says of its stream.       *)
THEOREM TableStays == ASSUME Serial, Room PROVE Spec => []TableInv
<1>1. Init => TableInv
  BY InitInv
<1>2. TableInv /\ [Next]_vars => TableInv'
  BY NextInv
<1> QED
  BY <1>1, <1>2, PTL DEF Spec

LEMMA TypeFollows == ASSUME TableInv PROVE TypeOK
<1>1. ASSUME NEW c \in Clients
      PROVE  /\ cl[c].st \in {"closed", "open"} /\ cl[c].id \in Int /\ cl[c].at \in Slots \cup {-1}
             /\ cl[c].op \in {"none", "bind", "release", "ioctl", "resetting", "reset", "call"}
  <2>1. cl[c] \in UserRecords
    BY DEF TableInv, TableType
  <2> QED
    BY <2>1 DEF UserRecords
<1>2. ASSUME NEW i, InsOK(i)
      PROVE  /\ i.size = Len(i.list) /\ i.free + i.size = i.nodes
             /\ \A n \in ToSet(i.list) : n.offset \in Offsets /\ n.pts \in 0..MinusOne
             /\ i.pieceOffset \in Offsets /\ i.curOffset \in Offsets /\ i.outPts \in 0..MinusOne
  <2>1. i.list \in Seq(Nodes)
    BY <1>2 DEF InsOK
  <2>2. \A n \in ToSet(i.list) : n \in Nodes
    BY <2>1 DEF ToSet
  <2> QED
    BY <1>2, <2>2 DEF InsOK, Nodes, Stamps
<1>3. \A s \in Live : InsOK(tab[s])
  BY DEF TableInv, TableType
<1> QED
  BY <1>1, <1>2, <1>3 DEF TypeOK

(* Every node of an instance is in pts_list or in pts_free_list, mListSize *)
(* counts the first, and offsets and time stamps keep their width, after   *)
(* any sequence of check-ins and check-outs (every list_del and list_move  *)
(* of pts_server_core.c).                                                  *)
THEOREM TypeCorrect == ASSUME Serial, Room PROVE Spec => []TypeOK
<1>1. TableInv => TypeOK
  BY TypeFollows
<1> QED
  BY <1>1, TableStays, PTL

(* The count of an instance is the number of users that took a reference   *)
(* and have not given it back, and it goes with the last one               *)
(* (ptsserver_ins_alloc, ptsserver_static_ins_binder, ptsserver_ins_release). *)
THEOREM RefsCorrect == ASSUME Serial, Room PROVE Spec => []RefsExact
<1>1. TableInv => RefsExact
  BY DEF TableInv
<1> QED
  BY <1>1, TableStays, PTL

LEMMA OneFollows == ASSUME TableInv PROVE OneInstance
<1>1. \A s, t \in Live : tab[s].id = tab[t].id => s = t
  BY DEF TableInv, UniqueIds
<1>2. ASSUME NEW c \in Clients, cl[c].op \in {"call", "release"}, cl[c].at # -1, cl[c].holds # -1
      PROVE  tab[cl[c].at] # Null /\ tab[cl[c].at].id = cl[c].id
  <2>1. cl[c].at = cl[c].holds
    BY <1>2 DEF TableInv, Phase
  <2>2. cl[c].st = "open" /\ cl[c].holds \in Live
    BY <1>2, HolderIs
  <2>3. tab[cl[c].holds].id = cl[c].id
    <3>1. CASE ById(c)
      BY <2>2, <3>1 DEF TableInv, Bound
    <3>2. CASE ~ById(c)
      <4>1. cl[c].holds \in Dynamic /\ cl[c].id = cl[c].holds
        BY <1>2, <3>2, HolderIs
      <4> QED
        BY <2>2, <4>1 DEF TableInv, SlotIds
    <3> QED
      BY <3>1, <3>2
  <2> QED
    BY <2>1, <2>2, <2>3 DEF Live
<1> QED
  BY <1>1, <1>2 DEF OneInstance

(* No two instances have the same id, and a call that looked its id up and *)
(* let the lock go finds its own instance in the slot afterwards           *)
(* (get_index_from_ptsserver_id and its callers).                          *)
THEOREM OneInstanceEach == ASSUME Serial, Room PROVE Spec => []OneInstance
<1>1. TableInv => OneInstance
  BY OneFollows
<1> QED
  BY <1>1, TableStays, PTL

LEMMA PositionsFollow == ASSUME TableInv PROVE PositionsExact
<1>1. ASSUME NEW c \in Clients, Kind(c) = "v4l", cl[c].st = "open", Mine(c) # Null,
             NEW n \in ToSet(Mine(c).list)
      PROVE  [at |-> n.offset, pts |-> n.pts] \in ToSet(cl[c].frames)
  <2>1. cl[c].id \in Slots /\ Mine(c) = tab[cl[c].id] /\ cl[c].id \in Live
    BY <1>1 DEF Mine, Live
  <2>2. Marks(tab[cl[c].id].list) \subseteq Range(cl[c].frames)
    BY <1>1, <2>1 DEF TableInv, Stream, Streaming
  <2>3. n \in Range(tab[cl[c].id].list)
    BY <1>1, <2>1 DEF ToSet, Range
  <2>4. [at |-> n.offset, pts |-> n.pts] \in Range(cl[c].frames)
    BY <2>2, <2>3 DEF Marks
  <2> QED
    BY <2>4 DEF ToSet, Range
<1> QED
  BY <1>1 DEF PositionsExact

(* Each node carries the position and the time stamp of a frame the user   *)
(* wrote, however the frames were cut into pieces and wherever the offsets *)
(* wrapped (ptsserver_checkin_pts_size, ptsserver_set_first_checkin_offset). *)
THEOREM PositionsCorrect == ASSUME Serial, Room PROVE Spec => []PositionsExact
<1>1. TableInv => PositionsExact
  BY PositionsFollow
<1> QED
  BY <1>1, TableStays, PTL

LEMMA NewestFollows == ASSUME TableInv PROVE NewestKept
<1>1. ASSUME NEW s \in Live, tab[s].nodes > 0, NEW w \in WildIn, w.pts # 0
      PROVE  \E n \in ToSet(CheckinPts(tab[s], w.size, w.pts, w.isOffset).list) :
                 n.pts = w.pts /\ n.index = tab[s].index
  <2>1. w.size \in Offsets /\ w.pts \in Stamps /\ w.isOffset \in BOOLEAN
    BY StreamAssumption DEF Stamps
  <2>2. w.size \in Nat
    BY <2>1, OffsetsAre
  <2>3. InsOK(tab[s])
    BY DEF TableInv, TableType
  <2>4. PICK j : j = CheckinPts(tab[s], w.size, w.pts, w.isOffset)
    OBVIOUS
  <2>5. CheckinOf(tab[s], j, w.size, w.pts, w.isOffset)
    BY <2>1, <2>2, <2>3, <2>4, CheckinPtsIs
  <2>6. PICK n \in Range(j.list) : n.pts = w.pts /\ n.index = tab[s].index
    BY <1>1, <2>3, <2>5 DEF CheckinOf, InsOK
  <2>7. n \in ToSet(j.list)
    BY <2>6 DEF ToSet, Range
  <2> QED
    BY <2>4, <2>6, <2>7
<1> QED
  BY <1>1 DEF NewestKept

(* Whatever is in the lists, the frame checked in next gets a node: a full *)
(* list gives up its oldest nodes first (ptsserver_checkin_pts_size).      *)
THEOREM NewestCorrect == ASSUME Serial, Room PROVE Spec => []NewestKept
<1>1. TableInv => NewestKept
  BY NewestFollows
<1> QED
  BY <1>1, TableStays, PTL
=============================================================================
