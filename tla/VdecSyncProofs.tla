--------------------------- MODULE VdecSyncProofs ---------------------------
(***************************************************************************)
(* Proofs about VdecSync for any number of instances, slots, pictures and  *)
(* buffers and any mix of drivers, as long as the buffers of an instance   *)
(* are released one after the other (Serial).                              *)
(***************************************************************************)
EXTENDS VdecSync, ListsProofs

Timelines == [st : {"none", "live", "freed"}, kref : Nat, value : Nat, pts : Seq(Seqnos),
              active : SUBSET Seqnos]
PtRecords == [ref : Nat, vf : {"none", "shown", "parked"}, fd : BOOLEAN, disp : BOOLEAN, lost : BOOLEAN,
              decoded : BOOLEAN, error : BOOLEAN]
Drivers == [st : {"new", "open", "stopping", "removed", "closed"}, sync : Slots \cup {Null},
            posted : 0 .. MaxSeq, bufs : Nat]

(* The inductive invariant says of an instance with setup c, timeline o,   *)
(* points P, driver d and k decreases under way:                           *)

TypesOK(c, o, P, d, k) == /\ c \in SetupRecords /\ o \in Timelines /\ P \in [Seqnos -> PtRecords]
                          /\ d \in Drivers /\ k \in {0, 1}

\* pt_list holds the points that exist, once
Living(P) == {n \in Seqnos : P[n].ref > 0}
ListOK(o, P) == IsInjective(o.pts) /\ Listed(o) = Living(P)

\* The references of the timeline that are not its points'
Owed(c, d, k) == Num(d.st \in {"open", "stopping"}) + Num(c.v4l /\ d.st # "closed")
                 + Num(~c.v4l /\ (d.bufs > 0 \/ k > 0))
KrefOK(c, o, d, k) ==
    /\ o.st # "none" => o.kref = Owed(c, d, k) + Len(o.pts) /\ (o.st = "freed" <=> o.kref = 0)
    /\ o.st = "none" => /\ o = NoTimeline /\ d.st \in {"new", "closed"} /\ d.sync = Null
                        /\ d.bufs = 0 /\ k = 0
    /\ o.st # "none" => d.st # "new" /\ d.sync # Null
    /\ c.v4l => d.bufs = 0 /\ k = 0
    /\ d.posted # 0 => d.st = "open"
    /\ d.st = "removed" => c.v4l

\* What is known of one point: who refers to it
PointOK(c, p) ==
    /\ c.usage = "driver" => ~p.fd /\ ~p.lost /\ (p.ref = RefsOf(p) \/ DroppedEarly(p))
    /\ c.usage = "app" => ~p.disp /\ p.vf # "parked" /\ p.ref = Num(p.fd) + Num(p.lost) /\ p.ref < 2
    /\ p.ref = 0 => ~p.lost /\ ~p.decoded
    /\ p.ref = 0 /\ p.error => p.disp

\* Has the last sweep been?
Torn(c, d, k) == IF c.v4l THEN d.st = "closed" ELSE d.bufs = 0 /\ k = 0

\* The sweep meets a reference of the display only after a failure, and leaves
\* only the display's
SweepOK(c, P, d, k) ==
    /\ Torn(c, d, k) => \A n \in Living(P) : P[n].vf = "none" /\ P[n].disp
    /\ ~(Torn(c, d, k) /\ d.st # "open") => \A n \in Living(P) : P[n].vf = "none" /\ P[n].disp => P[n].error

\* As long as the driver runs, a point that is not decoded is the posted one
SignalOK(c, o, P, d) ==
    /\ \A n \in o.active : n \in Living(P) /\ n > o.value
    /\ d.st = "open" =>
          /\ \A n \in Living(P) : /\ P[n].lost \/ P[n].decoded \/ n = d.posted
                                  /\ P[n].decoded => n <= o.value \/ \E m \in Seqnos : P[m].lost
          /\ d.posted # 0 /\ P[d.posted].ref > 0 =>
                /\ d.posted > o.value /\ ~P[d.posted].lost /\ ~P[d.posted].decoded
                /\ d.posted = o.value + 1 \/ \E m \in Seqnos : P[m].lost
          /\ d.posted # 0 /\ c.usage = "driver" => P[d.posted].vf # "none"

\* A buffer for every frame that is shown or parked
Using(P) == {n \in Seqnos : P[n].vf # "none"}
BusyOK(c, P, d) == /\ d.st = "new" => Using(P) = {}
                   /\ d.st = "open" /\ ~c.v4l => Cardinality(Using(P)) <= d.bufs

InstOK(c, o, P, d, k) ==
    /\ TypesOK(c, o, P, d, k) /\ ListOK(o, P) /\ KrefOK(c, o, d, k)
    /\ \A n \in Seqnos : PointOK(c, P[n])
    /\ SweepOK(c, P, d, k) /\ SignalOK(c, o, P, d) /\ BusyOK(c, P, d)

\* A slot belongs to the instance whose timeline lives, and counts its buffers
SlotsOK ==
    /\ sync \in [Slots -> [timeline : Insts \cup {Null}, buffer_count : Nat]]
    /\ \A i \in Insts : tl[i].st = "live" => /\ drv[i].sync \in Slots
                                             /\ sync[drv[i].sync].timeline = i
                                             /\ sync[drv[i].sync].buffer_count = drv[i].bufs
    /\ \A s \in Slots : LET i == sync[s].timeline
                        IN  IF i = Null THEN sync[s].buffer_count = 0
                            ELSE tl[i].st = "live" /\ drv[i].sync = s

Inst(i) == InstOK(setup[i], tl[i], pt[i], drv[i], dec[i])

Domains == /\ setup \in [Insts -> SetupRecords] /\ tl \in [Insts -> Timelines]
           /\ pt \in [Insts -> [Seqnos -> PtRecords]] /\ drv \in [Insts -> Drivers]
           /\ dec \in [Insts -> {0, 1}]

Inv == Domains /\ SlotsOK /\ \A i \in Insts : Inst(i)

-----------------------------------------------------------------------------
(* Lemmas about the operators *)

\* Sets of points are finite.
LEMMA Finite == /\ MaxSeq \in Nat \ {0}
                /\ \A S \in SUBSET Seqnos : IsFiniteSet(S) /\ Cardinality(S) \in Nat
<1>1. MaxSeq \in Nat \ {0}
  BY BoundAssumption
<1>2. IsFiniteSet(Seqnos)
  BY <1>1, FS_Interval DEF Seqnos
<1> QED
  BY <1>1, <1>2, FS_Subset, FS_CardinalityType

\* A point after it was put
PutPt(p) == IF p.ref = 1 THEN Gone(p) ELSE [p EXCEPT !.ref = @ - 1]

(* What is left of the timeline o and the points P after those of N were   *)
(* put: o2 and Q.  X references are not the points'.                       *)
AfterPut(o, P, N, X, o2, Q) ==
    /\ o2 \in Timelines /\ Q \in [Seqnos -> PtRecords] /\ ListOK(o2, Q)
    /\ o2.kref = X + Len(o2.pts) /\ o2.st \in {"live", "freed"} /\ (o2.st = "freed" <=> o2.kref = 0)
    /\ o2.value = o.value
    /\ o2.active \in SUBSET o.active /\ \A n \in o.active : Q[n].ref > 0 => n \in o2.active
    /\ \A n \in o2.active : Q[n].ref > 0 \/ P[n].ref = 0
    /\ \A n \in Seqnos : Q[n] = IF n \in N THEN PutPt(P[n]) ELSE P[n]

\* The fields of a point that was put
LEMMA PutPtOK ==
    ASSUME NEW p \in PtRecords, p.ref > 0
    PROVE  /\ PutPt(p) \in PtRecords
           /\ PutPt(p).ref = p.ref - 1 /\ PutPt(p).vf = p.vf /\ PutPt(p).disp = p.disp
           /\ p.ref # 1 => PutPt(p) = [p EXCEPT !.ref = @ - 1]
           /\ p.ref = 1 => /\ ~PutPt(p).fd /\ ~PutPt(p).lost /\ ~PutPt(p).decoded
                           /\ PutPt(p).error <=> p.disp /\ p.error
<1>1. p.ref \in Nat /\ p.vf \in {"none", "shown", "parked"} /\ p.disp \in BOOLEAN /\ p.error \in BOOLEAN
  BY DEF PtRecords
<1>2. (p.disp /\ p.error) \in BOOLEAN
  OBVIOUS
<1>3. CASE p.ref = 1
  <2>1. PICK e \in BOOLEAN : e = (p.disp /\ p.error)
    BY <1>2
  <2>2. PutPt(p) = [NoPt EXCEPT !.vf = p.vf, !.disp = p.disp, !.error = e]
    BY <1>3, <2>1 DEF PutPt, Gone
  <2>3. PutPt(p) = [ref |-> 0, vf |-> p.vf, fd |-> FALSE, disp |-> p.disp, lost |-> FALSE,
                    decoded |-> FALSE, error |-> e]
    BY <2>2 DEF NoPt
  <2>4. /\ PutPt(p).ref = 0 /\ PutPt(p).vf = p.vf /\ PutPt(p).fd = FALSE /\ PutPt(p).disp = p.disp
        /\ PutPt(p).lost = FALSE /\ PutPt(p).decoded = FALSE /\ PutPt(p).error = e
    BY <2>3
  <2>5. PutPt(p) \in PtRecords
    BY <1>1, <2>1, <2>3 DEF PtRecords
  <2>6. PutPt(p).error <=> p.disp /\ p.error
    BY <2>1, <2>4
  <2> QED
    BY <1>3, <2>4, <2>5, <2>6
<1>4. CASE p.ref # 1
  <2>1. PutPt(p) = [p EXCEPT !.ref = @ - 1]
    BY <1>4 DEF PutPt
  <2>2. p.ref - 1 \in Nat
    BY <1>1
  <2> QED
    BY <1>1, <1>4, <2>1, <2>2 DEF PtRecords
<1> QED
  BY <1>3, <1>4

\* dma_fence_put of the points N
LEMMA PutOK ==
    ASSUME NEW o \in Timelines, NEW P \in [Seqnos -> PtRecords], ListOK(o, P),
           NEW N \in SUBSET Living(P), NEW X \in Nat,
           o.st \in {"live", "freed"}, o.kref = X + Len(o.pts), o.st = "freed" => o.kref = 0
    PROVE  AfterPut(o, P, N, X, Released(o, LastRef(P, N)), PutPts(P, N))
<1>1. PICK R : R = LastRef(P, N)
  OBVIOUS
<1>2. PICK Q : Q = PutPts(P, N)
  OBVIOUS
<1>3. PICK w : w = Without(o.pts, R)
  OBVIOUS
<1>4. PICK o2 : o2 = Released(o, R)
  OBVIOUS
<1>5. /\ o.pts \in Seq(Seqnos) /\ o.kref \in Nat /\ o.value \in Nat /\ o.active \in SUBSET Seqnos
      /\ Len(o.pts) \in Nat /\ IsInjective(o.pts) /\ Range(o.pts) = Living(P)
  BY DEF Timelines, ListOK, Listed
<1>6. R \in SUBSET Living(P) /\ R \in SUBSET Seqnos /\ Living(P) \in SUBSET Seqnos
  BY <1>1 DEF LastRef, Living
<1>7. Cardinality(R) \in Nat /\ IsFiniteSet(Living(P)) /\ Cardinality(Living(P)) = Len(o.pts)
  BY <1>5, <1>6, Finite, LengthIsCardinality
<1>8. w \in Seq(Seqnos) /\ Range(w) = Living(P) \ R /\ IsInjective(w)
  BY <1>3, <1>5, WithoutOK, WithoutOnce
<1>9. Len(w) = Len(o.pts) - Cardinality(R) /\ Len(w) \in Nat
  <2>1. Len(w) = Cardinality(Living(P) \ R) /\ Len(w) \in Nat
    <3>1. Cardinality(Range(w)) = Len(w)
      BY <1>8, LengthIsCardinality
    <3> QED
      BY <1>8, <3>1
  <2>2. Living(P) \cap R = R
    BY <1>6
  <2>3. Cardinality(Living(P) \ R) = Cardinality(Living(P)) - Cardinality(R)
    <3>1. Cardinality(Living(P) \ R) = Cardinality(Living(P)) - Cardinality(Living(P) \cap R)
      BY <1>7, FS_Difference
    <3> QED
      BY <2>2, <3>1
  <2> QED
    BY <1>7, <2>1, <2>3
<1>10. o2 = [o EXCEPT !.pts = w, !.active = @ \ R, !.kref = @ - Cardinality(R),
                      !.st = IF o.kref = Cardinality(R) THEN "freed" ELSE @]
  BY <1>3, <1>4 DEF Released, Dropped, Timelines
<1>11. /\ o2.pts = w /\ o2.active = o.active \ R /\ o2.kref = o.kref - Cardinality(R)
       /\ o2.st = (IF o.kref = Cardinality(R) THEN "freed" ELSE o.st) /\ o2.value = o.value
  BY <1>10 DEF Timelines
<1>12. o2.kref = X + Len(o2.pts) /\ o2.kref \in Nat /\ (o2.st = "freed" <=> o2.kref = 0)
       /\ o2.st \in {"live", "freed"}
  <2>1. PICK r \in Nat, l \in Nat, h \in Nat : r = Cardinality(R) /\ l = Len(o.pts) /\ h = Len(w)
    BY <1>5, <1>7, <1>9
  <2>2. h = l - r /\ o.kref = X + l /\ o2.kref = o.kref - r /\ Len(o2.pts) = h
    BY <1>9, <1>11, <2>1
  <2>3. o2.st = IF o.kref = r THEN "freed" ELSE o.st
    BY <1>11, <2>1
  <2>4. o2.kref = X + h /\ o2.kref \in Nat /\ (o2.kref = 0 <=> o.kref = r)
    BY <1>5, <2>2
  <2>5. o.st = "freed" => o.kref = r
    BY <1>5, <2>2
  <2> QED
    BY <2>2, <2>3, <2>4, <2>5
<1>13. o2 \in Timelines
  BY <1>5, <1>8, <1>10, <1>12 DEF Timelines
<1>14. \A n \in Seqnos : Q[n] = IF n \in N THEN PutPt(P[n]) ELSE P[n]
  BY <1>2 DEF PutPts, PutPt
<1>15. \A n \in Seqnos : n \in N => P[n].ref > 0 /\ P[n].ref \in Nat
  BY DEF Living, PtRecords
<1>16. \A n \in Seqnos : Q[n] \in PtRecords
  BY <1>14, <1>15, PutPtOK
<1>17. Q \in [Seqnos -> PtRecords]
  BY <1>2, <1>16 DEF PutPts
<1>18. ASSUME NEW n \in Seqnos PROVE n \in Living(Q) <=> n \in Living(P) \ R
  <2>1. P[n].ref \in Nat /\ (n \in Living(P) <=> P[n].ref > 0) /\ (n \in Living(Q) <=> Q[n].ref > 0)
    BY DEF Living, PtRecords
  <2>2. n \in R <=> n \in N /\ P[n].ref = 1
    BY <1>1 DEF LastRef
  <2>3. n \in N => Q[n].ref = P[n].ref - 1
    BY <1>14, <1>15, PutPtOK
  <2> QED
    BY <1>14, <1>15, <2>1, <2>2, <2>3
<1>19. Living(Q) = Living(P) \ R
  BY <1>6, <1>18 DEF Living
<1>20. ListOK(o2, Q)
  BY <1>8, <1>11, <1>19 DEF ListOK, Listed
<1>21. /\ o2.active \in SUBSET o.active /\ \A n \in o.active : Q[n].ref > 0 => n \in o2.active
       /\ \A n \in o2.active : Q[n].ref > 0 \/ P[n].ref = 0
  <2>1. ASSUME NEW n \in o.active, Q[n].ref > 0 PROVE n \in o2.active
    BY <1>5, <1>11, <1>18, <2>1 DEF Living
  <2>2. ASSUME NEW n \in o2.active PROVE Q[n].ref > 0 \/ P[n].ref = 0
    <3>1. n \in Seqnos /\ n \notin R /\ P[n].ref \in Nat
      BY <1>5, <1>11 DEF PtRecords
    <3>2. n \in Living(P) <=> P[n].ref > 0
      BY <3>1 DEF Living
    <3>3. n \in Living(Q) => Q[n].ref > 0
      BY DEF Living
    <3> QED
      BY <1>18, <3>1, <3>2, <3>3
  <2> QED
    BY <1>11, <2>1, <2>2
<1>22. AfterPut(o, P, N, X, o2, Q)
  BY <1>11, <1>12, <1>13, <1>14, <1>17, <1>20, <1>21 DEF AfterPut
<1> QED
  BY <1>1, <1>2, <1>4, <1>22

-----------------------------------------------------------------------------
(* One instance: what is left after points were put *)

\* The driver's and the buffers' references
LEMMA OwedType ==
    ASSUME NEW c, NEW d, NEW k
    PROVE  Owed(c, d, k) \in Nat
<1>1. \A b : Num(b) \in {0, 1}
  BY DEF Num
<1>2. PICK x \in {0, 1}, y \in {0, 1}, z \in {0, 1} :
         /\ x = Num(d.st \in {"open", "stopping"}) /\ y = Num(c.v4l /\ d.st # "closed")
         /\ z = Num(~c.v4l /\ (d.bufs > 0 \/ k > 0))
  BY <1>1
<1>3. Owed(c, d, k) = x + y + z
  BY <1>2 DEF Owed
<1> QED
  BY <1>3

\* The parts of the invariant that follow whatever was put
LEMMA AfterPutOK ==
    ASSUME NEW c \in SetupRecords, NEW o, NEW P, NEW N, NEW d \in Drivers, NEW k \in {0, 1}, NEW o2, NEW Q,
           AfterPut(o, P, N, Owed(c, d, k), o2, Q),
           d.st # "new", d.sync # Null, c.v4l => d.bufs = 0 /\ k = 0, d.posted # 0 => d.st = "open",
           d.st = "removed" => c.v4l
    PROVE  TypesOK(c, o2, Q, d, k) /\ ListOK(o2, Q) /\ KrefOK(c, o2, d, k)
<1>1. o2 \in Timelines /\ Q \in [Seqnos -> PtRecords] /\ ListOK(o2, Q)
      /\ o2.kref = Owed(c, d, k) + Len(o2.pts) /\ (o2.st = "freed" <=> o2.kref = 0) /\ o2.st # "none"
  BY DEF AfterPut
<1>2. TypesOK(c, o2, Q, d, k)
  BY <1>1 DEF TypesOK
<1>3. KrefOK(c, o2, d, k)
  BY <1>1 DEF KrefOK
<1> QED
  BY <1>1, <1>2, <1>3

\* The fields
LEMMA InstTypes ==
    ASSUME NEW c, NEW o, NEW P, NEW d, NEW k, InstOK(c, o, P, d, k)
    PROVE  /\ c \in SetupRecords /\ c.usage \in {"driver", "app"} /\ c.v4l \in BOOLEAN
           /\ o \in Timelines /\ o.kref \in Nat /\ o.value \in Nat /\ o.pts \in Seq(Seqnos)
           /\ o.active \in SUBSET Seqnos /\ o.st \in {"none", "live", "freed"} /\ Len(o.pts) \in Nat
           /\ P \in [Seqnos -> PtRecords]
           /\ d \in Drivers /\ d.st \in {"new", "open", "stopping", "removed", "closed"}
           /\ d.sync \in Slots \cup {Null} /\ d.posted \in 0 .. MaxSeq /\ d.bufs \in Nat
           /\ k \in {0, 1}
BY DEF InstOK, TypesOK, SetupRecords, Timelines, Drivers

\* The fields of a point
LEMMA PtTypes ==
    ASSUME NEW p \in PtRecords
    PROVE  /\ p.ref \in Nat /\ p.vf \in {"none", "shown", "parked"} /\ p.fd \in BOOLEAN /\ p.disp \in BOOLEAN
           /\ p.lost \in BOOLEAN /\ p.decoded \in BOOLEAN /\ p.error \in BOOLEAN
           /\ [p EXCEPT !.vf = "none"] \in PtRecords /\ [p EXCEPT !.vf = "parked"] \in PtRecords
           /\ [p EXCEPT !.disp = FALSE] \in PtRecords /\ [p EXCEPT !.fd = FALSE] \in PtRecords
           /\ [p EXCEPT !.vf = "none", !.lost = FALSE] \in PtRecords
           /\ [p EXCEPT !.ref = @ + 1, !.disp = TRUE] \in PtRecords
<1>1. /\ p.ref \in Nat /\ p.vf \in {"none", "shown", "parked"} /\ p.fd \in BOOLEAN /\ p.disp \in BOOLEAN
      /\ p.lost \in BOOLEAN /\ p.decoded \in BOOLEAN /\ p.error \in BOOLEAN
  BY DEF PtRecords
<1>2. [p EXCEPT !.vf = "none"] \in PtRecords /\ [p EXCEPT !.vf = "parked"] \in PtRecords
  BY DEF PtRecords
<1>3. [p EXCEPT !.disp = FALSE] \in PtRecords /\ [p EXCEPT !.fd = FALSE] \in PtRecords
  BY DEF PtRecords
<1>4. [p EXCEPT !.vf = "none", !.lost = FALSE] \in PtRecords
  BY DEF PtRecords
<1>5. [p EXCEPT !.ref = @ + 1, !.disp = TRUE] \in PtRecords
  <2>1. p.ref + 1 \in Nat
    BY <1>1
  <2> QED
    BY <2>1 DEF PtRecords
<1> QED
  BY <1>1, <1>2, <1>3, <1>4, <1>5

\* A living timeline's references
LEMMA KrefIs ==
    ASSUME NEW c, NEW o, NEW P, NEW d, NEW k, InstOK(c, o, P, d, k)
    PROVE  /\ d.st \in {"open", "stopping", "removed"} \/ d.bufs > 0 \/ k > 0 \/ Living(P) # {} => o.st # "none"
           /\ o.st # "none" => /\ o.kref = Owed(c, d, k) + Len(o.pts)
                               /\ o.st = "freed" <=> o.kref = 0
           /\ d.st \in {"open", "stopping"} => o.st = "live" /\ Owed(c, d, k) >= 1
           /\ d.st = "removed" /\ c.v4l => o.st = "live" /\ Owed(c, d, k) = 1
           /\ d.bufs > 0 \/ k > 0 => o.st = "live" /\ ~c.v4l /\ Owed(c, d, k) >= 1
           /\ Living(P) # {} => o.st = "live"
<1>1. /\ o \in Timelines /\ o.pts \in Seq(Seqnos) /\ o.kref \in Nat /\ o.st \in {"none", "live", "freed"}
      /\ Len(o.pts) \in Nat /\ c.v4l \in BOOLEAN /\ d.bufs \in Nat /\ k \in {0, 1}
      /\ d.st \in {"new", "open", "stopping", "removed", "closed"}
  BY InstTypes
<1>2. /\ o.st # "none" => o.kref = Owed(c, d, k) + Len(o.pts) /\ (o.st = "freed" <=> o.kref = 0)
      /\ o.st = "none" => o = NoTimeline /\ d.st \in {"new", "closed"} /\ d.bufs = 0 /\ k = 0
      /\ c.v4l => d.bufs = 0 /\ k = 0
  BY DEF InstOK, KrefOK
<1>3. Range(o.pts) = Living(P)
  BY DEF InstOK, ListOK, Listed
<1>4. Owed(c, d, k) \in Nat
  BY OwedType
<1>5. Living(P) # {} => Len(o.pts) > 0 /\ o.st # "none"
  <2> SUFFICES ASSUME Living(P) # {} PROVE Len(o.pts) > 0 /\ o.st # "none"
    OBVIOUS
  <2>1. DOMAIN o.pts # {}
    BY <1>3 DEF Range
  <2>2. Len(o.pts) > 0
    BY <1>1, <2>1
  <2>3. Len(NoTimeline.pts) = 0
    BY DEF NoTimeline
  <2> QED
    BY <1>2, <2>2, <2>3
<1>6. /\ d.st \in {"open", "stopping"} => Owed(c, d, k) >= 1
      /\ d.st = "removed" /\ c.v4l => Owed(c, d, k) = 1
      /\ d.bufs > 0 \/ k > 0 => ~c.v4l /\ Owed(c, d, k) >= 1
  BY <1>1, <1>2 DEF Owed, Num
<1>7. ASSUME o.st # "none", Owed(c, d, k) >= 1 \/ Len(o.pts) > 0 PROVE o.st = "live"
  BY <1>1, <1>2, <1>4, <1>7
<1> QED
  BY <1>1, <1>2, <1>5, <1>6, <1>7

-----------------------------------------------------------------------------
(* One instance: the steps that put no point *)

\* Before the driver is probed there is nothing.
LEMMA NewIs ==
    ASSUME NEW c, NEW o, NEW P, NEW d, NEW k, InstOK(c, o, P, d, k), d.st = "new"
    PROVE  o = NoTimeline /\ d.bufs = 0 /\ k = 0 /\ d.posted = 0 /\ d.sync = Null /\ Living(P) = {} /\ Using(P) = {}
<1>1. o = NoTimeline /\ d.bufs = 0 /\ k = 0 /\ d.posted = 0 /\ d.sync = Null
  BY DEF InstOK, KrefOK
<1>2. Range(NoTimeline.pts) = {}
  BY DEF NoTimeline, Range
<1>3. Living(P) = {}
  BY <1>1, <1>2 DEF InstOK, ListOK, Listed
<1>4. Using(P) = {}
  BY DEF InstOK, BusyOK
<1> QED
  BY <1>1, <1>3, <1>4

\* probe
LEMMA ProbeInst ==
    ASSUME NEW c, NEW o, NEW P, NEW d, NEW k, InstOK(c, o, P, d, k), d.st = "new", NEW s \in Slots
    PROVE  InstOK(c, [o EXCEPT !.st = "live", !.kref = IF c.v4l THEN 2 ELSE 1], P,
                  [d EXCEPT !.st = "open", !.sync = s], k)
<1>1. /\ o = NoTimeline /\ d.bufs = 0 /\ k = 0 /\ d.posted = 0 /\ Living(P) = {} /\ Using(P) = {}
      /\ c \in SetupRecords /\ c.v4l \in BOOLEAN /\ d \in Drivers /\ P \in [Seqnos -> PtRecords]
      /\ o \in Timelines /\ s # Null
  BY NewIs, InstTypes, InstAssumption
<1>2. PICK r \in {1, 2} : r = IF c.v4l THEN 2 ELSE 1
  BY <1>1
<1>3. PICK o2 : o2 = [o EXCEPT !.st = "live", !.kref = r]
  OBVIOUS
<1>4. PICK d2 : d2 = [d EXCEPT !.st = "open", !.sync = s]
  OBVIOUS
<1>5. o2 = [st |-> "live", kref |-> r, value |-> 0, pts |-> <<>>, active |-> {}]
  BY <1>1, <1>3 DEF NoTimeline
<1>6. d2.st = "open" /\ d2.sync = s /\ d2.bufs = 0 /\ d2.posted = 0 /\ d2 \in Drivers
  BY <1>1, <1>4 DEF Drivers
<1>7. TypesOK(c, o2, P, d2, k)
  BY <1>1, <1>2, <1>5, <1>6 DEF TypesOK, Timelines
<1>8. ListOK(o2, P)
  BY <1>1, <1>5 DEF ListOK, Listed, IsInjective, Range
<1>9. Len(o2.pts) = 0 /\ o2.kref = r /\ o2.st = "live" /\ o2.active = {} /\ o2.value = 0
  BY <1>5
<1>10. Owed(c, d2, k) = r
  BY <1>1, <1>2, <1>6 DEF Owed, Num
<1>11. KrefOK(c, o2, d2, k)
  BY <1>1, <1>2, <1>6, <1>9, <1>10 DEF KrefOK
<1>12. SweepOK(c, P, d2, k) /\ SignalOK(c, o2, P, d2)
  BY <1>1, <1>6, <1>9 DEF SweepOK, SignalOK
<1>13. BusyOK(c, P, d2)
  BY <1>1, <1>6, FS_EmptySet DEF BusyOK
<1>14. \A n \in Seqnos : PointOK(c, P[n])
  BY DEF InstOK
<1>15. InstOK(c, o2, P, d2, k)
  BY <1>7, <1>8, <1>11, <1>12, <1>13, <1>14 DEF InstOK
<1> QED
  BY <1>2, <1>3, <1>4, <1>15

\* probe without a slot
LEMMA NoProbeInst ==
    ASSUME NEW c, NEW o, NEW P, NEW d, NEW k, InstOK(c, o, P, d, k), d.st = "new"
    PROVE  InstOK(c, o, P, [d EXCEPT !.st = "closed"], k)
<1>1. /\ o = NoTimeline /\ d.bufs = 0 /\ k = 0 /\ d.posted = 0 /\ d.sync = Null /\ Living(P) = {}
      /\ d \in Drivers
  BY NewIs, InstTypes
<1>2. PICK d2 : d2 = [d EXCEPT !.st = "closed"]
  OBVIOUS
<1>3. d2.st = "closed" /\ d2.sync = Null /\ d2.bufs = 0 /\ d2.posted = 0 /\ d2 \in Drivers
  BY <1>1, <1>2 DEF Drivers
<1>4. o.st = "none" /\ o.active = {}
  BY <1>1 DEF NoTimeline
<1>5. TypesOK(c, o, P, d2, k)
  BY <1>3 DEF InstOK, TypesOK
<1>6. KrefOK(c, o, d2, k)
  BY <1>1, <1>3, <1>4 DEF InstOK, KrefOK
<1>7. SweepOK(c, P, d2, k) /\ SignalOK(c, o, P, d2) /\ BusyOK(c, P, d2)
  BY <1>1, <1>3, <1>4 DEF SweepOK, SignalOK, BusyOK
<1>8. InstOK(c, o, P, d2, k)
  BY <1>5, <1>6, <1>7 DEF InstOK
<1> QED
  BY <1>2, <1>8

\* vdec_fence_buffer_count_increase
LEMMA AllocInst ==
    ASSUME NEW c, NEW o, NEW P, NEW d, NEW k, InstOK(c, o, P, d, k), d.st = "open", ~c.v4l, k = 0,
           NEW o2, o2 = IF d.bufs = 0 THEN [o EXCEPT !.kref = @ + 1] ELSE o
    PROVE  InstOK(c, o2, P, [d EXCEPT !.bufs = @ + 1], k)
<1>1. /\ d \in Drivers /\ d.bufs \in Nat /\ o \in Timelines /\ o.kref \in Nat /\ Len(o.pts) \in Nat
      /\ d.posted \in 0 .. MaxSeq /\ o.st = "live" /\ o.kref = Owed(c, d, k) + Len(o.pts)
      /\ d.sync # Null /\ c \in SetupRecords /\ P \in [Seqnos -> PtRecords]
  BY InstTypes, KrefIs DEF InstOK, KrefOK
<1>2. PICK d2 : d2 = [d EXCEPT !.bufs = @ + 1]
  OBVIOUS
<1>3. /\ d2.st = "open" /\ d2.sync = d.sync /\ d2.bufs = d.bufs + 1 /\ d2.posted = d.posted /\ d2 \in Drivers
      /\ d2.bufs > 0
  BY <1>1, <1>2 DEF Drivers
<1>4. /\ o2 \in Timelines /\ o2.kref = (IF d.bufs = 0 THEN o.kref + 1 ELSE o.kref) /\ o2.pts = o.pts
      /\ o2.st = "live" /\ o2.value = o.value /\ o2.active = o.active
  BY <1>1 DEF Timelines
<1>5. Owed(c, d, k) = (IF d.bufs = 0 THEN 1 ELSE 2) /\ Owed(c, d2, k) = 2
  BY <1>1, <1>3 DEF Owed, Num
<1>6. o2.kref = Owed(c, d2, k) + Len(o2.pts) /\ o2.kref # 0
  BY <1>1, <1>4, <1>5
<1>7. TypesOK(c, o2, P, d2, k) /\ ListOK(o2, P) /\ KrefOK(c, o2, d2, k)
  BY <1>1, <1>3, <1>4, <1>6 DEF InstOK, TypesOK, ListOK, Listed, KrefOK
<1>8. ~Torn(c, d2, k) /\ ~(Torn(c, d, k) /\ d.st # "open")
  BY <1>3 DEF Torn
<1>9. SweepOK(c, P, d2, k)
  BY <1>8 DEF InstOK, SweepOK
<1>10. SignalOK(c, o2, P, d2)
  BY <1>3, <1>4 DEF InstOK, SignalOK
<1>11. BusyOK(c, P, d2)
  <2>1. Using(P) \in SUBSET Seqnos
    BY DEF Using
  <2>2. Cardinality(Using(P)) \in Nat
    BY <2>1, Finite
  <2> QED
    BY <1>1, <1>3, <2>2 DEF InstOK, BusyOK
<1>12. InstOK(c, o2, P, d2, k)
  BY <1>7, <1>9, <1>10, <1>11 DEF InstOK
<1> QED
  BY <1>2, <1>12

\* The first line of vdec_fence_buffer_count_decrease
LEMMA DecCountInst ==
    ASSUME NEW c, NEW o, NEW P, NEW d, NEW k, InstOK(c, o, P, d, k), d.bufs > 0, ~c.v4l, k = 0,
           d.st = "open" => d.bufs > Cardinality(Using(P))
    PROVE  InstOK(c, o, P, [d EXCEPT !.bufs = @ - 1], k + 1)
<1>1. /\ d \in Drivers /\ d.bufs \in Nat /\ o \in Timelines /\ o.kref \in Nat /\ Len(o.pts) \in Nat
      /\ d.posted \in 0 .. MaxSeq /\ o.st = "live" /\ o.kref = Owed(c, d, k) + Len(o.pts)
      /\ c \in SetupRecords /\ P \in [Seqnos -> PtRecords]
  BY InstTypes, KrefIs
<1>2. PICK d2 : d2 = [d EXCEPT !.bufs = @ - 1]
  OBVIOUS
<1>3. /\ d2.st = d.st /\ d2.sync = d.sync /\ d2.bufs = d.bufs - 1 /\ d2.posted = d.posted /\ d2 \in Drivers
  BY <1>1, <1>2 DEF Drivers
<1>4. k + 1 = 1
  OBVIOUS
<1>5. Owed(c, d2, 1) = Owed(c, d, k)
  BY <1>1, <1>3 DEF Owed, Num
<1>6. TypesOK(c, o, P, d2, 1) /\ KrefOK(c, o, d2, 1)
  BY <1>1, <1>3, <1>5 DEF InstOK, TypesOK, KrefOK
<1>7. ~Torn(c, d2, 1) /\ ~Torn(c, d, k)
  BY <1>1 DEF Torn
<1>8. SweepOK(c, P, d2, 1)
  BY <1>7 DEF InstOK, SweepOK
<1>9. SignalOK(c, o, P, d2)
  BY <1>3 DEF InstOK, SignalOK
<1>10. BusyOK(c, P, d2)
  <2>1. Using(P) \in SUBSET Seqnos
    BY DEF Using
  <2>2. Cardinality(Using(P)) \in Nat
    BY <2>1, Finite
  <2> QED
    BY <1>1, <1>3, <2>2 DEF InstOK, BusyOK
<1>11. InstOK(c, o, P, d2, 1)
  BY <1>6, <1>8, <1>9, <1>10 DEF InstOK
<1> QED
  BY <1>2, <1>4, <1>11

\* vdec_fence_buffer_count_decrease, buffers are left
LEMMA DecTailInst ==
    ASSUME NEW c, NEW o, NEW P, NEW d, NEW k, InstOK(c, o, P, d, k), k > 0, d.bufs # 0
    PROVE  InstOK(c, o, P, d, k - 1)
<1>1. /\ d.bufs \in Nat /\ k = 1 /\ ~c.v4l /\ d.bufs > 0
  BY InstTypes, KrefIs
<1>2. Owed(c, d, 0) = Owed(c, d, k)
  BY <1>1 DEF Owed, Num
<1>3. TypesOK(c, o, P, d, 0) /\ KrefOK(c, o, d, 0)
  BY <1>1, <1>2 DEF InstOK, TypesOK, KrefOK
<1>4. ~Torn(c, d, 0) /\ ~Torn(c, d, k)
  BY <1>1 DEF Torn
<1>5. SweepOK(c, P, d, 0)
  BY <1>4 DEF InstOK, SweepOK
<1>6. k - 1 = 0
  BY <1>1
<1> QED
  BY <1>3, <1>5, <1>6 DEF InstOK

\* remove, when no picture is posted
LEMMA StopInst ==
    ASSUME NEW c, NEW o, NEW P, NEW d, NEW k, InstOK(c, o, P, d, k), d.st = "open", d.posted = 0
    PROVE  InstOK(c, o, P, [d EXCEPT !.st = "stopping", !.posted = 0], k)
<1>1. /\ d \in Drivers /\ d.bufs \in Nat /\ o \in Timelines
      /\ d.posted \in 0 .. MaxSeq /\ o.st = "live" /\ o.kref = Owed(c, d, k) + Len(o.pts) /\ d.sync # Null
      /\ MaxSeq \in Nat
  BY InstTypes, KrefIs, Finite DEF InstOK, KrefOK
<1>2. PICK d2 : d2 = [d EXCEPT !.st = "stopping", !.posted = 0]
  OBVIOUS
<1>3. /\ d2.st = "stopping" /\ d2.sync = d.sync /\ d2.bufs = d.bufs /\ d2.posted = 0 /\ d2 \in Drivers
  BY <1>1, <1>2 DEF Drivers
<1>4. Owed(c, d2, k) = Owed(c, d, k)
  BY <1>3 DEF Owed
<1>5. TypesOK(c, o, P, d2, k) /\ KrefOK(c, o, d2, k)
  BY <1>1, <1>3, <1>4 DEF InstOK, TypesOK, KrefOK
<1>6. Torn(c, d2, k) <=> Torn(c, d, k)
  BY <1>3 DEF Torn
<1>7. SweepOK(c, P, d2, k)
  BY <1>6 DEF InstOK, SweepOK
<1>8. SignalOK(c, o, P, d2) /\ BusyOK(c, P, d2)
  BY <1>3 DEF InstOK, SignalOK, BusyOK
<1>9. InstOK(c, o, P, d2, k)
  BY <1>5, <1>7, <1>8 DEF InstOK
<1> QED
  BY <1>2, <1>9

\* A point in active_list: the display waits, or the application polls
LEMMA ActiveInst ==
    ASSUME NEW c, NEW o, NEW P, NEW d, NEW k, InstOK(c, o, P, d, k), NEW n \in Seqnos, P[n].ref > 0,
           n > o.value
    PROVE  InstOK(c, [o EXCEPT !.active = @ \cup {n}], P, d, k)
<1>1. o \in Timelines /\ o.active \in SUBSET Seqnos
  BY InstTypes
<1>2. PICK o2 : o2 = [o EXCEPT !.active = @ \cup {n}]
  OBVIOUS
<1>3. /\ o2 \in Timelines /\ o2.kref = o.kref /\ o2.pts = o.pts /\ o2.st = o.st /\ o2.value = o.value
      /\ o2.active = o.active \cup {n}
  BY <1>1, <1>2 DEF Timelines
<1>4. o.st # "none"
  BY KrefIs DEF Living
<1>5. TypesOK(c, o2, P, d, k) /\ ListOK(o2, P) /\ KrefOK(c, o2, d, k)
  BY <1>3, <1>4 DEF InstOK, TypesOK, ListOK, Listed, KrefOK
<1>6. SignalOK(c, o2, P, d)
  <2>1. \A m \in o2.active : m \in Living(P) /\ m > o2.value
    BY <1>3 DEF InstOK, SignalOK, Living
  <2> QED
    BY <1>3, <2>1 DEF InstOK, SignalOK
<1>7. InstOK(c, o2, P, d, k)
  BY <1>5, <1>6 DEF InstOK
<1> QED
  BY <1>2, <1>7

\* dma_fence_get by the display
LEMMA TakeInst ==
    ASSUME NEW c, NEW o, NEW P, NEW d, NEW k, InstOK(c, o, P, d, k), NEW n \in Seqnos,
           c.usage = "driver", P[n].vf = "shown", P[n].ref > 0, ~P[n].disp
    PROVE  InstOK(c, o, [P EXCEPT ![n].ref = @ + 1, ![n].disp = TRUE], d, k)
<1>1. P \in [Seqnos -> PtRecords] /\ P[n] \in PtRecords /\ P[n].ref \in Nat /\ P[n].disp \in BOOLEAN
  BY InstTypes, PtTypes
<1>2. PICK q : q = [P[n] EXCEPT !.ref = @ + 1, !.disp = TRUE]
  OBVIOUS
<1>3. /\ q \in PtRecords /\ q.ref = P[n].ref + 1 /\ q.disp = TRUE /\ q.vf = "shown" /\ q.fd = P[n].fd
      /\ q.lost = P[n].lost /\ q.decoded = P[n].decoded /\ q.error = P[n].error
  BY <1>1, <1>2, PtTypes, ZenonT(30) DEF PtRecords
<1>4. PICK Q : Q = [P EXCEPT ![n] = q]
  OBVIOUS
<1>5. /\ Q \in [Seqnos -> PtRecords] /\ Q[n] = q /\ \A m \in Seqnos : m # n => Q[m] = P[m]
  BY <1>1, <1>3, <1>4
<1>6. Living(Q) = Living(P) /\ Using(Q) = Using(P)
  BY <1>1, <1>3, <1>5 DEF Living, Using
<1>7. \A m \in Seqnos : PointOK(c, Q[m])
  <2>1. P[n].ref = 1 /\ PointOK(c, P[n])
    BY <1>1 DEF InstOK, PointOK, RefsOf, DroppedEarly, Num
  <2>2. q.ref = RefsOf(q)
    BY <1>3, <2>1 DEF RefsOf, Num
  <2>3. PointOK(c, q)
    BY <1>3, <2>1, <2>2 DEF PointOK
  <2> QED
    BY <1>5, <2>3 DEF InstOK
<1>8. TypesOK(c, o, Q, d, k) /\ ListOK(o, Q) /\ BusyOK(c, Q, d)
  BY <1>5, <1>6 DEF InstOK, TypesOK, ListOK, BusyOK
<1>9. SweepOK(c, Q, d, k)
  <2>1. ~Torn(c, d, k)
    BY DEF InstOK, SweepOK, Living
  <2>2. ASSUME NEW m \in Living(Q), Q[m].vf = "none", Q[m].disp PROVE Q[m].error
    BY <1>3, <1>5, <1>6, <2>1, <2>2 DEF InstOK, SweepOK, Living
  <2> QED
    BY <2>1, <2>2 DEF SweepOK
<1>10. SignalOK(c, o, Q, d)
  <2>1. \A m \in Seqnos : /\ Q[m].lost = P[m].lost /\ Q[m].decoded = P[m].decoded
                          /\ (Q[m].ref > 0 <=> P[m].ref > 0) /\ Q[m].vf = P[m].vf
    BY <1>1, <1>3, <1>5
  <2>2. d.posted # 0 => d.posted \in Seqnos
    BY InstTypes, Finite DEF Seqnos
  <2>3. SignalOK(c, o, P, d)
    BY DEF InstOK
  <2>4. Living(Q) \in SUBSET Seqnos
    BY DEF Living
  <2>5. (\E m \in Seqnos : Q[m].lost) <=> (\E m \in Seqnos : P[m].lost)
    BY <2>1
  <2> QED
    BY <1>6, <2>1, <2>2, <2>3, <2>4, <2>5 DEF SignalOK
<1>11. InstOK(c, o, Q, d, k)
  BY <1>7, <1>8, <1>9, <1>10 DEF InstOK
<1>12. Q = [P EXCEPT ![n].ref = @ + 1, ![n].disp = TRUE]
  BY <1>1, <1>2, <1>4
<1> QED
  BY <1>11, <1>12

\* The next seqno: all that is in front of it is decoded, or a point was lost.
LEMMA NextSeqnoOK ==
    ASSUME NEW c, NEW o, NEW P, NEW d, NEW k, InstOK(c, o, P, d, k), d.st = "open", d.posted = 0
    PROVE  /\ NextSeqno(o) \in Nat /\ NextSeqno(o) > o.value
           /\ NextSeqno(o) = o.value + 1 \/ \E m \in Seqnos : P[m].lost
<1>1. o.value \in Nat /\ o.pts \in Seq(Seqnos) /\ MaxSeq \in Nat /\ Seqnos \in SUBSET Nat /\ Len(o.pts) \in Nat
  BY InstTypes, Finite DEF Seqnos
<1>2. CASE o.pts = <<>>
  BY <1>1, <1>2 DEF NextSeqno
<1>3. CASE o.pts # <<>>
  <2>1. PICK l : l = o.pts[Len(o.pts)]
    OBVIOUS
  <2>2. Len(o.pts) \in DOMAIN o.pts /\ l \in Seqnos
    BY <1>1, <1>3, <2>1
  <2>3. l \in Living(P) /\ l \in Nat
    BY <1>1, <2>1, <2>2 DEF InstOK, ListOK, Listed, Range
  <2>4. NextSeqno(o) = IF o.value + 1 <= l THEN l + 1 ELSE o.value + 1
    BY <1>3, <2>1 DEF NextSeqno
  <2>5. P[l].lost \/ l <= o.value \/ \E m \in Seqnos : P[m].lost
    <3>1. l # d.posted
      BY <2>2, Finite DEF Seqnos
    <3> QED
      BY <2>3, <3>1 DEF InstOK, SignalOK
  <2> QED
    BY <1>1, <2>2, <2>3, <2>4, <2>5
<1> QED
  BY <1>2, <1>3

\* A new point q, posted or forgotten
LEMMA PostInst ==
    ASSUME NEW c, NEW o, NEW P, NEW d, NEW k, InstOK(c, o, P, d, k), d.st = "open", d.posted = 0,
           NEW n \in Seqnos, n = NextSeqno(o), P[n] = NoPt, c.v4l \/ d.bufs > Cardinality(Using(P)),
           NEW q \in PtRecords, q.ref = 1, ~q.decoded, ~q.disp, PointOK(c, q),
           NEW x, \/ x = n /\ q.vf = "shown" /\ ~q.lost
                  \/ x = 0 /\ q.vf = "none" /\ q.lost
    PROVE  InstOK(c, WithPt(o, n), [P EXCEPT ![n] = q], [d EXCEPT !.posted = x], k)
<1>1. /\ d \in Drivers /\ d.bufs \in Nat /\ o \in Timelines /\ o.kref \in Nat /\ Len(o.pts) \in Nat
      /\ o.st = "live" /\ o.kref = Owed(c, d, k) + Len(o.pts) /\ o.active \in SUBSET Seqnos
      /\ d.sync # Null /\ c \in SetupRecords /\ P \in [Seqnos -> PtRecords] /\ o.pts \in Seq(Seqnos)
      /\ o.value \in Nat /\ c.v4l \in BOOLEAN
  BY InstTypes, KrefIs DEF InstOK, KrefOK
<1>2. MaxSeq \in Nat /\ n \in Nat /\ n # 0 /\ n <= MaxSeq
  BY Finite DEF Seqnos
<1>3. n > o.value /\ (n = o.value + 1 \/ \E m \in Seqnos : P[m].lost)
  BY NextSeqnoOK
<1>4. PICK o2 : o2 = WithPt(o, n)
  OBVIOUS
<1>5. PICK Q : Q = [P EXCEPT ![n] = q]
  OBVIOUS
<1>6. PICK d2 : d2 = [d EXCEPT !.posted = x]
  OBVIOUS
<1>7. /\ d2.st = "open" /\ d2.sync = d.sync /\ d2.bufs = d.bufs /\ d2.posted = x /\ d2 \in Drivers
  <2>1. x \in 0 .. MaxSeq
    BY <1>2
  <2> QED
    BY <1>1, <1>6, <2>1 DEF Drivers
<1>8. /\ Q \in [Seqnos -> PtRecords] /\ Q[n] = q /\ \A m \in Seqnos : m # n => Q[m] = P[m]
  BY <1>1, <1>5
<1>9. P[n].ref = 0 /\ P[n].vf = "none" /\ ~P[n].lost /\ ~P[n].decoded
  BY DEF NoPt
<1>10. Living(Q) = Living(P) \cup {n} /\ n \notin Living(P) /\ n \notin Using(P)
       /\ Using(Q) = IF x = n THEN Using(P) \cup {n} ELSE Using(P)
  <2>1. n \notin Living(P) /\ n \notin Using(P)
    BY <1>9 DEF Living, Using
  <2>2. \A m : m \in Living(Q) <=> m \in Living(P) \/ m = n
    BY <1>8 DEF Living
  <2>3. x = n <=> q.vf # "none"
    BY <1>2
  <2>4. \A m : m \in Using(Q) <=> m \in Using(P) \/ (x = n /\ m = n)
    BY <1>8, <1>9, <2>3 DEF Using
  <2> QED
    BY <2>1, <2>2, <2>4
<1>11. /\ Append(o.pts, n) \in Seq(Seqnos) /\ Range(Append(o.pts, n)) = Range(o.pts) \cup {n}
       /\ IsInjective(Append(o.pts, n)) /\ Len(Append(o.pts, n)) = Len(o.pts) + 1
  <2>1. Range(o.pts) = Living(P) /\ IsInjective(o.pts)
    BY DEF InstOK, ListOK, Listed
  <2> QED
    BY <1>1, <1>10, <2>1, AppendRange, AppendOnce
<1>12. /\ o2 \in Timelines /\ o2.kref = o.kref + 1 /\ o2.pts = Append(o.pts, n) /\ o2.st = "live"
       /\ o2.value = o.value /\ o2.active = o.active
  <2>1. PICK w \in Seq(Seqnos) : w = Append(o.pts, n)
    BY <1>11
  <2>2. o2 = [o EXCEPT !.kref = @ + 1, !.pts = w]
    BY <1>4, <2>1 DEF WithPt
  <2>3. o.kref + 1 \in Nat
    BY <1>1
  <2>4. /\ o2 \in Timelines /\ o2.kref = o.kref + 1 /\ o2.pts = w /\ o2.st = o.st
        /\ o2.value = o.value /\ o2.active = o.active
    BY <1>1, <2>2, <2>3 DEF Timelines
  <2> QED
    BY <1>1, <2>1, <2>4
<1>13. TypesOK(c, o2, Q, d2, k) /\ ListOK(o2, Q)
  BY <1>7, <1>8, <1>10, <1>11, <1>12 DEF InstOK, TypesOK, ListOK, Listed
<1>14. KrefOK(c, o2, d2, k)
  <2>1. Owed(c, d2, k) = Owed(c, d, k) /\ Owed(c, d, k) \in Nat
    BY <1>7, OwedType DEF Owed
  <2>2. o2.kref = Owed(c, d2, k) + Len(o2.pts) /\ o2.kref # 0
    <3>1. Len(o2.pts) = Len(o.pts) + 1 /\ o2.kref = o.kref + 1
      BY <1>11, <1>12
    <3> QED
      BY <1>1, <2>1, <3>1, SMTT(30)
  <2> QED
    BY <1>1, <1>7, <1>12, <2>2 DEF InstOK, KrefOK
<1>15. \A m \in Seqnos : PointOK(c, Q[m])
  BY <1>8 DEF InstOK
<1>16. Cardinality(Using(P)) \in Nat /\ IsFiniteSet(Using(P))
  BY Finite DEF Using
<1>17. SweepOK(c, Q, d2, k)
  <2>1. ~Torn(c, d2, k) /\ ~Torn(c, d, k)
    BY <1>1, <1>7, <1>16 DEF Torn
  <2>2. \A m \in Living(Q) : Q[m].vf = "none" /\ Q[m].disp => Q[m].error
    BY <1>8, <1>10, <2>1 DEF InstOK, SweepOK, Living
  <2> QED
    BY <2>1, <2>2 DEF SweepOK
<1>18. SignalOK(c, o2, Q, d2)
  <2>1. SignalOK(c, o, P, d)
    BY DEF InstOK
  <2>2. \A m \in Seqnos : P[m].lost => Q[m].lost
    BY <1>8, <1>9
  <2>3. (\E m \in Seqnos : P[m].lost) => (\E m \in Seqnos : Q[m].lost)
    BY <2>2
  <2>4. \A m \in o2.active : m \in Living(Q) /\ m > o2.value
    BY <1>10, <1>12, <2>1 DEF SignalOK
  <2>5. ASSUME NEW m \in Living(Q)
        PROVE  /\ Q[m].lost \/ Q[m].decoded \/ m = d2.posted
               /\ Q[m].decoded => m <= o2.value \/ \E h \in Seqnos : Q[h].lost
    <3>1. CASE m = n
      BY <1>7, <1>8, <3>1
    <3>2. CASE m # n
      <4>1. m \in Living(P) /\ Q[m] = P[m] /\ m \in Seqnos /\ m # 0
        BY <1>8, <1>10, <3>2, Finite DEF Living, Seqnos
      <4>2. P[m].lost \/ P[m].decoded
        BY <2>1, <4>1 DEF SignalOK
      <4>3. P[m].decoded => m <= o.value \/ \E h \in Seqnos : P[h].lost
        BY <2>1, <4>1 DEF SignalOK
      <4> QED
        BY <1>12, <2>3, <4>1, <4>2, <4>3
    <3> QED
      BY <3>1, <3>2
  <2>6. d2.posted # 0 => d2.posted = n /\ ~q.lost /\ q.vf = "shown"
    BY <1>7
  <2> QED
    BY <1>3, <1>7, <1>8, <1>12, <2>3, <2>4, <2>5, <2>6 DEF SignalOK
<1>19. BusyOK(c, Q, d2)
  <2>1. Cardinality(Using(P) \cup {n}) = Cardinality(Using(P)) + 1
    BY <1>10, <1>16, FS_AddElement
  <2> QED
    BY <1>1, <1>7, <1>10, <1>16, <2>1 DEF BusyOK
<1>20. InstOK(c, o2, Q, d2, k)
  BY <1>13, <1>14, <1>15, <1>17, <1>18, <1>19 DEF InstOK
<1> QED
  BY <1>4, <1>5, <1>6, <1>20

-----------------------------------------------------------------------------
(* One instance: the steps that put points *)

\* Fewer frames need no more buffers.
LEMMA FewerBusy ==
    ASSUME NEW c, NEW P, NEW d, BusyOK(c, P, d), NEW Q, NEW d2, d.bufs \in Nat, d2.bufs = d.bufs,
           d2.st = "open" => d.st = "open", d2.st # "new", Using(Q) \in SUBSET Using(P)
    PROVE  BusyOK(c, Q, d2)
<1>1. Using(P) \in SUBSET Seqnos /\ IsFiniteSet(Using(P)) /\ Cardinality(Using(P)) \in Nat
  BY Finite DEF Using
<1>2. Cardinality(Using(Q)) <= Cardinality(Using(P)) /\ Cardinality(Using(Q)) \in Nat
  BY <1>1, FS_Subset, FS_CardinalityType
<1> QED
  BY <1>1, <1>2 DEF BusyOK

\* sync_timeline_put, once, and what was signalled leaves active_list
LEMMA DroppedOK ==
    ASSUME NEW o \in Timelines, o.kref > 0, o.st = "live", NEW j \in Nat
    PROVE  /\ Dropped(o, 1) \in Timelines /\ Dropped(o, 1).kref = o.kref - 1 /\ Dropped(o, 1).pts = o.pts
           /\ Dropped(o, 1).value = o.value /\ Dropped(o, 1).active = o.active
           /\ Dropped(o, 1).st = IF o.kref = 1 THEN "freed" ELSE "live"
           /\ Increased(o, j) \in Timelines /\ Increased(o, j).kref = o.kref /\ Increased(o, j).pts = o.pts
           /\ Increased(o, j).value = o.value + j /\ Increased(o, j).st = "live"
           /\ Increased(o, j).active = {n \in o.active : n > o.value + j}
<1>1. o.kref \in Nat /\ o.value \in Nat /\ o.active \in SUBSET Seqnos /\ MaxSeq \in Nat /\ Seqnos \in SUBSET Nat
  BY Finite DEF Timelines, Seqnos
<1>2. o.kref - 1 \in Nat /\ o.value + j \in Nat
  BY <1>1
<1>3. /\ Dropped(o, 1) \in Timelines /\ Dropped(o, 1).kref = o.kref - 1 /\ Dropped(o, 1).pts = o.pts
      /\ Dropped(o, 1).value = o.value /\ Dropped(o, 1).active = o.active
      /\ Dropped(o, 1).st = IF o.kref = 1 THEN "freed" ELSE "live"
  BY <1>2 DEF Dropped, Timelines
<1>4. PICK o1 : o1 = [o EXCEPT !.value = @ + j]
  OBVIOUS
<1>5. o1 \in Timelines /\ o1.value = o.value + j /\ o1.active = o.active /\ o1.kref = o.kref /\ o1.pts = o.pts
      /\ o1.st = o.st
  BY <1>2, <1>4 DEF Timelines
<1>6. PICK S : S = {n \in o.active : n > o.value + j}
  OBVIOUS
<1>7. {n \in o1.active : ~Signaled(o1, n)} = S
  <2>1. \A n \in o.active : ~(n <= o.value + j) <=> n > o.value + j
    BY <1>1, <1>2
  <2>2. \A n : Signaled(o1, n) <=> n <= o.value + j
    BY <1>5 DEF Signaled
  <2> QED
    BY <1>5, <1>6, <2>1, <2>2
<1>8. Increased(o, j) = [o1 EXCEPT !.active = S]
  BY <1>4, <1>7 DEF Increased
<1>9. S \in SUBSET Seqnos
  BY <1>1, <1>6
<1>10. Increased(o, j) \in Timelines /\ Increased(o, j).active = S /\ Increased(o, j).value = o.value + j
       /\ Increased(o, j).kref = o.kref /\ Increased(o, j).pts = o.pts /\ Increased(o, j).st = "live"
  BY <1>5, <1>8, <1>9 DEF Timelines
<1> QED
  BY <1>3, <1>6, <1>10

\* vdec_fence_release
LEMMA ReleaseInst ==
    ASSUME NEW c, NEW o, NEW P, NEW d, NEW k, InstOK(c, o, P, d, k), d.st = "stopping",
           NEW o1, o1 = Dropped(Increased(o, MaxSeq), 1),
           NEW d2 \in Drivers, d2.st = IF c.v4l THEN "removed" ELSE "closed",
           d2.sync = d.sync, d2.bufs = d.bufs, d2.posted = d.posted
    PROVE  InstOK(c, Released(o1, LastRef(P, {})), PutPts(P, {}), d2, k)
<1>1. /\ d \in Drivers /\ d.bufs \in Nat /\ o \in Timelines /\ o.kref \in Nat /\ Len(o.pts) \in Nat
      /\ o.st = "live" /\ o.kref = Owed(c, d, k) + Len(o.pts) /\ o.active \in SUBSET Seqnos /\ o.kref # 0
      /\ d.sync # Null /\ c \in SetupRecords /\ P \in [Seqnos -> PtRecords] /\ d.posted = 0
      /\ c.v4l \in BOOLEAN /\ k \in {0, 1} /\ MaxSeq \in Nat /\ (c.v4l => d.bufs = 0 /\ k = 0)
  BY InstTypes, KrefIs, Finite DEF InstOK, KrefOK
<1>2. /\ o1 \in Timelines /\ o1.kref = o.kref - 1 /\ o1.pts = o.pts
      /\ o1.st = (IF o.kref = 1 THEN "freed" ELSE "live")
      /\ o1.active = {n \in o.active : n > o.value + MaxSeq} /\ o1.value = o.value + MaxSeq
  <2>1. PICK oo : oo = Increased(o, MaxSeq)
    OBVIOUS
  <2>2. /\ oo \in Timelines /\ oo.kref = o.kref /\ oo.pts = o.pts /\ oo.st = "live"
        /\ oo.value = o.value + MaxSeq /\ oo.active = {n \in o.active : n > o.value + MaxSeq}
    BY <1>1, <2>1, DroppedOK
  <2> QED
    BY <1>1, <2>1, <2>2, DroppedOK
<1>3. d2.st \in {"removed", "closed"} /\ d2.sync = d.sync /\ d2.bufs = d.bufs /\ d2.posted = d.posted /\ d2 \in Drivers
      /\ (c.v4l <=> d2.st = "removed")
  BY <1>1
<1>4. Owed(c, d2, k) = Owed(c, d, k) - 1 /\ Owed(c, d2, k) \in Nat
  <2>1. Owed(c, d2, k) = Owed(c, d, k) - 1
    BY <1>1, <1>3 DEF Owed, Num
  <2>2. Owed(c, d2, k) \in Nat
    BY OwedType
  <2> QED
    BY <2>1, <2>2
<1>5. ListOK(o1, P) /\ {} \in SUBSET Living(P)
  BY <1>2 DEF InstOK, ListOK, Listed
<1>6. o1.kref = Owed(c, d2, k) + Len(o1.pts) /\ (o1.st = "freed" => o1.kref = 0) /\ o1.st \in {"live", "freed"}
  <2>1. PICK x \in Nat, y \in Nat, l \in Nat, r \in Nat :
           x = Owed(c, d, k) /\ y = Owed(c, d2, k) /\ l = Len(o.pts) /\ r = o.kref
    BY <1>1, <1>4, OwedType
  <2>2. y = x - 1 /\ r = x + l /\ o1.kref = r - 1 /\ Len(o1.pts) = l
    BY <1>1, <1>2, <1>4, <2>1
  <2>3. o1.kref = y + Len(o1.pts)
    BY <2>2
  <2>4. r = 1 => o1.kref = 0
    BY <2>2
  <2> QED
    BY <1>2, <2>1, <2>3, <2>4
<1>7. PICK o2, Q : o2 = Released(o1, LastRef(P, {})) /\ Q = PutPts(P, {})
  OBVIOUS
<1>8. AfterPut(o1, P, {}, Owed(c, d2, k), o2, Q)
  BY <1>1, <1>2, <1>4, <1>5, <1>6, <1>7, PutOK
<1>9. TypesOK(c, o2, Q, d2, k) /\ ListOK(o2, Q) /\ KrefOK(c, o2, d2, k)
  <2>1. /\ d2.st # "new" /\ d2.sync # Null /\ (c.v4l => d2.bufs = 0 /\ k = 0)
        /\ (d2.posted # 0 => d2.st = "open") /\ d2 \in Drivers /\ c \in SetupRecords /\ k \in {0, 1}
    BY <1>1, <1>3
  <2> QED
    BY <1>8, <2>1, AfterPutOK
<1>10. Q = P
  BY <1>1, <1>8 DEF AfterPut
<1>11. SweepOK(c, Q, d2, k)
  BY <1>1, <1>3, <1>10 DEF InstOK, SweepOK, Torn
<1>12. SignalOK(c, o2, Q, d2)
  <2>1. o2.active \in SUBSET o1.active /\ o2.value = o1.value
    BY <1>8 DEF AfterPut
  <2> QED
    BY <1>2, <1>3, <1>10, <2>1 DEF InstOK, SignalOK
<1>13. BusyOK(c, Q, d2)
  BY <1>3, <1>10 DEF BusyOK
<1>14. InstOK(c, o2, Q, d2, k)
  BY <1>9, <1>10, <1>11, <1>12, <1>13 DEF InstOK
<1> QED
  BY <1>7, <1>14

\* Points are put, and the driver keeps its references.
LEMMA KeptInst ==
    ASSUME NEW c, NEW o, NEW P, NEW d, NEW k, InstOK(c, o, P, d, k), o.st = "live",
           NEW o1 \in Timelines, o1.kref = o.kref, o1.pts = o.pts, o1.st = "live",
           NEW P1 \in [Seqnos -> PtRecords], Living(P1) = Living(P), NEW N \in SUBSET Living(P),
           NEW d2 \in Drivers, d2.sync = d.sync, d2.bufs = d.bufs, d2.st # "new",
           d2.posted # 0 => d2.st = "open", d2.st = "removed" => d.st = "removed",
           Owed(c, d2, k) = Owed(c, d, k),
           NEW o2, NEW Q, o2 = Released(o1, LastRef(P1, N)), Q = PutPts(P1, N)
    PROVE  /\ AfterPut(o1, P1, N, Owed(c, d2, k), o2, Q)
           /\ TypesOK(c, o2, Q, d2, k) /\ ListOK(o2, Q) /\ KrefOK(c, o2, d2, k)
<1>1. /\ o.kref = Owed(c, d, k) + Len(o.pts) /\ (o.st = "freed" <=> o.kref = 0) /\ d.sync # Null
      /\ c \in SetupRecords /\ k \in {0, 1} /\ (c.v4l => d.bufs = 0 /\ k = 0)
      /\ (d.st = "removed" => c.v4l)
  BY InstTypes, KrefIs DEF InstOK, KrefOK
<1>2. Owed(c, d2, k) \in Nat
  BY OwedType
<1>3. ListOK(o1, P1)
  BY DEF InstOK, ListOK, Listed
<1>4. AfterPut(o1, P1, N, Owed(c, d2, k), Released(o1, LastRef(P1, N)), PutPts(P1, N))
  BY <1>1, <1>2, <1>3, PutOK
<1>5. AfterPut(o1, P1, N, Owed(c, d2, k), o2, Q)
  BY <1>4
<1>6. d2.sync # Null /\ (c.v4l => d2.bufs = 0 /\ k = 0) /\ (d2.st = "removed" => c.v4l)
  BY <1>1
<1>7. TypesOK(c, o2, Q, d2, k) /\ ListOK(o2, Q) /\ KrefOK(c, o2, d2, k)
  BY <1>1, <1>5, <1>6, AfterPutOK
<1> QED
  BY <1>5, <1>7

\* One point is put; its holder's field was cleared, so P1 for P.
\* active_list and the other points
LEMMA ActiveAfter ==
    ASSUME NEW o, NEW P, NEW N, NEW X, NEW o2, NEW Q, AfterPut(o, P, N, X, o2, Q),
           o.active \in SUBSET Seqnos, \A n \in o.active : n \in Living(P) /\ n > o.value
    PROVE  \A n \in o2.active : n \in Living(Q) /\ n > o2.value
BY DEF AfterPut, Living

\* The display drops its reference.
LEMMA DropInst ==
    ASSUME NEW c, NEW o, NEW P, NEW d, NEW k, InstOK(c, o, P, d, k), NEW n \in Seqnos,
           P[n].disp, P[n].ref > 0
    PROVE  LET P1 == [P EXCEPT ![n].disp = FALSE]
           IN  InstOK(c, Released(o, LastRef(P1, {n})), PutPts(P1, {n}), d, k)
<1>1. P \in [Seqnos -> PtRecords] /\ P[n] \in PtRecords /\ o \in Timelines /\ d \in Drivers /\ n \in Living(P)
      /\ d.st # "new" /\ (d.posted # 0 => d.st = "open") /\ o.active \in SUBSET Seqnos /\ d.bufs \in Nat
      /\ o.st = "live"
  BY InstTypes, KrefIs DEF Living, InstOK, KrefOK
<1>2. PICK q : q = [P[n] EXCEPT !.disp = FALSE]
  OBVIOUS
<1>3. /\ q \in PtRecords /\ q.ref = P[n].ref /\ q.disp = FALSE /\ q.vf = P[n].vf /\ q.fd = P[n].fd
      /\ q.lost = P[n].lost /\ q.decoded = P[n].decoded /\ q.error = P[n].error /\ q.ref \in Nat
  BY <1>1, <1>2, PtTypes, ZenonT(30) DEF PtRecords
<1>4. PICK P1 : P1 = [P EXCEPT ![n].disp = FALSE]
  OBVIOUS
<1>5. P1 \in [Seqnos -> PtRecords] /\ P1[n] = q /\ \A m \in Seqnos : m # n => P1[m] = P[m]
  BY <1>1, <1>2, <1>3, <1>4
<1>6. Living(P1) = Living(P) /\ {n} \in SUBSET Living(P)
  BY <1>1, <1>3, <1>5 DEF Living
<1>7. PICK o2, Q : o2 = Released(o, LastRef(P1, {n})) /\ Q = PutPts(P1, {n})
  OBVIOUS
<1>8. /\ AfterPut(o, P1, {n}, Owed(c, d, k), o2, Q)
      /\ TypesOK(c, o2, Q, d, k) /\ ListOK(o2, Q) /\ KrefOK(c, o2, d, k)
  BY <1>1, <1>5, <1>6, <1>7, KeptInst
<1>9. Q[n] = PutPt(q) /\ (\A m \in Seqnos : m # n => Q[m] = P[m]) /\ o2.value = o.value
  BY <1>5, <1>8 DEF AfterPut
<1>10. /\ Q[n].ref = q.ref - 1 /\ Q[n].vf = q.vf /\ Q[n].disp = FALSE
       /\ q.ref # 1 => Q[n] = [q EXCEPT !.ref = @ - 1]
       /\ q.ref = 1 => ~Q[n].fd /\ ~Q[n].lost /\ ~Q[n].decoded /\ ~Q[n].error
  BY <1>3, <1>9, PutPtOK
<1>11. /\ c.usage = "driver" /\ ~q.fd /\ ~q.lost /\ q.ref \in {1, 2} /\ (q.ref = 2 <=> q.vf # "none")
       /\ (\A m \in Seqnos : PointOK(c, P[m])) /\ c.usage \in {"driver", "app"}
  <2>1. PointOK(c, P[n]) /\ c.usage \in {"driver", "app"}
    BY InstTypes DEF InstOK
  <2>2. c.usage = "driver" /\ ~P[n].fd /\ ~P[n].lost /\ P[n].ref = RefsOf(P[n])
    BY <1>3, <2>1 DEF PointOK, DroppedEarly
  <2> QED
    BY <1>3, <2>1, <2>2 DEF InstOK, RefsOf, Num
<1>12. Q[n].lost = FALSE /\ ~Q[n].fd /\ (q.ref = 2 => Q[n].decoded = q.decoded /\ Q[n].error = q.error)
  <2>1. Q[n] \in PtRecords
    BY <1>8 DEF TypesOK
  <2>2. Q[n].lost \in BOOLEAN /\ q.lost \in BOOLEAN
    BY <1>3, <2>1, PtTypes
  <2>3. q.ref = 2 => Q[n].lost = q.lost /\ Q[n].fd = q.fd /\ Q[n].decoded = q.decoded /\ Q[n].error = q.error
    BY <1>3, <1>10 DEF PtRecords
  <2> QED
    BY <1>10, <1>11, <2>2, <2>3
<1>13. PointOK(c, Q[n])
  <2>1. Q[n].ref = RefsOf(Q[n])
    BY <1>10, <1>11 DEF RefsOf, Num
  <2> QED
    BY <1>10, <1>11, <1>12, <2>1 DEF PointOK
<1>14. \A m \in Seqnos : PointOK(c, Q[m])
  BY <1>9, <1>11, <1>13
<1>15. SweepOK(c, Q, d, k)
  <2>1. SweepOK(c, P, d, k)
    BY DEF InstOK
  <2>2. \A m \in Living(Q) : m \in Living(P) /\ (m # n => Q[m] = P[m])
    BY <1>1, <1>9 DEF Living
  <2>3. n \in Living(Q) => P[n].vf # "none" /\ Q[n].vf # "none"
    BY <1>3, <1>10, <1>11 DEF Living
  <2> QED
    BY <1>1, <2>1, <2>2, <2>3 DEF SweepOK
<1>16. SignalOK(c, o2, Q, d)
  <2>1. SignalOK(c, o, P, d)
    BY DEF InstOK
  <2>2. \A m \in o2.active : m \in Living(Q) /\ m > o2.value
    BY <1>1, <1>6, <1>8, <2>1, ActiveAfter DEF SignalOK
  <2>3. \A m \in Seqnos : ~Q[m].lost /\ ~P[m].lost
    BY <1>3, <1>9, <1>11, <1>12 DEF PointOK
  <2>4. \A m \in Seqnos : /\ Q[m].vf = P[m].vf /\ (Q[m].ref > 0 => P[m].ref > 0 /\ Q[m].decoded = P[m].decoded)
    BY <1>3, <1>9, <1>10, <1>11, <1>12
  <2>5. d.posted # 0 => d.posted \in Seqnos
    BY InstTypes, Finite DEF Seqnos
  <2> QED
    BY <1>9, <2>1, <2>2, <2>3, <2>4, <2>5 DEF SignalOK, Living
<1>17. BusyOK(c, Q, d)
  <2>1. Using(Q) = Using(P)
    BY <1>3, <1>9, <1>10 DEF Using
  <2> QED
    BY <2>1 DEF InstOK, BusyOK
<1>18. InstOK(c, o2, Q, d, k)
  BY <1>8, <1>14, <1>15, <1>16, <1>17 DEF InstOK
<1> QED
  BY <1>4, <1>7, <1>18

\* The references of a frame's fence in driver usage
LEMMA FrameRefs ==
    ASSUME NEW c, c.usage = "driver", NEW p \in PtRecords, PointOK(c, p), p.vf # "none"
    PROVE  p.ref \in {1, 2} /\ p.ref > 0 /\ (p.ref = 2 <=> p.disp) /\ ~p.lost /\ ~p.fd
<1>1. ~p.fd /\ ~p.lost /\ p.ref = RefsOf(p) /\ p.disp \in BOOLEAN
  BY PtTypes DEF PointOK, DroppedEarly
<1>2. p.ref = 1 + Num(p.disp)
  BY <1>1 DEF RefsOf, Num
<1>3. p.ref \in {1, 2} /\ (p.ref = 2 <=> p.disp)
  BY <1>1, <1>2 DEF Num
<1> QED
  BY <1>1, <1>3

\* The application closes its file.
LEMMA CloseInst ==
    ASSUME NEW c, NEW o, NEW P, NEW d, NEW k, InstOK(c, o, P, d, k), NEW n \in Seqnos,
           P[n].fd, P[n].ref > 0
    PROVE  LET P1 == [P EXCEPT ![n].fd = FALSE]
           IN  InstOK(c, Released(o, LastRef(P1, {n})), PutPts(P1, {n}), d, k)
<1>1. P \in [Seqnos -> PtRecords] /\ P[n] \in PtRecords /\ o \in Timelines /\ d \in Drivers /\ n \in Living(P)
      /\ d.st # "new" /\ (d.posted # 0 => d.st = "open") /\ o.active \in SUBSET Seqnos /\ d.bufs \in Nat
      /\ o.st = "live"
  BY InstTypes, KrefIs DEF Living, InstOK, KrefOK
<1>2. PICK q : q = [P[n] EXCEPT !.fd = FALSE]
  OBVIOUS
<1>3. /\ q \in PtRecords /\ q.ref = P[n].ref /\ q.disp = P[n].disp /\ q.vf = P[n].vf /\ q.fd = FALSE
      /\ q.lost = P[n].lost /\ q.decoded = P[n].decoded /\ q.error = P[n].error /\ q.ref \in Nat
  BY <1>1, <1>2, PtTypes, ZenonT(30) DEF PtRecords
<1>4. PICK P1 : P1 = [P EXCEPT ![n].fd = FALSE]
  OBVIOUS
<1>5. P1 \in [Seqnos -> PtRecords] /\ P1[n] = q /\ \A m \in Seqnos : m # n => P1[m] = P[m]
  BY <1>1, <1>2, <1>3, <1>4
<1>6. Living(P1) = Living(P) /\ {n} \in SUBSET Living(P)
  BY <1>1, <1>3, <1>5 DEF Living
<1>7. PICK o2, Q : o2 = Released(o, LastRef(P1, {n})) /\ Q = PutPts(P1, {n})
  OBVIOUS
<1>8. /\ AfterPut(o, P1, {n}, Owed(c, d, k), o2, Q)
      /\ TypesOK(c, o2, Q, d, k) /\ ListOK(o2, Q) /\ KrefOK(c, o2, d, k)
  BY <1>1, <1>5, <1>6, <1>7, KeptInst
<1>9. Q[n] = PutPt(q) /\ (\A m \in Seqnos : m # n => Q[m] = P[m]) /\ o2.value = o.value
  BY <1>5, <1>8 DEF AfterPut
<1>10. /\ c.usage = "app" /\ ~q.lost /\ q.ref = 1 /\ ~q.disp /\ q.vf # "parked"
       /\ (\A m \in Seqnos : PointOK(c, P[m]))
  <2>1. PointOK(c, P[n]) /\ c.usage \in {"driver", "app"}
    BY InstTypes DEF InstOK
  <2>2. c.usage = "app"
    BY <2>1 DEF PointOK
  <2>3. P[n].ref = 1 /\ ~P[n].lost
    BY <1>3, <2>1, <2>2 DEF PointOK, Num
  <2>4. ~P[n].disp /\ P[n].vf # "parked"
    BY <2>1, <2>2 DEF PointOK
  <2> QED
    BY <1>3, <2>2, <2>3, <2>4 DEF InstOK
<1>11. /\ Q[n].ref = 0 /\ Q[n].vf = q.vf /\ ~Q[n].disp
       /\ ~Q[n].fd /\ ~Q[n].lost /\ ~Q[n].decoded /\ ~Q[n].error
  BY <1>3, <1>9, <1>10, PutPtOK
<1>12. PointOK(c, Q[n])
  BY <1>10, <1>11 DEF PointOK, Num
<1>13. \A m \in Seqnos : PointOK(c, Q[m])
  BY <1>9, <1>10, <1>12
<1>14. \A m \in Living(Q) : m \in Living(P) /\ m # n /\ Q[m] = P[m]
  BY <1>9, <1>11 DEF Living
<1>15. SweepOK(c, Q, d, k)
  <2>1. SweepOK(c, P, d, k)
    BY DEF InstOK
  <2> QED
    BY <1>14, <2>1 DEF SweepOK
<1>16. SignalOK(c, o2, Q, d)
  <2>1. SignalOK(c, o, P, d)
    BY DEF InstOK
  <2>2. \A m \in o2.active : m \in Living(Q) /\ m > o2.value
    BY <1>1, <1>6, <1>8, <2>1, ActiveAfter DEF SignalOK
  <2>3. \A m \in Seqnos : P[m].lost => Q[m].lost
    BY <1>3, <1>9, <1>10
  <2>4. (\E m \in Seqnos : P[m].lost) => (\E m \in Seqnos : Q[m].lost)
    BY <2>3
  <2>5. d.posted # 0 => d.posted \in Seqnos
    BY InstTypes, Finite DEF Seqnos
  <2>6. d.posted # 0 /\ Q[d.posted].ref > 0 => d.posted \in Living(Q) /\ d.posted \in Living(P)
    BY <1>14, <2>5 DEF Living
  <2> QED
    BY <1>9, <1>10, <1>14, <2>1, <2>2, <2>4, <2>5, <2>6 DEF SignalOK, Living
<1>17. BusyOK(c, Q, d)
  <2>1. Using(Q) = Using(P)
    BY <1>3, <1>9, <1>11 DEF Using
  <2> QED
    BY <2>1 DEF InstOK, BusyOK
<1>18. InstOK(c, o2, Q, d, k)
  BY <1>8, <1>13, <1>15, <1>16, <1>17 DEF InstOK
<1> QED
  BY <1>4, <1>7, <1>18

\* dma_fence_get_status
LEMMA StatusIs ==
    ASSUME NEW o, NEW p, NEW n \in Nat, o.value \in Nat, p.error \in BOOLEAN
    PROVE  /\ Status(o, p, n) = 0 <=> n > o.value
           /\ Status(o, p, n) = 1 <=> n <= o.value /\ ~p.error
           /\ Status(o, p, n) \in {0, 1, -1}
BY DEF Status, Signaled

\* vf_put of a frame that is not parked, in driver usage: its reference is put
LEMMA VfDropInst ==
    ASSUME NEW c, NEW o, NEW P, NEW d, NEW k, InstOK(c, o, P, d, k), NEW n \in Seqnos, d.st = "open",
           P[n].vf = "shown", c.usage = "driver", n <= o.value, P[n].ref = 2 => P[n].error
    PROVE  LET P1 == [P EXCEPT ![n].vf = "none"]
           IN  InstOK(c, Released(o, LastRef(P1, {n})), PutPts(P1, {n}), d, k)
<1>1. P \in [Seqnos -> PtRecords] /\ P[n] \in PtRecords /\ o \in Timelines /\ d \in Drivers
      /\ d.st # "new" /\ (d.posted # 0 => d.st = "open") /\ o.active \in SUBSET Seqnos /\ d.bufs \in Nat
      /\ o.st = "live" /\ o.value \in Nat
  BY InstTypes, KrefIs
<1>2. PICK q : q = [P[n] EXCEPT !.vf = "none"]
  OBVIOUS
<1>3. /\ q \in PtRecords /\ q.ref = P[n].ref /\ q.disp = P[n].disp /\ q.vf = "none" /\ q.fd = P[n].fd
      /\ q.lost = P[n].lost /\ q.decoded = P[n].decoded /\ q.error = P[n].error /\ q.ref \in Nat
      /\ q.disp \in BOOLEAN /\ q.lost \in BOOLEAN
  BY <1>1, <1>2, PtTypes, ZenonT(30) DEF PtRecords
<1>4. PICK P1 : P1 = [P EXCEPT ![n].vf = "none"]
  OBVIOUS
<1>5. P1 \in [Seqnos -> PtRecords] /\ P1[n] = q /\ \A m \in Seqnos : m # n => P1[m] = P[m]
  BY <1>1, <1>2, <1>3, <1>4
<1>6. /\ ~q.fd /\ ~q.lost /\ q.ref \in {1, 2} /\ (q.ref = 2 <=> q.disp)
      /\ (\A m \in Seqnos : PointOK(c, P[m])) /\ (\A m \in Seqnos : ~P[m].lost)
  <2>1. PointOK(c, P[n])
    BY DEF InstOK
  <2>2. ~P[n].fd /\ ~P[n].lost /\ P[n].ref = RefsOf(P[n])
    BY <2>1 DEF PointOK, DroppedEarly
  <2>3. \A m \in Seqnos : PointOK(c, P[m]) /\ ~P[m].lost
    BY DEF InstOK, PointOK
  <2>4. q.ref = 1 + Num(q.disp)
    BY <1>3, <2>2 DEF RefsOf, Num
  <2>5. q.ref \in {1, 2} /\ (q.ref = 2 <=> q.disp)
    BY <1>3, <2>4 DEF Num
  <2> QED
    BY <1>3, <2>2, <2>3, <2>5
<1>7. Living(P1) = Living(P) /\ {n} \in SUBSET Living(P) /\ n \in Living(P)
  BY <1>1, <1>3, <1>5, <1>6 DEF Living
<1>8. PICK o2, Q : o2 = Released(o, LastRef(P1, {n})) /\ Q = PutPts(P1, {n})
  OBVIOUS
<1>9. /\ AfterPut(o, P1, {n}, Owed(c, d, k), o2, Q)
      /\ TypesOK(c, o2, Q, d, k) /\ ListOK(o2, Q) /\ KrefOK(c, o2, d, k)
  BY <1>1, <1>5, <1>7, <1>8, KeptInst
<1>10. Q[n] = PutPt(q) /\ (\A m \in Seqnos : m # n => Q[m] = P[m]) /\ o2.value = o.value
  BY <1>5, <1>9 DEF AfterPut
<1>11. /\ Q[n].ref = q.ref - 1 /\ Q[n].vf = "none" /\ Q[n].disp = q.disp
       /\ q.ref # 1 => Q[n] = [q EXCEPT !.ref = @ - 1]
       /\ q.ref = 1 => ~Q[n].fd /\ ~Q[n].lost /\ ~Q[n].decoded /\ ~Q[n].error
  BY <1>3, <1>6, <1>10, PutPtOK
<1>12. ~Q[n].lost /\ ~Q[n].fd /\ (q.ref = 2 => Q[n].decoded = q.decoded /\ Q[n].error = q.error)
  <2>1. q.ref = 2 => Q[n].lost = q.lost /\ Q[n].fd = q.fd /\ Q[n].decoded = q.decoded /\ Q[n].error = q.error
    BY <1>3, <1>11 DEF PtRecords
  <2> QED
    BY <1>6, <1>11, <2>1
<1>13. PointOK(c, Q[n])
  <2>1. Q[n].ref = RefsOf(Q[n])
    BY <1>3, <1>6, <1>11 DEF RefsOf, Num
  <2> QED
    BY <1>3, <1>6, <1>11, <1>12, <2>1 DEF PointOK
<1>14. \A m \in Seqnos : PointOK(c, Q[m])
  BY <1>6, <1>10, <1>13
<1>15. SweepOK(c, Q, d, k)
  <2>1. SweepOK(c, P, d, k)
    BY DEF InstOK
  <2>2. ~Torn(c, d, k)
    BY <1>7, <2>1 DEF SweepOK
  <2>3. \A m \in Living(Q) : m # n => m \in Living(P) /\ Q[m] = P[m]
    BY <1>10 DEF Living
  <2>4. n \in Living(Q) => Q[n].error
    BY <1>3, <1>6, <1>11, <1>12 DEF Living
  <2> QED
    BY <2>1, <2>2, <2>3, <2>4 DEF SweepOK
<1>16. SignalOK(c, o2, Q, d)
  <2>1. SignalOK(c, o, P, d)
    BY DEF InstOK
  <2>2. \A m \in o2.active : m \in Living(Q) /\ m > o2.value
    BY <1>1, <1>7, <1>9, <2>1, ActiveAfter DEF SignalOK
  <2>3. d.posted # 0 => d.posted \in Seqnos /\ d.posted > o.value /\ d.posted # n
    <3>1. d.posted # 0 => d.posted \in Seqnos
      BY InstTypes, Finite DEF Seqnos
    <3>2. d.posted # 0 => P[d.posted].vf # "none" /\ P[d.posted].ref > 0
      <4>1. d.posted # 0 => P[d.posted].vf # "none" /\ PointOK(c, P[d.posted]) /\ P[d.posted] \in PtRecords
        BY <1>1, <1>6, <2>1, <3>1 DEF SignalOK
      <4> QED
        BY <4>1, FrameRefs
    <3>3. n \in Nat
      BY Finite DEF Seqnos
    <3>4. d.posted # 0 => d.posted > o.value
      BY <2>1, <3>2 DEF SignalOK
    <3> QED
      BY <1>1, <3>1, <3>3, <3>4
  <2>4. \A m \in Living(Q) : m \in Living(P) /\ Q[m].lost = P[m].lost /\ Q[m].decoded = P[m].decoded
    <3>1. n \in Living(Q) => q.ref = 2
      BY <1>3, <1>6, <1>11 DEF Living
    <3>2. q.ref = 2 => Q[n].lost = q.lost
      BY <1>3, <1>11 DEF PtRecords
    <3> QED
      BY <1>3, <1>7, <1>10, <1>12, <3>1, <3>2 DEF Living
  <2>5. \A m \in Seqnos : ~Q[m].lost
    BY <1>6, <1>10, <1>12
  <2>6. d.posted # 0 => Q[d.posted] = P[d.posted]
    BY <1>10, <2>3
  <2> QED
    BY <1>6, <1>10, <2>1, <2>2, <2>3, <2>4, <2>5, <2>6 DEF SignalOK
<1>17. BusyOK(c, Q, d)
  <2>1. Using(Q) \in SUBSET Using(P)
    BY <1>10, <1>11 DEF Using
  <2>2. BusyOK(c, P, d)
    BY DEF InstOK
  <2> QED
    BY <1>1, <2>1, <2>2, FewerBusy
<1>18. InstOK(c, o2, Q, d, k)
  BY <1>9, <1>14, <1>15, <1>16, <1>17 DEF InstOK
<1> QED
  BY <1>4, <1>8, <1>18

\* vf_put of a frame that is parked, or whose fence is the application's
LEMMA VfKeepInst ==
    ASSUME NEW c, NEW o, NEW P, NEW d, NEW k, InstOK(c, o, P, d, k), NEW n \in Seqnos, d.st = "open",
           P[n].vf = "shown", NEW v, c.usage = "driver" => v = "parked", c.usage = "app" => v = "none"
    PROVE  LET P1 == [P EXCEPT ![n].vf = v]
           IN  InstOK(c, Released(o, LastRef(P1, {})), PutPts(P1, {}), d, k)
<1>1. P \in [Seqnos -> PtRecords] /\ P[n] \in PtRecords /\ o \in Timelines /\ d \in Drivers
      /\ d.st # "new" /\ (d.posted # 0 => d.st = "open") /\ o.active \in SUBSET Seqnos /\ d.bufs \in Nat
      /\ o.st = "live" /\ o.value \in Nat /\ c.usage \in {"driver", "app"}
  BY InstTypes, KrefIs
<1>2. PICK q : q = [P[n] EXCEPT !.vf = v]
  OBVIOUS
<1>3. v \in {"none", "parked"}
  BY <1>1
<1>4. /\ q \in PtRecords /\ q.ref = P[n].ref /\ q.disp = P[n].disp /\ q.vf = v /\ q.fd = P[n].fd
      /\ q.lost = P[n].lost /\ q.decoded = P[n].decoded /\ q.error = P[n].error /\ q.ref \in Nat
  BY <1>1, <1>2, <1>3, PtTypes, ZenonT(30) DEF PtRecords
<1>5. PICK P1 : P1 = [P EXCEPT ![n].vf = v]
  OBVIOUS
<1>6. P1 \in [Seqnos -> PtRecords] /\ P1[n] = q /\ \A m \in Seqnos : m # n => P1[m] = P[m]
  BY <1>1, <1>2, <1>4, <1>5
<1>7. Living(P1) = Living(P) /\ {} \in SUBSET Living(P)
  BY <1>4, <1>6 DEF Living
<1>8. PICK o2, Q : o2 = Released(o, LastRef(P1, {})) /\ Q = PutPts(P1, {})
  OBVIOUS
<1>9. /\ AfterPut(o, P1, {}, Owed(c, d, k), o2, Q)
      /\ TypesOK(c, o2, Q, d, k) /\ ListOK(o2, Q) /\ KrefOK(c, o2, d, k)
  BY <1>1, <1>6, <1>7, <1>8, KeptInst
<1>10. Q[n] = q /\ (\A m \in Seqnos : m # n => Q[m] = P[m]) /\ o2.value = o.value
  BY <1>6, <1>9 DEF AfterPut
<1>11. \A m \in Seqnos : PointOK(c, Q[m])
  <2>1. PointOK(c, P[n])
    BY DEF InstOK
  <2>2. CASE c.usage = "driver"
    <3>1. P[n].ref = RefsOf(P[n]) /\ v = "parked"
      BY <2>1, <2>2 DEF PointOK, DroppedEarly
    <3>2. q.ref = RefsOf(q)
      BY <1>4, <3>1 DEF RefsOf, Num
    <3>3. PointOK(c, q)
      BY <1>4, <2>1, <2>2, <3>2 DEF PointOK
    <3> QED
      BY <1>10, <3>3 DEF InstOK
  <2>3. CASE c.usage = "app"
    <3>1. PointOK(c, q)
      BY <1>4, <2>1, <2>3 DEF PointOK
    <3> QED
      BY <1>10, <3>1 DEF InstOK
  <2> QED
    BY <1>1, <2>2, <2>3
<1>12. \A m \in Living(Q) : /\ m \in Living(P) /\ m \in Seqnos /\ Q[m].lost = P[m].lost /\ Q[m].error = P[m].error
                            /\ Q[m].decoded = P[m].decoded /\ Q[m].disp = P[m].disp
  BY <1>4, <1>10 DEF Living
<1>13. c.usage = "app" => \A m \in Living(P) : ~P[m].disp
  BY DEF InstOK, PointOK, Living
<1>14. SweepOK(c, Q, d, k)
  <2>1. SweepOK(c, P, d, k)
    BY DEF InstOK
  <2>2. \A m \in Living(Q) : Q[m].vf = "none" /\ Q[m].disp => P[m].vf = "none" /\ P[m].disp
    BY <1>1, <1>4, <1>10, <1>12, <1>13
  <2>3. ~(Torn(c, d, k) /\ d.st # "open")
    OBVIOUS
  <2>4. ASSUME Torn(c, d, k), NEW m \in Living(Q) PROVE Q[m].vf = "none" /\ Q[m].disp
    <3>1. P[m].vf = "none" /\ P[m].disp /\ m # n /\ m \in Seqnos
      BY <1>12, <2>1, <2>4 DEF SweepOK
    <3> QED
      BY <1>10, <3>1
  <2> QED
    BY <1>12, <2>1, <2>2, <2>3, <2>4 DEF SweepOK
<1>15. SignalOK(c, o2, Q, d)
  <2>1. SignalOK(c, o, P, d)
    BY DEF InstOK
  <2>2. \A m \in o2.active : m \in Living(Q) /\ m > o2.value
    BY <1>1, <1>7, <1>9, <2>1, ActiveAfter DEF SignalOK
  <2>3. d.posted # 0 => d.posted \in Seqnos
    BY InstTypes, Finite DEF Seqnos
  <2>4. \A m \in Seqnos : /\ Q[m].lost = P[m].lost /\ Q[m].decoded = P[m].decoded /\ Q[m].ref = P[m].ref
                          /\ (c.usage = "driver" => (Q[m].vf # "none" <=> P[m].vf # "none"))
    BY <1>4, <1>10
  <2>5. (\E m \in Seqnos : P[m].lost) <=> (\E m \in Seqnos : Q[m].lost)
    BY <2>4
  <2> QED
    BY <1>10, <1>12, <2>1, <2>2, <2>3, <2>4, <2>5 DEF SignalOK
<1>16. BusyOK(c, Q, d)
  <2>1. Using(Q) \in SUBSET Using(P)
    BY <1>10 DEF Using
  <2>2. BusyOK(c, P, d)
    BY DEF InstOK
  <2> QED
    BY <1>1, <2>1, <2>2, FewerBusy
<1>17. InstOK(c, o2, Q, d, k)
  BY <1>9, <1>11, <1>14, <1>15, <1>16 DEF InstOK
<1> QED
  BY <1>5, <1>8, <1>17

\* Every fence of pt_list is put.
SweptPts(o, P) == [n \in Seqnos |-> IF n \in Listed(o) THEN [P[n] EXCEPT !.vf = "none", !.lost = FALSE] ELSE P[n]]

\* One point is swept.
SweepsPt(c, p, r, q) ==
    /\ c.usage \in {"driver", "app"} /\ PointOK(c, p) /\ p.ref > 0 /\ (p.vf = "none" /\ p.disp => p.error)
    /\ r.ref = p.ref /\ r.vf = "none" /\ r.lost = FALSE /\ r.disp = p.disp /\ r.fd = p.fd
    /\ r.error = p.error /\ r.decoded = p.decoded
    /\ q = PutPt(r)

\* What the sweep leaves of a point is right, and at most the display's.
LEMMA SweptPt ==
    ASSUME NEW c, NEW p \in PtRecords, NEW r \in PtRecords, NEW q, SweepsPt(c, p, r, q)
    PROVE  PointOK(c, q) /\ q.vf = "none" /\ (q.ref > 0 => q.disp /\ p.vf # "none")
<1> USE DEF SweepsPt
<1>1. /\ p.ref \in Nat /\ p.disp \in BOOLEAN /\ p.error \in BOOLEAN /\ p.lost \in BOOLEAN /\ p.fd \in BOOLEAN
  BY PtTypes
<1>2. r.ref = p.ref /\ r.vf = "none" /\ r.lost = FALSE /\ r.disp = p.disp /\ r.fd = p.fd /\ r.error = p.error
      /\ r.decoded = p.decoded
  OBVIOUS
<1>3. /\ q.ref = p.ref - 1 /\ q.vf = "none" /\ q.disp = p.disp /\ q = PutPt(r)
      /\ r.ref # 1 => q = [r EXCEPT !.ref = @ - 1]
      /\ r.ref = 1 => ~q.fd /\ ~q.lost /\ ~q.decoded /\ (q.error <=> r.disp /\ r.error)
  <2>1. r.ref > 0
    OBVIOUS
  <2>2. /\ PutPt(r).ref = r.ref - 1 /\ PutPt(r).vf = r.vf /\ PutPt(r).disp = r.disp
        /\ r.ref # 1 => PutPt(r) = [r EXCEPT !.ref = @ - 1]
        /\ r.ref = 1 => /\ ~PutPt(r).fd /\ ~PutPt(r).lost /\ ~PutPt(r).decoded
                        /\ PutPt(r).error <=> r.disp /\ r.error
    BY <2>1, PutPtOK
  <2> QED
    BY <2>2
<1>4. r.ref # 1 => q.lost = FALSE /\ q.fd = p.fd /\ q.error = p.error /\ q.decoded = p.decoded
  BY <1>2, <1>3 DEF PtRecords
<1>5. CASE c.usage = "app"
  <2>1. p.ref = 1 /\ ~p.disp
    BY <1>1, <1>5 DEF PointOK
  <2>2. q.ref = 0 /\ ~q.disp /\ ~q.fd /\ ~q.lost /\ ~q.decoded /\ ~q.error
    BY <1>2, <1>3, <2>1
  <2> QED
    BY <1>3, <1>5, <2>2 DEF PointOK, Num
<1>6. CASE c.usage = "driver"
  <2>1. ~p.fd /\ ~p.lost /\ p.ref = RefsOf(p)
    BY <1>1, <1>6 DEF PointOK, DroppedEarly
  <2>2. CASE p.vf # "none"
    <3>1. p.ref \in {1, 2} /\ (p.ref = 2 <=> p.disp)
      BY <1>6, <2>2, FrameRefs
    <3>2. ~q.fd /\ ~q.lost
      BY <1>2, <1>3, <1>4, <2>1
    <3>3. q.ref = RefsOf(q) /\ (q.ref = 0 => ~q.disp /\ ~q.error /\ ~q.decoded) /\ (q.ref > 0 => q.disp)
      BY <1>1, <1>2, <1>3, <3>1 DEF RefsOf, Num
    <3> QED
      BY <1>3, <1>6, <2>2, <3>2, <3>3 DEF PointOK
  <2>3. CASE p.vf = "none"
    <3>1. p.ref = 1 /\ p.disp /\ p.error
      BY <1>1, <2>1, <2>3 DEF RefsOf, Num
    <3>2. q.ref = 0 /\ q.disp /\ q.error /\ ~q.fd /\ ~q.lost /\ ~q.decoded
      <4>1. q.ref = 0 /\ q.disp
        BY <1>3, <3>1
      <4>2. r.ref = 1 /\ r.disp /\ r.error
        BY <3>1
      <4> QED
        BY <1>3, <4>1, <4>2
    <3>3. DroppedEarly(q)
      BY <1>3, <3>2 DEF DroppedEarly
    <3> QED
      BY <1>3, <1>6, <3>2, <3>3 DEF PointOK
  <2> QED
    BY <2>2, <2>3
<1> QED
  BY <1>5, <1>6

\* The last sweep, in driver state d2 with k2 decreases under way
LEMMA SweepInst ==
    ASSUME NEW c, NEW o, NEW P, NEW d, NEW k, InstOK(c, o, P, d, k), o.st = "live", ~Torn(c, d, k),
           d.st = "open" => Using(P) = {},
           NEW d2 \in Drivers, d2.sync = d.sync, d2.bufs = d.bufs, d2.posted = d.posted, d2.st # "new",
           d2.st = "open" => d.st = "open", d2.posted # 0 => d2.st = "open", d2.st = "removed" => c.v4l,
           NEW k2 \in {0, 1}, c.v4l => k2 = 0, Torn(c, d2, k2), Owed(c, d2, k2) = Owed(c, d, k) - 1,
           NEW S, S = SweptPts(o, P)
    PROVE  LET o1 == Dropped(o, 1)
           IN  InstOK(c, Released(o1, LastRef(S, Listed(o))), PutPts(S, Listed(o)), d2, k2)
<1>1. /\ P \in [Seqnos -> PtRecords] /\ o \in Timelines /\ o.active \in SUBSET Seqnos /\ d.bufs \in Nat
      /\ o.value \in Nat /\ c.usage \in {"driver", "app"} /\ o.kref \in Nat /\ c \in SetupRecords
      /\ o.kref = Owed(c, d, k) + Len(o.pts) /\ o.kref # 0 /\ Len(o.pts) \in Nat /\ d.sync # Null
      /\ (c.v4l => d.bufs = 0) /\ Listed(o) = Living(P) /\ IsInjective(o.pts)
  BY InstTypes, KrefIs DEF InstOK, KrefOK, ListOK
<1>2. PICK o1 : o1 = Dropped(o, 1)
  OBVIOUS
<1>3. /\ o1 \in Timelines /\ o1.kref = o.kref - 1 /\ o1.pts = o.pts /\ o1.value = o.value
      /\ o1.active = o.active /\ o1.st = IF o.kref = 1 THEN "freed" ELSE "live"
  <2>1. o.kref > 0 /\ 0 \in Nat
    BY <1>1
  <2> QED
    BY <1>1, <1>2, <2>1, DroppedOK
<1>4. PICK L : L = Listed(o)
  OBVIOUS
<1>5. /\ \A n \in Seqnos : n \notin L => S[n] = P[n]
      /\ \A n \in L : /\ n \in Seqnos /\ P[n].ref > 0 /\ P[n] \in PtRecords
                      /\ S[n] = [P[n] EXCEPT !.vf = "none", !.lost = FALSE]
      /\ S = [n \in Seqnos |-> S[n]]
  BY <1>1, <1>4 DEF SweptPts, Living
<1>6. \A n \in L : /\ S[n] \in PtRecords /\ S[n].ref = P[n].ref /\ S[n].vf = "none" /\ S[n].lost = FALSE
                   /\ S[n].disp = P[n].disp /\ S[n].fd = P[n].fd /\ S[n].error = P[n].error
                   /\ S[n].decoded = P[n].decoded
  <2> SUFFICES ASSUME NEW n \in L
               PROVE  /\ S[n] \in PtRecords /\ S[n].ref = P[n].ref /\ S[n].vf = "none" /\ S[n].lost = FALSE
                      /\ S[n].disp = P[n].disp /\ S[n].fd = P[n].fd /\ S[n].error = P[n].error
                      /\ S[n].decoded = P[n].decoded
    OBVIOUS
  <2>1. PICK p \in PtRecords : p = P[n]
    BY <1>5
  <2>2. S[n] = [p EXCEPT !.vf = "none", !.lost = FALSE]
    BY <1>5, <2>1
  <2>3. S[n] \in PtRecords
    BY <2>2, PtTypes
  <2>4. /\ S[n].ref = p.ref /\ S[n].vf = "none" /\ S[n].lost = FALSE /\ S[n].disp = p.disp
        /\ S[n].fd = p.fd /\ S[n].error = p.error /\ S[n].decoded = p.decoded
    BY <2>2 DEF PtRecords
  <2> QED
    BY <2>1, <2>3, <2>4
<1>7. S \in [Seqnos -> PtRecords]
  <2>1. \A n \in Seqnos : S[n] \in PtRecords
    BY <1>1, <1>5, <1>6
  <2> QED
    BY <1>5, <2>1
<1>8. Living(S) = L /\ L = Living(P)
  <2>1. \A n \in Seqnos : S[n].ref = P[n].ref
    BY <1>5, <1>6
  <2> QED
    BY <1>1, <1>4, <2>1 DEF Living
<1>9. PICK o2, Q : o2 = Released(o1, LastRef(S, L)) /\ Q = PutPts(S, L)
  OBVIOUS
<1>10. AfterPut(o1, S, L, Owed(c, d2, k2), o2, Q)
  <2>1. PICK x \in Nat, y \in Nat, l \in Nat, h \in Nat :
           x = Owed(c, d, k) /\ y = Owed(c, d2, k2) /\ l = Len(o.pts) /\ h = o.kref
    BY <1>1, OwedType
  <2>2. y = x - 1 /\ h = x + l /\ o1.kref = h - 1 /\ Len(o1.pts) = l
    BY <1>1, <1>3, <2>1
  <2>3. o1.kref = y + Len(o1.pts) /\ (h = 1 => o1.kref = 0)
    BY <2>2
  <2>4. ListOK(o1, S) /\ L \in SUBSET Living(S)
    BY <1>1, <1>3, <1>4, <1>8 DEF ListOK, Listed
  <2>5. o1.st \in {"live", "freed"} /\ (o1.st = "freed" => o1.kref = 0)
    BY <1>3, <2>1, <2>3
  <2>6. AfterPut(o1, S, L, y, o2, Q)
    BY <1>3, <1>7, <1>9, <2>3, <2>4, <2>5, PutOK
  <2> QED
    BY <2>1, <2>6
<1>11. TypesOK(c, o2, Q, d2, k2) /\ ListOK(o2, Q) /\ KrefOK(c, o2, d2, k2)
  <2>1. d2.sync # Null /\ (c.v4l => d2.bufs = 0 /\ k2 = 0)
    BY <1>1
  <2> QED
    BY <1>1, <1>10, <2>1, AfterPutOK
<1>12. /\ \A n \in L : Q[n] = PutPt(S[n])
       /\ \A n \in Seqnos : n \notin L => Q[n] = P[n] /\ P[n].ref = 0
       /\ o2.value = o.value
  <2>1. \A n \in Seqnos : n \notin L => P[n].ref = 0
    <3>1. \A n \in Seqnos : P[n].ref \in Nat
      BY <1>1, PtTypes
    <3>2. \A n \in Seqnos : n \notin L => ~(P[n].ref > 0)
      BY <1>8 DEF Living
    <3> QED
      BY <3>1, <3>2
  <2>2. (\A n \in Seqnos : Q[n] = IF n \in L THEN PutPt(S[n]) ELSE S[n]) /\ o2.value = o1.value
    BY <1>10 DEF AfterPut
  <2>3. \A n \in L : n \in Seqnos
    BY <1>5
  <2> QED
    BY <1>3, <1>5, <2>1, <2>2, <2>3, ZenonT(30)
<1>13. \A n \in L : PointOK(c, Q[n]) /\ Q[n].vf = "none" /\ (Q[n].ref > 0 => Q[n].disp /\ P[n].vf # "none")
  <2> SUFFICES ASSUME NEW n \in L
               PROVE  PointOK(c, Q[n]) /\ Q[n].vf = "none" /\ (Q[n].ref > 0 => Q[n].disp /\ P[n].vf # "none")
    OBVIOUS
  <2>1. PointOK(c, P[n]) /\ P[n] \in PtRecords /\ P[n].ref > 0
    BY <1>5 DEF InstOK
  <2>2. P[n].vf = "none" /\ P[n].disp => P[n].error
    BY <1>8 DEF InstOK, SweepOK
  <2>3. PICK p \in PtRecords, r \in PtRecords, q \in {Q[n]} : p = P[n] /\ r = S[n] /\ q = Q[n]
    BY <1>6, <2>1
  <2>4. /\ r.ref = p.ref /\ r.vf = "none" /\ r.lost = FALSE /\ r.disp = p.disp /\ r.fd = p.fd
        /\ r.error = p.error /\ r.decoded = p.decoded /\ q = PutPt(r)
    BY <1>6, <1>12, <2>3
  <2>5. PointOK(c, p) /\ p.ref > 0 /\ (p.vf = "none" /\ p.disp => p.error)
    BY <2>1, <2>2, <2>3
  <2>6. PointOK(c, q) /\ q.vf = "none" /\ (q.ref > 0 => q.disp /\ p.vf # "none")
    <3>1. SweepsPt(c, p, r, q)
      BY <1>1, <2>4, <2>5 DEF SweepsPt
    <3> QED
      BY <3>1, SweptPt
  <2> QED
    BY <2>3, <2>6
<1>14. \A n \in Seqnos : PointOK(c, Q[n])
  BY <1>12, <1>13 DEF InstOK
<1>15. \A n \in Living(Q) : n \in L /\ n \in Seqnos /\ Q[n].vf = "none" /\ Q[n].disp /\ P[n].vf # "none"
  BY <1>12, <1>13 DEF Living
<1>16. d2.st = "open" => Living(Q) = {}
  BY <1>15 DEF Using
<1>17. SweepOK(c, Q, d2, k2)
  BY <1>15, <1>16 DEF SweepOK
<1>18. SignalOK(c, o2, Q, d2)
  <2>1. SignalOK(c, o, P, d)
    BY DEF InstOK
  <2>2. \A n \in o1.active : n \in Living(S) /\ n > o1.value
    BY <1>3, <1>8, <2>1 DEF SignalOK
  <2>3. o1.active \in SUBSET Seqnos
    BY <1>1, <1>3
  <2>4. \A n \in o2.active : n \in Living(Q) /\ n > o2.value
    BY <1>10, <2>2, <2>3, ActiveAfter
  <2>5. d2.posted # 0 => d2.posted \in Seqnos
    BY InstTypes, Finite DEF Seqnos
  <2>6. d2.st = "open" /\ d2.posted # 0 => ~(Q[d2.posted].ref > 0) /\ c.usage # "driver"
    <3>1. ASSUME d2.st = "open", d2.posted # 0 PROVE ~(Q[d2.posted].ref > 0)
      BY <1>16, <2>5, <3>1 DEF Living
    <3>2. ASSUME d2.st = "open", d2.posted # 0, c.usage = "driver" PROVE FALSE
      <4>1. P[d.posted].vf # "none" /\ d.posted \in Seqnos
        BY <2>1, <2>5, <3>2 DEF SignalOK
      <4> QED
        BY <3>2, <4>1 DEF Using
    <3> QED
      BY <3>1, <3>2
  <2> QED
    BY <1>16, <2>4, <2>6 DEF SignalOK
<1>19. BusyOK(c, Q, d2)
  <2>1. Using(Q) \in SUBSET Using(P)
    BY <1>12, <1>13 DEF Using
  <2>2. BusyOK(c, P, d)
    BY DEF InstOK
  <2> QED
    BY <1>1, <2>1, <2>2, FewerBusy
<1>20. InstOK(c, o2, Q, d2, k2)
  BY <1>11, <1>14, <1>17, <1>18, <1>19 DEF InstOK
<1> QED
  BY <1>2, <1>4, <1>9, <1>20

(* The posted picture is done: timeline o1 and points P1, before parked    *)
(* frames are looked at again.                                             *)
SignalsTo(c, o, P, d, o1, P1) ==
    /\ o1 \in Timelines /\ o1.kref = o.kref /\ o1.pts = o.pts /\ o1.st = "live"
    /\ o1.value \in {o.value, o.value + 1} /\ o1.active = {n \in o.active : n > o1.value}
    /\ P[d.posted].ref > 0 => o1.value = o.value + 1
    /\ P1 \in [Seqnos -> PtRecords]
    /\ \A n \in Seqnos : /\ P1[n].ref = P[n].ref /\ P1[n].vf = P[n].vf /\ P1[n].fd = P[n].fd
                         /\ P1[n].disp = P[n].disp /\ P1[n].lost = P[n].lost
                         /\ n # d.posted => P1[n] = P[n]
    /\ P1[d.posted].decoded <=> P[d.posted].ref > 0
    /\ P1[d.posted].error => P[d.posted].ref > 0

\* The posted fence is unsignalled, if it is there.
LEMMA PostedIs ==
    ASSUME NEW c, NEW o, NEW P, NEW d, NEW k, InstOK(c, o, P, d, k), d.posted # 0
    PROVE  /\ d.posted \in Seqnos /\ d.posted \in Nat /\ d.st = "open" /\ o.st = "live"
           /\ P[d.posted] \in PtRecords /\ P[d.posted].ref \in Nat
           /\ P[d.posted].ref > 0 => /\ d.posted > o.value /\ Status(o, P[d.posted], d.posted) = 0
           /\ c.usage = "driver" => P[d.posted].vf # "none" /\ P[d.posted].ref > 0
<1>1. d.posted \in Seqnos /\ d.posted \in Nat
  BY InstTypes, Finite DEF Seqnos
<1>2. d.st = "open"
  BY DEF InstOK, KrefOK
<1>3. o.st = "live" /\ o.value \in Nat
  BY <1>2, InstTypes, KrefIs
<1>4. PICK p \in PtRecords : p = P[d.posted]
  BY <1>1, InstTypes
<1>5. p.ref \in Nat /\ p.error \in BOOLEAN
  BY PtTypes
<1>6. p.ref > 0 => d.posted > o.value
  BY <1>2, <1>4 DEF InstOK, SignalOK
<1>7. p.ref > 0 => Status(o, p, d.posted) = 0
  BY <1>1, <1>3, <1>5, <1>6, StatusIs
<1>8. c.usage = "driver" => p.vf # "none" /\ PointOK(c, p)
  BY <1>1, <1>2, <1>4 DEF InstOK, SignalOK
<1>9. c.usage = "driver" => p.ref > 0
  BY <1>8, FrameRefs
<1> QED
  BY <1>1, <1>2, <1>3, <1>4, <1>5, <1>6, <1>7, <1>8, <1>9

\* What Signal does to timeline and posted point
LEMMA SignalsToOK ==
    ASSUME NEW c, NEW o, NEW P, NEW d, NEW k, InstOK(c, o, P, d, k), d.posted # 0,
           NEW u \in BOOLEAN, P[d.posted].ref # 0 => (u <=> Status(o, P[d.posted], d.posted) = 0),
           NEW e \in BOOLEAN, NEW f \in BOOLEAN, f <=> P[d.posted].ref > 0, e => P[d.posted].ref > 0
    PROVE  SignalsTo(c, o, P, d, IF u THEN Increased(o, 1) ELSE o,
                     [P EXCEPT ![d.posted].error = e, ![d.posted].decoded = f])
<1>1. /\ d.posted \in Seqnos /\ P[d.posted] \in PtRecords /\ P[d.posted].ref \in Nat
      /\ (P[d.posted].ref > 0 => Status(o, P[d.posted], d.posted) = 0) /\ o.st = "live"
  BY PostedIs
<1>2. /\ o \in Timelines /\ o.kref \in Nat /\ o.kref > 0 /\ o.value \in Nat /\ P \in [Seqnos -> PtRecords]
      /\ o.active \in SUBSET Seqnos
  <2>1. o.kref # 0 /\ o.kref \in Nat
    BY <1>1, KrefIs, InstTypes
  <2> QED
    BY <2>1, InstTypes
<1>3. PICK o1 : o1 = IF u THEN Increased(o, 1) ELSE o
  OBVIOUS
<1>4. /\ o1 \in Timelines /\ o1.kref = o.kref /\ o1.pts = o.pts /\ o1.st = "live"
      /\ o1.value \in {o.value, o.value + 1} /\ o1.active = {n \in o.active : n > o1.value}
      /\ (u => o1.value = o.value + 1)
  <2>1. CASE u
    BY <1>1, <1>2, <1>3, <2>1, DroppedOK, 1 \in Nat
  <2>2. CASE ~u
    <3>1. \A n \in o.active : n > o.value
      BY DEF InstOK, SignalOK
    <3> QED
      BY <1>1, <1>2, <1>3, <2>2, <3>1
  <2> QED
    BY <2>1, <2>2
<1>5. PICK p \in PtRecords : p = P[d.posted]
  BY <1>1
<1>6. PICK q : q = [p EXCEPT !.error = e, !.decoded = f]
  OBVIOUS
<1>7. /\ q \in PtRecords /\ q.ref = p.ref /\ q.vf = p.vf /\ q.fd = p.fd /\ q.disp = p.disp /\ q.lost = p.lost
      /\ q.error = e /\ q.decoded = f
  BY <1>6 DEF PtRecords
<1>8. PICK P1 : P1 = [P EXCEPT ![d.posted].error = e, ![d.posted].decoded = f]
  OBVIOUS
<1>9. P1[d.posted] = q /\ (\A n \in Seqnos : n # d.posted => P1[n] = P[n]) /\ P1 \in [Seqnos -> PtRecords]
  BY <1>1, <1>2, <1>5, <1>6, <1>7, <1>8
<1>10. \A n \in Seqnos : /\ P1[n].ref = P[n].ref /\ P1[n].vf = P[n].vf /\ P1[n].fd = P[n].fd
                         /\ P1[n].disp = P[n].disp /\ P1[n].lost = P[n].lost
                         /\ n # d.posted => P1[n] = P[n]
  BY <1>5, <1>7, <1>9
<1>11. (P1[d.posted].decoded <=> P[d.posted].ref > 0) /\ (P1[d.posted].error => P[d.posted].ref > 0)
  BY <1>7, <1>9
<1>12. P[d.posted].ref > 0 => o1.value = o.value + 1
  BY <1>1, <1>4
<1>13. SignalsTo(c, o, P, d, o1, P1)
  BY <1>4, <1>9, <1>10, <1>11, <1>12 DEF SignalsTo
<1> QED
  BY <1>3, <1>8, <1>13

\* The parked frames that go back
BackPts(o1, P1, shows) ==
    {m \in Seqnos : shows /\ P1[m].vf = "parked" /\ Status(o1, P1[m], m) = 1 /\ P1[m].ref # 2}
BackVf(P1, B) == [m \in Seqnos |-> IF m \in B THEN [P1[m] EXCEPT !.vf = "none"] ELSE P1[m]]

\* A parked frame goes back: its fence goes too.
GoesBack(c, p, q) == /\ c.usage = "driver" /\ PointOK(c, p) /\ p.vf # "none" /\ p.ref # 2
                      /\ q = PutPt([p EXCEPT !.vf = "none"])

\* A parked frame that comes back takes its point along.
LEMMA BackPt ==
    ASSUME NEW c, NEW p \in PtRecords, NEW q, GoesBack(c, p, q)
    PROVE  q.ref = 0 /\ q.vf = "none" /\ ~q.lost /\ ~q.decoded /\ ~p.lost /\ PointOK(c, q)
<1> USE DEF GoesBack
<1>1. p.ref = 1 /\ ~p.disp /\ ~p.lost /\ ~p.fd
  BY FrameRefs
<1>2. PICK r \in PtRecords : r = [p EXCEPT !.vf = "none"]
  BY PtTypes
<1>3. r.ref = 1 /\ r.vf = "none" /\ r.disp = p.disp
  BY <1>1, <1>2 DEF PtRecords
<1>4. /\ PutPt(r).ref = r.ref - 1 /\ PutPt(r).vf = r.vf /\ PutPt(r).disp = r.disp
      /\ ~PutPt(r).fd /\ ~PutPt(r).lost /\ ~PutPt(r).decoded /\ (PutPt(r).error <=> r.disp /\ r.error)
  BY <1>3, PutPtOK
<1>5. q.ref = 0 /\ q.vf = "none" /\ ~q.disp /\ ~q.fd /\ ~q.lost /\ ~q.decoded /\ ~q.error
  BY <1>1, <1>2, <1>3, <1>4
<1>6. q.ref = RefsOf(q)
  BY <1>5 DEF RefsOf, Num
<1> QED
  BY <1>1, <1>5, <1>6 DEF PointOK

\* The posted picture is done, and parked frames go back.
LEMMA SignalInst ==
    ASSUME NEW c, NEW o, NEW P, NEW d, NEW k, InstOK(c, o, P, d, k), d.posted # 0,
           NEW o1, NEW P1, SignalsTo(c, o, P, d, o1, P1), NEW shows, NEW B, B = BackPts(o1, P1, shows),
           NEW P2, P2 = BackVf(P1, B),
           NEW d2 \in Drivers, d2.sync = d.sync, d2.bufs = d.bufs, d2.posted = 0, d2.st \in {"open", "stopping"}
    PROVE  InstOK(c, Released(o1, LastRef(P2, B)), PutPts(P2, B), d2, k)
<1>1. /\ d.posted \in Seqnos /\ d.posted \in Nat /\ d.st = "open" /\ o.st = "live"
      /\ (c.usage = "driver" => P[d.posted].vf # "none" /\ P[d.posted].ref > 0)
  BY PostedIs
<1>2. /\ P \in [Seqnos -> PtRecords] /\ o.active \in SUBSET Seqnos /\ d.bufs \in Nat
      /\ o.value \in Nat /\ c.usage \in {"driver", "app"} /\ c.v4l \in BOOLEAN
  BY InstTypes
<1>3. /\ o1 \in Timelines /\ o1.kref = o.kref /\ o1.pts = o.pts /\ o1.st = "live"
      /\ o1.value \in {o.value, o.value + 1} /\ o1.active = {n \in o.active : n > o1.value}
      /\ (P[d.posted].ref > 0 => o1.value = o.value + 1)
      /\ P1 \in [Seqnos -> PtRecords]
      /\ (P1[d.posted].decoded <=> P[d.posted].ref > 0)
      /\ (P1[d.posted].error => P[d.posted].ref > 0)
  BY DEF SignalsTo
<1>4. \A n \in Seqnos : /\ P1[n].ref = P[n].ref /\ P1[n].vf = P[n].vf /\ P1[n].fd = P[n].fd
                        /\ P1[n].disp = P[n].disp /\ P1[n].lost = P[n].lost
                        /\ n # d.posted => P1[n] = P[n]
  BY DEF SignalsTo
<1>5. \A n \in Seqnos : PointOK(c, P[n])
  BY DEF InstOK
<1>6. \A n \in Seqnos : PointOK(c, P1[n])
  <2>1. PointOK(c, P1[d.posted])
    <3>1. PICK p, q : p = P[d.posted] /\ q = P1[d.posted]
      OBVIOUS
    <3>2. /\ q.ref = p.ref /\ q.vf = p.vf /\ q.fd = p.fd /\ q.disp = p.disp /\ q.lost = p.lost
          /\ (q.decoded <=> p.ref > 0) /\ (q.error => p.ref > 0) /\ PointOK(c, p)
          /\ (c.usage = "driver" => p.vf # "none")
      BY <1>1, <1>3, <1>4, <1>5, <3>1
    <3>3. c.usage = "driver" => q.ref = RefsOf(q)
      BY <3>2 DEF PointOK, DroppedEarly, RefsOf
    <3>4. p.ref = 0 => ~(p.ref > 0)
      OBVIOUS
    <3>5. PointOK(c, q)
      BY <3>2, <3>3, <3>4 DEF PointOK
    <3> QED
      BY <3>1, <3>5
  <2> QED
    BY <1>4, <1>5, <2>1
<1>7. \A n \in B : /\ n \in Seqnos /\ c.usage = "driver" /\ P1[n].vf # "none" /\ P1[n].ref # 2 /\ P1[n].ref > 0
                   /\ P1[n] \in PtRecords
  <2>1. \A n \in B : n \in Seqnos /\ P1[n].vf = "parked" /\ P1[n].ref # 2
    BY DEF BackPts
  <2>2. \A n \in B : c.usage = "driver"
    BY <1>2, <1>6, <2>1 DEF PointOK
  <2> QED
    BY <1>3, <1>6, <2>1, <2>2, FrameRefs
<1>8. \A n \in Seqnos : P2[n] = IF n \in B THEN [P1[n] EXCEPT !.vf = "none"] ELSE P1[n]
  BY DEF BackVf
<1>9. P2 \in [Seqnos -> PtRecords] /\ \A n \in Seqnos : P2[n].ref = P1[n].ref
  <2>1. \A p \in PtRecords : [p EXCEPT !.vf = "none"] \in PtRecords /\ [p EXCEPT !.vf = "none"].ref = p.ref
    BY DEF PtRecords
  <2>2. \A n \in Seqnos : P2[n] \in PtRecords /\ P2[n].ref = P1[n].ref
    BY <1>3, <1>8, <2>1
  <2> QED
    BY <2>2 DEF BackVf
<1>10. Living(P2) = Living(P) /\ B \in SUBSET Living(P)
  BY <1>4, <1>7, <1>9 DEF Living
<1>11. PICK o2, Q : o2 = Released(o1, LastRef(P2, B)) /\ Q = PutPts(P2, B)
  OBVIOUS
<1>12. /\ AfterPut(o1, P2, B, Owed(c, d2, k), o2, Q)
       /\ TypesOK(c, o2, Q, d2, k) /\ ListOK(o2, Q) /\ KrefOK(c, o2, d2, k)
  <2>1. Owed(c, d2, k) = Owed(c, d, k)
    BY <1>1 DEF Owed
  <2>2. d2.st # "new" /\ (d2.posted # 0 => d2.st = "open")
    OBVIOUS
  <2> QED
    BY <1>1, <1>3, <1>9, <1>10, <1>11, <2>1, <2>2, KeptInst
<1>13. /\ \A n \in B : Q[n] = PutPt([P1[n] EXCEPT !.vf = "none"])
       /\ \A n \in Seqnos : n \notin B => Q[n] = P1[n]
       /\ o2.value = o1.value
  BY <1>7, <1>8, <1>12 DEF AfterPut
<1>14. \A n \in B : Q[n].ref = 0 /\ Q[n].vf = "none" /\ ~Q[n].lost /\ ~P1[n].lost /\ PointOK(c, Q[n])
  <2>1. ASSUME NEW n \in B PROVE GoesBack(c, P1[n], Q[n]) /\ P1[n] \in PtRecords
    BY <1>6, <1>7, <1>13 DEF GoesBack
  <2> QED
    BY <2>1, BackPt
<1>15. \A n \in Seqnos : PointOK(c, Q[n])
  BY <1>6, <1>13, <1>14
<1>16. \A n \in Living(Q) : n \in Seqnos /\ n \notin B /\ Q[n] = P1[n] /\ n \in Living(P)
  BY <1>4, <1>13, <1>14 DEF Living
<1>17. SweepOK(c, Q, d2, k)
  <2>1. SweepOK(c, P, d, k)
    BY DEF InstOK
  <2>2. Torn(c, d2, k) <=> Torn(c, d, k)
    BY <1>1 DEF Torn
  <2>3. ASSUME NEW n \in Living(Q), Q[n].vf = "none", Q[n].disp PROVE Q[n].error
    <3>1. n \in Seqnos /\ P[n].vf = "none" /\ P[n].disp /\ n \in Living(P) /\ Q[n] = P1[n]
      BY <1>4, <1>16, <2>3
    <3>2. c.usage = "driver"
      BY <1>2, <1>5, <3>1 DEF PointOK
    <3>3. n # d.posted
      BY <1>1, <3>1, <3>2
    <3> QED
      BY <1>1, <1>4, <2>1, <3>1, <3>3 DEF SweepOK
  <2>4. ASSUME NEW n \in Living(Q), Torn(c, d, k) PROVE Q[n].vf = "none" /\ Q[n].disp
    BY <1>4, <1>16, <2>1, <2>4 DEF SweepOK
  <2> QED
    BY <2>2, <2>3, <2>4 DEF SweepOK
<1>18. SignalOK(c, o2, Q, d2)
  <2>1. SignalOK(c, o, P, d)
    BY DEF InstOK
  <2>2. \A n \in o1.active : n \in Living(P2) /\ n > o1.value
    BY <1>3, <1>10, <2>1 DEF SignalOK
  <2>3. o1.active \in SUBSET Seqnos
    BY <1>2, <1>3
  <2>4. \A n \in o2.active : n \in Living(Q) /\ n > o2.value
    BY <1>12, <2>2, <2>3, ActiveAfter
  <2>5. \A n \in Seqnos : P[n].lost => Q[n].lost
    BY <1>4, <1>13, <1>14
  <2>6. (\E m \in Seqnos : P[m].lost) => (\E m \in Seqnos : Q[m].lost)
    BY <2>5
  <2>7. ASSUME NEW n \in Living(Q)
        PROVE  /\ Q[n].lost \/ Q[n].decoded
               /\ Q[n].decoded => n <= o2.value \/ \E m \in Seqnos : Q[m].lost
    <3>1. n \in Seqnos /\ Q[n] = P1[n] /\ n \in Living(P) /\ n \in Nat
      BY <1>16, Finite DEF Seqnos
    <3>2. CASE n # d.posted
      <4>1. P1[n] = P[n] /\ (P[n].lost \/ P[n].decoded)
            /\ (P[n].decoded => n <= o.value \/ \E m \in Seqnos : P[m].lost)
        BY <1>1, <1>4, <2>1, <3>1, <3>2 DEF SignalOK
      <4>2. n <= o.value => n <= o2.value
        BY <1>2, <1>3, <1>13, <3>1
      <4> QED
        BY <2>6, <3>1, <4>1, <4>2
    <3>3. CASE n = d.posted
      <4>1. P[n].ref > 0 /\ Q[n].decoded
        BY <1>3, <3>1, <3>3 DEF Living
      <4>2. n = o.value + 1 \/ \E m \in Seqnos : P[m].lost
        BY <1>1, <2>1, <3>3, <4>1 DEF SignalOK
      <4>3. o2.value = o.value + 1
        BY <1>3, <1>13, <3>3, <4>1
      <4> QED
        BY <1>2, <2>6, <3>1, <4>1, <4>2, <4>3
    <3> QED
      BY <3>2, <3>3
  <2> QED
    BY <2>4, <2>7 DEF SignalOK
<1>19. BusyOK(c, Q, d2)
  <2>1. Using(Q) \in SUBSET Using(P)
    BY <1>4, <1>13, <1>14 DEF Using
  <2>2. BusyOK(c, P, d)
    BY DEF InstOK
  <2> QED
    BY <1>1, <1>2, <2>1, <2>2, FewerBusy
<1>20. InstOK(c, o2, Q, d2, k)
  BY <1>12, <1>15, <1>17, <1>18, <1>19 DEF InstOK
<1> QED
  BY <1>11, <1>20

-----------------------------------------------------------------------------
(* All instances: a step of one leaves the others alone *)

Frame(i) == /\ setup' = setup /\ tl' = [tl EXCEPT ![i] = tl'[i]] /\ pt' = [pt EXCEPT ![i] = pt'[i]]
            /\ drv' = [drv EXCEPT ![i] = drv'[i]] /\ dec' = [dec EXCEPT ![i] = dec'[i]]

\* What the other instances are is what they were.
LEMMA FrameIs ==
    ASSUME Inv, NEW i \in Insts, Frame(i)
    PROVE  \A j \in Insts : j # i => /\ setup'[j] = setup[j] /\ tl'[j] = tl[j] /\ pt'[j] = pt[j]
                                     /\ drv'[j] = drv[j] /\ dec'[j] = dec[j]
BY DEF Inv, Domains, Frame

\* A step of one instance leaves the others' part of the invariant alone.
LEMMA FrameOK ==
    ASSUME Inv, NEW i \in Insts, Frame(i), InstOK(setup[i], tl'[i], pt'[i], drv'[i], dec'[i])
    PROVE  Domains' /\ \A j \in Insts : Inst(j)'
<1>1. tl'[i] \in Timelines /\ pt'[i] \in [Seqnos -> PtRecords] /\ drv'[i] \in Drivers /\ dec'[i] \in {0, 1}
  BY DEF InstOK, TypesOK
<1>2. /\ setup \in [Insts -> SetupRecords] /\ tl \in [Insts -> Timelines]
      /\ pt \in [Insts -> [Seqnos -> PtRecords]] /\ drv \in [Insts -> Drivers] /\ dec \in [Insts -> {0, 1}]
  BY DEF Inv, Domains
<1>3. /\ setup' \in [Insts -> SetupRecords] /\ tl' \in [Insts -> Timelines]
      /\ pt' \in [Insts -> [Seqnos -> PtRecords]] /\ drv' \in [Insts -> Drivers] /\ dec' \in [Insts -> {0, 1}]
  BY <1>1, <1>2 DEF Frame
<1>4. Domains'
  BY <1>3 DEF Domains
<1>5. ASSUME NEW j \in Insts PROVE Inst(j)'
  <2>1. CASE j = i
    BY <2>1 DEF Inst, Frame
  <2>2. CASE j # i
    <3>1. /\ setup'[j] = setup[j] /\ tl'[j] = tl[j] /\ pt'[j] = pt[j] /\ drv'[j] = drv[j] /\ dec'[j] = dec[j]
      BY <2>2, FrameIs
    <3>2. InstOK(setup[j], tl[j], pt[j], drv[j], dec[j])
      BY DEF Inv, Inst
    <3> QED
      BY <3>1, <3>2 DEF Inst
  <2> QED
    BY <2>1, <2>2
<1> QED
  BY <1>4, <1>5

\* The slots of a step that does not change them
LEMMA SlotsKept ==
    ASSUME Inv, NEW i \in Insts, Frame(i), sync' = sync, tl'[i].st = tl[i].st,
           drv'[i].sync = drv[i].sync, drv'[i].bufs = drv[i].bufs
    PROVE  SlotsOK'
<1>1. \A j \in Insts : tl'[j].st = tl[j].st /\ drv'[j].sync = drv[j].sync /\ drv'[j].bufs = drv[j].bufs
  BY FrameIs
<1>2. SlotsOK /\ Null \notin Insts
  BY InstAssumption DEF Inv
<1>3. \A s \in Slots : sync[s].timeline \in Insts \cup {Null}
  BY <1>2 DEF SlotsOK
<1> QED
  BY <1>1, <1>2, <1>3 DEF SlotsOK

\* A slot without a time line counts no buffers
LEMMA EmptySlot ==
    ASSUME SlotsOK, NEW t \in Slots, sync[t].timeline = Null
    PROVE  sync[t].buffer_count = 0
BY DEF SlotsOK

\* The slots when the timeline may be freed
LEMMA SlotsAfterPut ==
    ASSUME Inv, NEW i \in Insts, Frame(i), InstOK(setup[i], tl'[i], pt'[i], drv'[i], dec'[i]),
           tl[i].st = "live", tl'[i].st \in {"live", "freed"},
           drv'[i].sync = drv[i].sync, drv'[i].bufs = drv[i].bufs,
           sync' = IF tl'[i].st # "freed" THEN sync ELSE [sync EXCEPT ![drv[i].sync].timeline = Null]
    PROVE  SlotsOK'
<1>1. SlotsOK /\ Null \notin Insts
  BY InstAssumption DEF Inv
<1>2. CASE tl'[i].st # "freed"
  BY <1>2, SlotsKept
<1>3. CASE tl'[i].st = "freed"
  <2>1. drv'[i].bufs = 0
    <3>1. ~(drv'[i].bufs > 0) /\ drv'[i].bufs \in Nat
      BY <1>3, KrefIs, InstTypes
    <3> QED
      BY <3>1
  <2>2. PICK s \in Slots : s = drv[i].sync /\ sync[s].timeline = i /\ sync[s].buffer_count = 0
    <3>1. drv[i].sync \in Slots /\ sync[drv[i].sync].timeline = i /\ sync[drv[i].sync].buffer_count = drv[i].bufs
      BY <1>1 DEF SlotsOK
    <3>2. drv[i].bufs = 0
      BY <2>1
    <3> QED
      BY <3>1, <3>2
  <2>3. /\ sync' = [sync EXCEPT ![s].timeline = Null]
        /\ sync \in [Slots -> [timeline : Insts \cup {Null}, buffer_count : Nat]]
    BY <1>1, <1>3, <2>2 DEF SlotsOK
  <2>4. /\ sync' \in [Slots -> [timeline : Insts \cup {Null}, buffer_count : Nat]]
        /\ sync'[s].timeline = Null /\ sync'[s].buffer_count = 0
        /\ \A t \in Slots : t # s => sync'[t] = sync[t]
    BY <2>2, <2>3
  <2>5. \A j \in Insts : j # i => tl'[j].st = tl[j].st /\ drv'[j].sync = drv[j].sync /\ drv'[j].bufs = drv[j].bufs
    BY FrameIs
  <2>6. ASSUME NEW j \in Insts, tl'[j].st = "live"
        PROVE  /\ drv'[j].sync \in Slots /\ sync'[drv'[j].sync].timeline = j
               /\ sync'[drv'[j].sync].buffer_count = drv'[j].bufs
    <3>1. j # i
      BY <1>3, <2>6
    <3>2. tl[j].st = "live" /\ drv'[j].sync = drv[j].sync /\ drv'[j].bufs = drv[j].bufs
      BY <2>5, <2>6, <3>1
    <3>3. drv[j].sync \in Slots /\ sync[drv[j].sync].timeline = j /\ sync[drv[j].sync].buffer_count = drv[j].bufs
      BY <1>1, <3>2 DEF SlotsOK
    <3>4. drv[j].sync # s
      BY <2>2, <3>1, <3>3
    <3> QED
      BY <2>4, <3>2, <3>3, <3>4
  <2>7. ASSUME NEW t \in Slots
        PROVE  IF sync'[t].timeline = Null THEN sync'[t].buffer_count = 0
               ELSE tl'[sync'[t].timeline].st = "live" /\ drv'[sync'[t].timeline].sync = t
    <3>1. CASE t = s
      BY <2>4, <3>1
    <3>2. CASE t # s
      <4>1. PICK j \in Insts \cup {Null} : j = sync[t].timeline /\ sync'[t] = sync[t]
        BY <2>3, <2>4, <3>2
      <4>2. CASE j = Null
        <5>1. sync[t].buffer_count = 0
          BY <1>1, <4>1, <4>2, EmptySlot
        <5> QED
          BY <4>1, <4>2, <5>1
      <4>3. CASE j # Null
        <5>1. tl[j].st = "live" /\ drv[j].sync = t /\ j \in Insts
          BY <1>1, <4>1, <4>3 DEF SlotsOK
        <5>2. j # i
          BY <2>2, <3>2, <5>1
        <5> QED
          BY <2>5, <4>1, <4>3, <5>1, <5>2
      <4> QED
        BY <4>2, <4>3
    <3> QED
      BY <3>1, <3>2
  <2> QED
    BY <2>4, <2>6, <2>7 DEF SlotsOK
<1> QED
  BY <1>2, <1>3

\* The slots when a buffer is counted
LEMMA SlotsCounted ==
    ASSUME Inv, NEW i \in Insts, Frame(i), tl[i].st = "live", tl'[i].st = "live",
           drv'[i].sync = drv[i].sync, NEW b \in Nat, drv'[i].bufs = b,
           sync' = [sync EXCEPT ![drv[i].sync].buffer_count = b]
    PROVE  SlotsOK'
<1>1. SlotsOK /\ Null \notin Insts
  BY InstAssumption DEF Inv
<1>2. PICK s \in Slots : s = drv[i].sync /\ sync[s].timeline = i
  BY <1>1 DEF SlotsOK
<1>3. sync \in [Slots -> [timeline : Insts \cup {Null}, buffer_count : Nat]]
  BY <1>1 DEF SlotsOK
<1>4. /\ sync' \in [Slots -> [timeline : Insts \cup {Null}, buffer_count : Nat]]
      /\ sync'[s].timeline = i /\ sync'[s].buffer_count = b
      /\ \A t \in Slots : t # s => sync'[t] = sync[t]
  BY <1>2, <1>3
<1>5. \A j \in Insts : j # i => tl'[j].st = tl[j].st /\ drv'[j].sync = drv[j].sync /\ drv'[j].bufs = drv[j].bufs
  BY FrameIs
<1>6. ASSUME NEW j \in Insts, tl'[j].st = "live"
      PROVE  /\ drv'[j].sync \in Slots /\ sync'[drv'[j].sync].timeline = j
             /\ sync'[drv'[j].sync].buffer_count = drv'[j].bufs
  <2>1. CASE j = i
    BY <1>2, <1>4, <2>1
  <2>2. CASE j # i
    <3>1. tl[j].st = "live" /\ drv'[j].sync = drv[j].sync /\ drv'[j].bufs = drv[j].bufs
      BY <1>5, <1>6, <2>2
    <3>2. drv[j].sync \in Slots /\ sync[drv[j].sync].timeline = j /\ sync[drv[j].sync].buffer_count = drv[j].bufs
      BY <1>1, <3>1 DEF SlotsOK
    <3>3. drv[j].sync # s
      BY <1>2, <2>2, <3>2
    <3> QED
      BY <1>4, <3>1, <3>2, <3>3
  <2> QED
    BY <2>1, <2>2
<1>7. ASSUME NEW t \in Slots
      PROVE  IF sync'[t].timeline = Null THEN sync'[t].buffer_count = 0
             ELSE tl'[sync'[t].timeline].st = "live" /\ drv'[sync'[t].timeline].sync = t
  <2>1. CASE t = s
    BY <1>1, <1>2, <1>4, <2>1
  <2>2. CASE t # s
    <3>1. PICK j \in Insts \cup {Null} : j = sync[t].timeline /\ sync'[t] = sync[t]
      BY <1>3, <1>4, <2>2
    <3>2. CASE j = Null
      <4>1. sync[t].buffer_count = 0
        BY <1>1, <3>1, <3>2, EmptySlot
      <4> QED
        BY <3>1, <3>2, <4>1
    <3>3. CASE j # Null
      <4>1. tl[j].st = "live" /\ drv[j].sync = t /\ j \in Insts
        BY <1>1, <3>1, <3>3 DEF SlotsOK
      <4>2. j # i
        BY <1>2, <2>2, <4>1
      <4> QED
        BY <1>5, <3>1, <3>3, <4>1, <4>2
    <3> QED
      BY <3>2, <3>3
  <2> QED
    BY <2>1, <2>2
<1> QED
  BY <1>4, <1>6, <1>7 DEF SlotsOK

\* A step that puts points of one instance
LEMMA UpdateOK ==
    ASSUME Inv, NEW i \in Insts, NEW o, NEW P, NEW N, Update(i, o, P, N), setup' = setup,
           drv' = [drv EXCEPT ![i] = drv'[i]], dec' = [dec EXCEPT ![i] = dec'[i]],
           drv'[i].sync = drv[i].sync, drv'[i].bufs = drv[i].bufs, tl[i].st = "live",
           InstOK(setup[i], Released(o, LastRef(P, N)), PutPts(P, N), drv'[i], dec'[i]),
           Released(o, LastRef(P, N)).st # "none"
    PROVE  Inv'
<1>1. PICK o2, Q : o2 = Released(o, LastRef(P, N)) /\ Q = PutPts(P, N)
  OBVIOUS
<1>2. /\ tl' = [tl EXCEPT ![i] = o2] /\ pt' = [pt EXCEPT ![i] = Q]
      /\ sync' = IF o2.st # "freed" THEN sync ELSE [sync EXCEPT ![drv[i].sync].timeline = Null]
  BY <1>1 DEF Update
<1>3. tl'[i] = o2 /\ pt'[i] = Q
  BY <1>2 DEF Inv, Domains
<1>4. Frame(i)
  BY <1>2, <1>3 DEF Frame
<1>5. InstOK(setup[i], tl'[i], pt'[i], drv'[i], dec'[i])
  BY <1>1, <1>3
<1>6. tl'[i].st \in {"live", "freed"}
  <2>1. tl'[i].st \in {"none", "live", "freed"}
    BY <1>5, InstTypes
  <2> QED
    BY <1>1, <1>3, <2>1
<1>7. SlotsOK'
  BY <1>2, <1>3, <1>4, <1>5, <1>6, SlotsAfterPut
<1> QED
  BY <1>4, <1>5, <1>7, FrameOK DEF Inv

\* An instance that was probed stays so.
LEMMA NotNone ==
    ASSUME NEW c, NEW o, NEW P, NEW d, NEW k, InstOK(c, o, P, d, k), d.sync # Null
    PROVE  o.st # "none"
BY DEF InstOK, KrefOK

-----------------------------------------------------------------------------
(* The steps *)

\* The instance, and the functions its fields are in
LEMMA InvIs ==
    ASSUME Inv, NEW i \in Insts
    PROVE  /\ InstOK(setup[i], tl[i], pt[i], drv[i], dec[i])
           /\ setup \in [Insts -> SetupRecords] /\ tl \in [Insts -> Timelines]
           /\ pt \in [Insts -> [Seqnos -> PtRecords]] /\ drv \in [Insts -> Drivers]
           /\ dec \in [Insts -> {0, 1}]
           /\ tl[i].st = "live" => drv[i].sync # Null
BY InstAssumption DEF Inv, Inst, Domains, SlotsOK

\* The display lets go of a fence.
LEMMA StepDisplayDrop ==
    ASSUME Inv, NEW i \in Insts, NEW n \in Seqnos, DisplayDrop(i, n) PROVE Inv'
<1>1. /\ InstOK(setup[i], tl[i], pt[i], drv[i], dec[i]) /\ drv \in [Insts -> Drivers] /\ dec \in [Insts -> {0, 1}]
  BY InvIs
<1>2. /\ pt[i][n].disp /\ pt[i][n].ref > 0 /\ setup' = setup /\ drv' = drv /\ dec' = dec
      /\ Update(i, tl[i], [pt[i] EXCEPT ![n].disp = FALSE], {n})
  BY DEF DisplayDrop
<1>3. tl[i].st = "live" /\ drv[i].sync # Null
  BY <1>1, <1>2, KrefIs, InvIs DEF Living
<1>4. PICK P1 : P1 = [pt[i] EXCEPT ![n].disp = FALSE]
  OBVIOUS
<1>5. InstOK(setup[i], Released(tl[i], LastRef(P1, {n})), PutPts(P1, {n}), drv[i], dec[i])
  BY <1>1, <1>2, <1>4, DropInst
<1>6. Released(tl[i], LastRef(P1, {n})).st # "none"
  BY <1>3, <1>5, NotNone
<1> QED
  BY <1>1, <1>2, <1>3, <1>4, <1>5, <1>6, UpdateOK

\* The application closes its file descriptor.
LEMMA StepClose ==
    ASSUME Inv, NEW i \in Insts, NEW n \in Seqnos, Close(i, n) PROVE Inv'
<1>1. /\ InstOK(setup[i], tl[i], pt[i], drv[i], dec[i]) /\ drv \in [Insts -> Drivers] /\ dec \in [Insts -> {0, 1}]
  BY InvIs
<1>2. /\ pt[i][n].fd /\ pt[i][n].ref > 0 /\ setup' = setup /\ drv' = drv /\ dec' = dec
      /\ Update(i, tl[i], [pt[i] EXCEPT ![n].fd = FALSE], {n})
  BY DEF Close
<1>3. tl[i].st = "live" /\ drv[i].sync # Null
  BY <1>1, <1>2, KrefIs, InvIs DEF Living
<1>4. PICK P1 : P1 = [pt[i] EXCEPT ![n].fd = FALSE]
  OBVIOUS
<1>5. InstOK(setup[i], Released(tl[i], LastRef(P1, {n})), PutPts(P1, {n}), drv[i], dec[i])
  BY <1>1, <1>2, <1>4, CloseInst
<1>6. Released(tl[i], LastRef(P1, {n})).st # "none"
  BY <1>3, <1>5, NotNone
<1> QED
  BY <1>1, <1>2, <1>3, <1>4, <1>5, <1>6, UpdateOK

\* A frame comes back, and is parked or not.
LEMMA StepVfPut ==
    ASSUME Inv, NEW i \in Insts, NEW n \in Seqnos, VfPut(i, n) PROVE Inv'
<1>1. /\ InstOK(setup[i], tl[i], pt[i], drv[i], dec[i]) /\ drv \in [Insts -> Drivers] /\ dec \in [Insts -> {0, 1}]
  BY InvIs
<1>2. /\ drv[i].st = "open" /\ pt[i][n].vf = "shown" /\ setup' = setup /\ drv' = drv /\ dec' = dec
  BY DEF VfPut
<1>3. tl[i].st = "live" /\ drv[i].sync # Null
  BY <1>1, <1>2, KrefIs, InvIs
<1>4. PICK st : st = Status(tl[i], pt[i][n], n)
  OBVIOUS
<1>5. PICK parks \in BOOLEAN : parks <=> (setup[i].usage = "driver" /\ (st = 0 \/ (st = 1 /\ pt[i][n].ref = 2)))
  OBVIOUS
<1>6. PICK v : v = IF parks THEN "parked" ELSE "none"
  OBVIOUS
<1>7. PICK drop : drop = IF parks \/ setup[i].usage = "app" THEN {} ELSE {n}
  OBVIOUS
<1>8. PICK P1 : P1 = [pt[i] EXCEPT ![n].vf = v]
  OBVIOUS
<1>9. Update(i, tl[i], P1, drop)
  BY <1>4, <1>5, <1>6, <1>7, <1>8 DEF VfPut
<1>10. setup[i].usage \in {"driver", "app"} /\ tl[i].value \in Nat /\ n \in Nat /\ pt[i][n] \in PtRecords
  BY <1>1, InstTypes, Finite DEF Seqnos
<1>11. InstOK(setup[i], Released(tl[i], LastRef(P1, drop)), PutPts(P1, drop), drv[i], dec[i])
  <2>1. CASE parks \/ setup[i].usage = "app"
    <3>1. drop = {} /\ (setup[i].usage = "driver" => v = "parked") /\ (setup[i].usage = "app" => v = "none")
      BY <1>5, <1>6, <1>7, <2>1
    <3> QED
      BY <1>1, <1>2, <1>8, <3>1, VfKeepInst
  <2>2. CASE ~parks /\ setup[i].usage # "app"
    <3>1. drop = {n} /\ v = "none" /\ setup[i].usage = "driver" /\ st # 0 /\ ~(st = 1 /\ pt[i][n].ref = 2)
      BY <1>5, <1>6, <1>7, <1>10, <2>2
    <3>2. pt[i][n].error \in BOOLEAN
      BY <1>10, PtTypes
    <3>3. ~(n > tl[i].value) /\ ~(n <= tl[i].value /\ ~pt[i][n].error /\ pt[i][n].ref = 2)
      BY <1>4, <1>10, <3>1, <3>2, StatusIs
    <3>4. n <= tl[i].value /\ (pt[i][n].ref = 2 => pt[i][n].error)
      BY <1>10, <3>3
    <3> QED
      BY <1>1, <1>2, <1>8, <3>1, <3>4, VfDropInst
  <2> QED
    BY <2>1, <2>2
<1>12. Released(tl[i], LastRef(P1, drop)).st # "none"
  BY <1>3, <1>11, NotNone
<1> QED
  BY <1>1, <1>2, <1>3, <1>9, <1>11, <1>12, UpdateOK

\* The display waits for a fence.
LEMMA StepDisplayTake ==
    ASSUME Inv, NEW i \in Insts, NEW n \in Seqnos, DisplayTake(i, n) PROVE Inv'
<1>1. /\ InstOK(setup[i], tl[i], pt[i], drv[i], dec[i]) /\ drv \in [Insts -> Drivers] /\ dec \in [Insts -> {0, 1}]
      /\ tl \in [Insts -> Timelines] /\ pt \in [Insts -> [Seqnos -> PtRecords]]
  BY InvIs
<1>2. /\ setup[i].usage = "driver" /\ pt[i][n].vf = "shown" /\ pt[i][n].ref > 0 /\ ~pt[i][n].disp
      /\ pt' = [pt EXCEPT ![i][n].ref = @ + 1, ![i][n].disp = TRUE]
      /\ tl' = [tl EXCEPT ![i].active = IF Signaled(tl[i], n) THEN @ ELSE @ \cup {n}]
      /\ setup' = setup /\ sync' = sync /\ drv' = drv /\ dec' = dec
  BY DEF DisplayTake
<1>3. PICK P1 : P1 = [pt[i] EXCEPT ![n].ref = @ + 1, ![n].disp = TRUE]
  OBVIOUS
<1>4. pt' = [pt EXCEPT ![i] = P1] /\ pt'[i] = P1
  BY <1>1, <1>2, <1>3
<1>5. PICK a : a = [tl[i] EXCEPT !.active = @ \cup {n}]
  OBVIOUS
<1>6. tl[i] \in Timelines /\ tl[i].value \in Nat /\ n \in Nat /\ pt[i][n].ref \in Nat
  <2>1. tl[i] \in Timelines /\ tl[i].value \in Nat
    BY <1>1, InstTypes
  <2>2. n \in Nat
    BY Finite DEF Seqnos
  <2>3. pt[i][n] \in PtRecords
    BY <1>1
  <2>4. pt[i][n].ref \in Nat
    BY <2>3, PtTypes
  <2> QED
    BY <2>1, <2>2, <2>4
<1>7. tl' = [tl EXCEPT ![i] = tl'[i]] /\ tl'[i] = (IF n <= tl[i].value THEN tl[i] ELSE a) /\ tl'[i].st = tl[i].st
  <2>1. PICK A : A = IF Signaled(tl[i], n) THEN tl[i].active ELSE tl[i].active \cup {n}
    OBVIOUS
  <2>2. tl' = [tl EXCEPT ![i].active = A]
    BY <1>1, <1>2, <2>1
  <2>3. tl'[i] = [tl[i] EXCEPT !.active = A] /\ tl' = [tl EXCEPT ![i] = tl'[i]]
    BY <1>1, <2>2
  <2>4. Signaled(tl[i], n) <=> n <= tl[i].value
    BY DEF Signaled
  <2>5. [tl[i] EXCEPT !.active = tl[i].active] = tl[i]
    BY <1>6 DEF Timelines
  <2>6. tl'[i].st = tl[i].st
    BY <1>6, <2>3 DEF Timelines
  <2>7. CASE n <= tl[i].value
    BY <2>1, <2>3, <2>4, <2>5, <2>6, <2>7
  <2>8. CASE ~(n <= tl[i].value)
    BY <1>5, <2>1, <2>3, <2>4, <2>6, <2>8
  <2> QED
    BY <2>7, <2>8
<1>8. InstOK(setup[i], tl[i], P1, drv[i], dec[i])
  BY <1>1, <1>2, <1>3, TakeInst
<1>9. P1[n].ref > 0
  <2>1. P1[n].ref = pt[i][n].ref + 1
    BY <1>1, <1>3 DEF PtRecords
  <2> QED
    BY <1>6, <2>1
<1>10. InstOK(setup[i], tl'[i], P1, drv[i], dec[i])
  <2>1. CASE n <= tl[i].value
    BY <1>7, <1>8, <2>1
  <2>2. CASE ~(n <= tl[i].value)
    <3>1. n > tl[i].value
      BY <1>6, <2>2
    <3> QED
      BY <1>5, <1>7, <1>8, <1>9, <2>2, <3>1, ActiveInst
  <2> QED
    BY <2>1, <2>2
<1>11. Frame(i) /\ InstOK(setup[i], tl'[i], pt'[i], drv'[i], dec'[i])
  BY <1>1, <1>2, <1>4, <1>7, <1>10 DEF Frame
<1>12. SlotsOK'
  BY <1>2, <1>7, <1>11, SlotsKept
<1> QED
  BY <1>11, <1>12, FrameOK DEF Inv

\* The application waits for a fence.
LEMMA StepPoll ==
    ASSUME Inv, NEW i \in Insts, NEW n \in Seqnos, Poll(i, n) PROVE Inv'
<1>1. /\ InstOK(setup[i], tl[i], pt[i], drv[i], dec[i]) /\ drv \in [Insts -> Drivers] /\ dec \in [Insts -> {0, 1}]
      /\ tl \in [Insts -> Timelines] /\ pt \in [Insts -> [Seqnos -> PtRecords]]
  BY InvIs
<1>2. /\ pt[i][n].ref > 0 /\ ~Signaled(tl[i], n)
      /\ tl' = [tl EXCEPT ![i].active = @ \cup {n}]
      /\ setup' = setup /\ sync' = sync /\ drv' = drv /\ dec' = dec /\ pt' = pt
  BY DEF Poll
<1>3. PICK a : a = [tl[i] EXCEPT !.active = @ \cup {n}]
  OBVIOUS
<1>4. tl[i] \in Timelines /\ tl[i].value \in Nat /\ n \in Nat
  BY <1>1, InstTypes, Finite DEF Seqnos
<1>5. tl' = [tl EXCEPT ![i] = a] /\ tl'[i] = a /\ a.st = tl[i].st
  BY <1>1, <1>2, <1>3, <1>4 DEF Timelines
<1>6. n > tl[i].value
  BY <1>2, <1>4 DEF Signaled
<1>7. InstOK(setup[i], a, pt[i], drv[i], dec[i])
  BY <1>1, <1>2, <1>3, <1>6, ActiveInst
<1>8. Frame(i) /\ InstOK(setup[i], tl'[i], pt'[i], drv'[i], dec'[i])
  BY <1>1, <1>2, <1>5, <1>7 DEF Frame
<1>9. SlotsOK'
  BY <1>2, <1>5, <1>8, SlotsKept
<1> QED
  BY <1>8, <1>9, FrameOK DEF Inv

\* An instance gets a slot and a timeline, or fails to open.
LEMMA StepProbe ==
    ASSUME Inv, NEW i \in Insts, Probe(i) PROVE Inv'
<1>1. /\ InstOK(setup[i], tl[i], pt[i], drv[i], dec[i]) /\ drv \in [Insts -> Drivers] /\ dec \in [Insts -> {0, 1}]
      /\ tl \in [Insts -> Timelines] /\ pt \in [Insts -> [Seqnos -> PtRecords]]
  BY InvIs
<1>2. drv[i].st = "new" /\ setup' = setup /\ pt' = pt /\ dec' = dec
  BY DEF Probe
<1>3. /\ tl[i].st = "none" /\ drv[i].bufs = 0 /\ drv[i].sync = Null /\ drv[i] \in Drivers /\ tl[i] \in Timelines
  <2>1. tl[i] = NoTimeline /\ drv[i].bufs = 0 /\ drv[i].sync = Null
    BY <1>1, <1>2, NewIs
  <2>2. NoTimeline.st = "none"
    BY DEF NoTimeline
  <2>3. drv[i] \in Drivers /\ tl[i] \in Timelines
    BY <1>1
  <2> QED
    BY <2>1, <2>2, <2>3
<1>4. CASE drv' = [drv EXCEPT ![i].st = "closed"] /\ sync' = sync /\ tl' = tl
  <2>1. PICK d2 : d2 = [drv[i] EXCEPT !.st = "closed"]
    OBVIOUS
  <2>2. drv' = [drv EXCEPT ![i] = d2] /\ drv'[i] = d2 /\ d2.sync = drv[i].sync /\ d2.bufs = drv[i].bufs
    BY <1>1, <1>3, <1>4, <2>1 DEF Drivers
  <2>3. InstOK(setup[i], tl[i], pt[i], d2, dec[i])
    BY <1>1, <1>2, <2>1, NoProbeInst
  <2>4. Frame(i) /\ InstOK(setup[i], tl'[i], pt'[i], drv'[i], dec'[i])
    BY <1>1, <1>2, <1>4, <2>2, <2>3 DEF Frame
  <2>5. SlotsOK'
    BY <1>4, <2>2, <2>4, SlotsKept
  <2> QED
    BY <2>4, <2>5, FrameOK DEF Inv
<1>5. ASSUME NEW s \in Slots, sync[s].timeline = Null,
             drv' = [drv EXCEPT ![i].st = "open", ![i].sync = s],
             sync' = [sync EXCEPT ![s].timeline = i],
             tl' = [tl EXCEPT ![i].st = "live", ![i].kref = IF setup[i].v4l THEN 2 ELSE 1]
      PROVE  Inv'
  <2>1. PICK d2 : d2 = [drv[i] EXCEPT !.st = "open", !.sync = s]
    OBVIOUS
  <2>2. PICK o2 : o2 = [tl[i] EXCEPT !.st = "live", !.kref = IF setup[i].v4l THEN 2 ELSE 1]
    OBVIOUS
  <2>3. drv' = [drv EXCEPT ![i] = d2] /\ drv'[i] = d2 /\ d2.sync = s /\ d2.bufs = 0
    BY <1>1, <1>3, <1>5, <2>1 DEF Drivers
  <2>4. tl' = [tl EXCEPT ![i] = o2] /\ tl'[i] = o2 /\ o2.st = "live"
    BY <1>1, <1>3, <1>5, <2>2 DEF Timelines
  <2>5. InstOK(setup[i], o2, pt[i], d2, dec[i])
    BY <1>1, <1>2, <2>1, <2>2, ProbeInst
  <2>6. Frame(i) /\ InstOK(setup[i], tl'[i], pt'[i], drv'[i], dec'[i])
    BY <1>1, <1>2, <2>3, <2>4, <2>5 DEF Frame
  <2>7. SlotsOK'
    <3>1. SlotsOK /\ Null \notin Insts
      BY InstAssumption DEF Inv
    <3>2. sync \in [Slots -> [timeline : Insts \cup {Null}, buffer_count : Nat]] /\ sync[s].buffer_count = 0
      BY <1>5, <3>1 DEF SlotsOK
    <3>3. /\ sync' \in [Slots -> [timeline : Insts \cup {Null}, buffer_count : Nat]]
          /\ sync'[s].timeline = i /\ sync'[s].buffer_count = 0
          /\ \A t \in Slots : t # s => sync'[t] = sync[t]
      BY <1>5, <3>2
    <3>4. \A j \in Insts : j # i => tl'[j] = tl[j] /\ drv'[j] = drv[j]
      BY <2>6, FrameIs
    <3>5. ASSUME NEW j \in Insts, tl'[j].st = "live"
          PROVE  /\ drv'[j].sync \in Slots /\ sync'[drv'[j].sync].timeline = j
                 /\ sync'[drv'[j].sync].buffer_count = drv'[j].bufs
      <4>1. CASE j = i
        BY <2>3, <3>3, <4>1
      <4>2. CASE j # i
        <5>1. drv[j].sync \in Slots /\ sync[drv[j].sync].timeline = j
              /\ sync[drv[j].sync].buffer_count = drv[j].bufs /\ drv'[j] = drv[j]
          BY <3>1, <3>4, <3>5, <4>2 DEF SlotsOK
        <5>2. drv[j].sync # s
          BY <1>5, <3>1, <5>1
        <5> QED
          BY <3>3, <5>1, <5>2
      <4> QED
        BY <4>1, <4>2
    <3>6. ASSUME NEW t \in Slots
          PROVE  IF sync'[t].timeline = Null THEN sync'[t].buffer_count = 0
                 ELSE tl'[sync'[t].timeline].st = "live" /\ drv'[sync'[t].timeline].sync = t
      <4>1. CASE t = s
        BY <2>3, <2>4, <3>1, <3>3, <4>1
      <4>2. CASE t # s
        <5>1. PICK j \in Insts \cup {Null} : j = sync[t].timeline /\ sync'[t] = sync[t]
          BY <3>2, <3>3, <4>2
        <5>2. CASE j = Null
          BY <3>1, <5>1, <5>2 DEF SlotsOK
        <5>3. CASE j # Null
          <6>1. tl[j].st = "live" /\ drv[j].sync = t /\ j \in Insts
            BY <3>1, <5>1, <5>3 DEF SlotsOK
          <6>2. j # i
            BY <1>3, <6>1
          <6> QED
            BY <3>4, <5>1, <5>3, <6>1, <6>2
        <5> QED
          BY <5>2, <5>3
      <4> QED
        BY <4>1, <4>2
    <3> QED
      BY <3>3, <3>5, <3>6 DEF SlotsOK
  <2> QED
    BY <2>6, <2>7, FrameOK DEF Inv
<1>6. \/ drv' = [drv EXCEPT ![i].st = "closed"] /\ sync' = sync /\ tl' = tl
      \/ \E s \in Slots : /\ sync[s].timeline = Null
                          /\ drv' = [drv EXCEPT ![i].st = "open", ![i].sync = s]
                          /\ sync' = [sync EXCEPT ![s].timeline = i]
                          /\ tl' = [tl EXCEPT ![i].st = "live", ![i].kref = IF setup[i].v4l THEN 2 ELSE 1]
  BY DEF Probe
<1> QED
  BY <1>4, <1>5, <1>6

\* A frame uses one of the buffers: they are counted for it.
LEMMA StepAllocBuf ==
    ASSUME Serial, Inv, NEW i \in Insts, AllocBuf(i) PROVE Inv'
<1>1. /\ InstOK(setup[i], tl[i], pt[i], drv[i], dec[i]) /\ drv \in [Insts -> Drivers] /\ dec \in [Insts -> {0, 1}]
      /\ tl \in [Insts -> Timelines] /\ pt \in [Insts -> [Seqnos -> PtRecords]]
  BY InvIs
<1>2. /\ drv[i].st = "open" /\ ~setup[i].v4l /\ dec[i] = 0 /\ setup' = setup /\ pt' = pt /\ dec' = dec
      /\ drv' = [drv EXCEPT ![i].bufs = @ + 1]
      /\ sync' = [sync EXCEPT ![drv[i].sync].buffer_count = @ + 1]
      /\ tl' = IF Count(i) = 0 THEN [tl EXCEPT ![i].kref = @ + 1] ELSE tl
  BY DEF AllocBuf, MayCount
<1>3. tl[i].st = "live"
  BY <1>1, <1>2, KrefIs
<1>4. Count(i) = drv[i].bufs /\ drv[i].sync \in Slots
  BY <1>3 DEF Inv, SlotsOK, Count
<1>5. PICK b \in Nat : b = drv[i].bufs
  BY <1>1, InstTypes
<1>6. PICK d2 : d2 = [drv[i] EXCEPT !.bufs = @ + 1]
  OBVIOUS
<1>7. PICK o2 : o2 = IF drv[i].bufs = 0 THEN [tl[i] EXCEPT !.kref = @ + 1] ELSE tl[i]
  OBVIOUS
<1>8. drv[i] \in Drivers /\ tl[i] \in Timelines
  BY <1>1
<1>9. drv' = [drv EXCEPT ![i] = d2] /\ drv'[i] = d2 /\ d2.sync = drv[i].sync /\ d2.bufs = b + 1
  BY <1>1, <1>2, <1>5, <1>6, <1>8 DEF Drivers
<1>10. tl' = [tl EXCEPT ![i] = o2] /\ tl'[i] = o2 /\ o2.st = "live"
  <2>1. CASE drv[i].bufs = 0
    <3>1. o2 = [tl[i] EXCEPT !.kref = @ + 1] /\ tl' = [tl EXCEPT ![i].kref = @ + 1]
      BY <1>2, <1>4, <1>7, <2>1
    <3> QED
      BY <1>1, <1>3, <1>8, <3>1 DEF Timelines
  <2>2. CASE drv[i].bufs # 0
    <3>1. o2 = tl[i] /\ tl' = tl
      BY <1>2, <1>4, <1>7, <2>2
    <3> QED
      BY <1>1, <1>3, <3>1
  <2> QED
    BY <2>1, <2>2
<1>11. InstOK(setup[i], o2, pt[i], d2, dec[i])
  BY <1>1, <1>2, <1>6, <1>7, AllocInst
<1>12. Frame(i) /\ InstOK(setup[i], tl'[i], pt'[i], drv'[i], dec'[i])
  BY <1>1, <1>2, <1>9, <1>10, <1>11 DEF Frame
<1>13. sync' = [sync EXCEPT ![drv[i].sync].buffer_count = b + 1]
  <2>1. sync[drv[i].sync].buffer_count = b
    BY <1>4, <1>5 DEF Count
  <2> QED
    BY <1>2, <2>1
<1>14. SlotsOK'
  <2>1. b + 1 \in Nat /\ drv'[i].bufs = b + 1 /\ drv'[i].sync = drv[i].sync /\ tl'[i].st = "live"
    BY <1>9, <1>10
  <2> QED
    BY <1>3, <1>12, <1>13, <2>1, SlotsCounted
<1> QED
  BY <1>12, <1>14, FrameOK DEF Inv

\* The count goes first, the references follow with DecTail.
LEMMA StepDecCount ==
    ASSUME Serial, Inv, NEW i \in Insts, DecCount(i) PROVE Inv'
<1>1. /\ InstOK(setup[i], tl[i], pt[i], drv[i], dec[i]) /\ drv \in [Insts -> Drivers] /\ dec \in [Insts -> {0, 1}]
      /\ tl \in [Insts -> Timelines] /\ pt \in [Insts -> [Seqnos -> PtRecords]]
  BY InvIs
<1>2. /\ drv[i].bufs > 0 /\ ~setup[i].v4l /\ dec[i] = 0 /\ setup' = setup /\ pt' = pt /\ tl' = tl
      /\ drv[i].st = "open" => drv[i].bufs > Cardinality(Using(pt[i]))
      /\ drv' = [drv EXCEPT ![i].bufs = @ - 1]
      /\ sync' = [sync EXCEPT ![drv[i].sync].buffer_count = @ - 1]
      /\ dec' = [dec EXCEPT ![i] = @ + 1]
  BY DEF DecCount, MayCount, Busy, Using
<1>3. tl[i].st = "live"
  BY <1>1, <1>2, KrefIs
<1>4. Count(i) = drv[i].bufs /\ drv[i].sync \in Slots
  BY <1>3 DEF Inv, SlotsOK, Count
<1>5. PICK b \in Nat : b = drv[i].bufs
  BY <1>1, InstTypes
<1>6. PICK d2 : d2 = [drv[i] EXCEPT !.bufs = @ - 1]
  OBVIOUS
<1>7. drv[i] \in Drivers
  BY <1>1
<1>8. drv' = [drv EXCEPT ![i] = d2] /\ drv'[i] = d2 /\ d2.sync = drv[i].sync /\ d2.bufs = b - 1
  BY <1>1, <1>2, <1>5, <1>6, <1>7 DEF Drivers
<1>9. dec' = [dec EXCEPT ![i] = dec[i] + 1] /\ dec'[i] = dec[i] + 1
  BY <1>1, <1>2
<1>10. InstOK(setup[i], tl[i], pt[i], d2, dec[i] + 1)
  BY <1>1, <1>2, <1>6, DecCountInst
<1>11. Frame(i) /\ InstOK(setup[i], tl'[i], pt'[i], drv'[i], dec'[i])
  BY <1>1, <1>2, <1>8, <1>9, <1>10 DEF Frame
<1>12. sync' = [sync EXCEPT ![drv[i].sync].buffer_count = b - 1]
  <2>1. sync[drv[i].sync].buffer_count = b
    BY <1>4, <1>5 DEF Count
  <2> QED
    BY <1>2, <2>1
<1>13. SlotsOK'
  <2>1. b - 1 \in Nat
    BY <1>2, <1>5
  <2>2. drv'[i].bufs = b - 1 /\ drv'[i].sync = drv[i].sync /\ tl'[i].st = "live"
    BY <1>2, <1>3, <1>8
  <2> QED
    BY <1>3, <1>11, <1>12, <2>1, <2>2, SlotsCounted
<1> QED
  BY <1>11, <1>13, FrameOK DEF Inv

\* With the last buffer every fence of pt_list is put.
LEMMA StepDecTail ==
    ASSUME Inv, NEW i \in Insts, DecTail(i) PROVE Inv'
<1>1. /\ InstOK(setup[i], tl[i], pt[i], drv[i], dec[i]) /\ drv \in [Insts -> Drivers] /\ dec \in [Insts -> {0, 1}]
      /\ tl \in [Insts -> Timelines] /\ pt \in [Insts -> [Seqnos -> PtRecords]]
  BY InvIs
<1>2. /\ dec[i] > 0 /\ tl[i].st = "live" /\ setup' = setup /\ drv' = drv /\ dec' = [dec EXCEPT ![i] = @ - 1]
  BY DEF DecTail
<1>3. Count(i) = drv[i].bufs /\ drv[i].sync \in Slots /\ drv[i].sync # Null
  BY <1>2, InstAssumption DEF Inv, SlotsOK, Count
<1>4. /\ dec[i] = 1 /\ drv[i] \in Drivers /\ drv' = [drv EXCEPT ![i] = drv'[i]] /\ drv'[i] = drv[i]
      /\ dec' = [dec EXCEPT ![i] = dec'[i]] /\ dec'[i] = dec[i] - 1 /\ dec'[i] = 0
  BY <1>1, <1>2
<1>5. CASE drv[i].bufs # 0
  <2>1. tl' = tl /\ pt' = pt /\ sync' = sync
    BY <1>3, <1>5 DEF DecTail
  <2>2. InstOK(setup[i], tl[i], pt[i], drv[i], dec[i] - 1)
    BY <1>1, <1>2, <1>5, DecTailInst
  <2>3. Frame(i) /\ InstOK(setup[i], tl'[i], pt'[i], drv'[i], dec'[i])
    BY <1>1, <1>2, <1>4, <2>1, <2>2 DEF Frame
  <2>4. SlotsOK'
    BY <1>4, <2>1, <2>3, SlotsKept
  <2> QED
    BY <2>3, <2>4, FrameOK DEF Inv
<1>6. CASE drv[i].bufs = 0
  <2>1. Update(i, Dropped(tl[i], 1), SweptPts(tl[i], pt[i]), Listed(tl[i]))
    BY <1>3, <1>6 DEF DecTail, Swept, SweptPts
  <2>2. /\ ~setup[i].v4l /\ drv[i].st # "new" /\ (drv[i].posted # 0 => drv[i].st = "open")
        /\ (drv[i].st = "removed" => setup[i].v4l)
    BY <1>1, <1>2, <1>4 DEF InstOK, KrefOK
  <2>3. ~Torn(setup[i], drv[i], 1) /\ Torn(setup[i], drv[i], 0)
    BY <1>6, <2>2 DEF Torn
  <2>4. Owed(setup[i], drv[i], 0) = Owed(setup[i], drv[i], 1) - 1
    <3>1. PICK x \in {0, 1} : x = Num(drv[i].st \in {"open", "stopping"})
      BY DEF Num
    <3>2. Num(setup[i].v4l /\ drv[i].st # "closed") = 0 /\ Num(~setup[i].v4l /\ (drv[i].bufs > 0 \/ 0 > 0)) = 0
          /\ Num(~setup[i].v4l /\ (drv[i].bufs > 0 \/ 1 > 0)) = 1
      BY <1>6, <2>2 DEF Num
    <3>3. Owed(setup[i], drv[i], 0) = x + 0 + 0 /\ Owed(setup[i], drv[i], 1) = x + 0 + 1
      BY <3>1, <3>2 DEF Owed
    <3> QED
      BY <3>3
  <2>5. drv[i].st = "open" => Using(pt[i]) = {}
    <3>1. ASSUME drv[i].st = "open" PROVE Using(pt[i]) = {}
      <4>1. Cardinality(Using(pt[i])) <= 0
        BY <1>1, <1>6, <2>2, <3>1 DEF InstOK, BusyOK
      <4>2. Using(pt[i]) \in SUBSET Seqnos
        BY DEF Using
      <4>3. IsFiniteSet(Using(pt[i])) /\ Cardinality(Using(pt[i])) = 0
        BY <4>1, <4>2, Finite
      <4> QED
        BY <4>3, FS_EmptySet
    <3> QED
      BY <3>1
  <2>6. PICK S : S = SweptPts(tl[i], pt[i])
    OBVIOUS
  <2>7. InstOK(setup[i], Released(Dropped(tl[i], 1), LastRef(S, Listed(tl[i]))), PutPts(S, Listed(tl[i])), drv[i], 0)
    BY <1>1, <1>2, <1>4, <2>2, <2>3, <2>4, <2>5, <2>6, SweepInst
  <2>8. Released(Dropped(tl[i], 1), LastRef(S, Listed(tl[i]))).st # "none"
    BY <1>3, <2>7, NotNone
  <2> QED
    BY <1>2, <1>4, <2>1, <2>6, <2>7, <2>8, UpdateOK
<1> QED
  BY <1>5, <1>6

\* A frame that is posted before it is decoded
LEMMA StepPost ==
    ASSUME Inv, NEW i \in Insts, NEW n \in Seqnos, Post(i, n) PROVE Inv'
<1>1. /\ InstOK(setup[i], tl[i], pt[i], drv[i], dec[i]) /\ drv \in [Insts -> Drivers] /\ dec \in [Insts -> {0, 1}]
      /\ tl \in [Insts -> Timelines] /\ pt \in [Insts -> [Seqnos -> PtRecords]]
  BY InvIs
<1>2. PICK f \in BOOLEAN : f <=> setup[i].usage = "app"
  OBVIOUS
<1>3. PICK q : q = [NoPt EXCEPT !.ref = 1, !.vf = "shown", !.fd = setup[i].usage = "app"]
  OBVIOUS
<1>4. /\ drv[i].st = "open" /\ drv[i].posted = 0 /\ n = NextSeqno(tl[i]) /\ pt[i][n] = NoPt
      /\ setup[i].v4l \/ drv[i].bufs > Cardinality(Using(pt[i]))
      /\ setup' = setup /\ sync' = sync /\ dec' = dec
      /\ drv' = [drv EXCEPT ![i].posted = n] /\ tl' = [tl EXCEPT ![i] = WithPt(@, n)]
      /\ pt' = [pt EXCEPT ![i][n] = q]
  BY <1>3 DEF Post, MayPost, Busy, Using
<1>5. q = [ref |-> 1, vf |-> "shown", fd |-> f, disp |-> FALSE, lost |-> FALSE, decoded |-> FALSE, error |-> FALSE]
  BY <1>2, <1>3 DEF NoPt
<1>6. /\ q \in PtRecords /\ q.ref = 1 /\ q.vf = "shown" /\ q.fd = f /\ ~q.disp /\ ~q.lost /\ ~q.decoded /\ ~q.error
  BY <1>2, <1>5 DEF PtRecords
<1>7. PointOK(setup[i], q)
  BY <1>2, <1>6 DEF PointOK, RefsOf, Num
<1>8. PICK d2 : d2 = [drv[i] EXCEPT !.posted = n]
  OBVIOUS
<1>9. PICK o2 : o2 = WithPt(tl[i], n)
  OBVIOUS
<1>10. PICK P2 : P2 = [pt[i] EXCEPT ![n] = q]
  OBVIOUS
<1>11. InstOK(setup[i], o2, P2, d2, dec[i])
  BY <1>1, <1>4, <1>6, <1>7, <1>8, <1>9, <1>10, PostInst
<1>12. drv[i] \in Drivers /\ tl[i] \in Timelines
  BY <1>1
<1>13. /\ drv' = [drv EXCEPT ![i] = d2] /\ drv'[i] = d2 /\ d2.sync = drv[i].sync /\ d2.bufs = drv[i].bufs
       /\ tl' = [tl EXCEPT ![i] = o2] /\ tl'[i] = o2 /\ pt' = [pt EXCEPT ![i] = P2] /\ pt'[i] = P2
  BY <1>1, <1>4, <1>8, <1>9, <1>10, <1>12 DEF Drivers
<1>14. tl'[i].st = tl[i].st
  BY <1>9, <1>12, <1>13 DEF WithPt, Timelines
<1>15. Frame(i) /\ InstOK(setup[i], tl'[i], pt'[i], drv'[i], dec'[i])
  BY <1>1, <1>4, <1>11, <1>13 DEF Frame
<1>16. SlotsOK'
  BY <1>4, <1>13, <1>14, <1>15, SlotsKept
<1> QED
  BY <1>15, <1>16, FrameOK DEF Inv

\* A point that is forgotten at once
LEMMA StepPostNoFd ==
    ASSUME Inv, NEW i \in Insts, NEW n \in Seqnos, PostNoFd(i, n) PROVE Inv'
<1>1. /\ InstOK(setup[i], tl[i], pt[i], drv[i], dec[i]) /\ drv \in [Insts -> Drivers] /\ dec \in [Insts -> {0, 1}]
      /\ tl \in [Insts -> Timelines] /\ pt \in [Insts -> [Seqnos -> PtRecords]]
  BY InvIs
<1>2. PICK q : q = [NoPt EXCEPT !.ref = 1, !.lost = TRUE]
  OBVIOUS
<1>3. /\ drv[i].st = "open" /\ drv[i].posted = 0 /\ n = NextSeqno(tl[i]) /\ pt[i][n] = NoPt
      /\ setup[i].v4l \/ drv[i].bufs > Cardinality(Using(pt[i]))
      /\ setup' = setup /\ sync' = sync /\ dec' = dec /\ drv' = drv /\ setup[i].usage = "app"
      /\ tl' = [tl EXCEPT ![i] = WithPt(@, n)] /\ pt' = [pt EXCEPT ![i][n] = q]
  BY <1>2 DEF PostNoFd, MayPost, Busy, Using
<1>4. q = [ref |-> 1, vf |-> "none", fd |-> FALSE, disp |-> FALSE, lost |-> TRUE, decoded |-> FALSE, error |-> FALSE]
  BY <1>2 DEF NoPt
<1>5. /\ q \in PtRecords /\ q.ref = 1 /\ q.vf = "none" /\ ~q.fd /\ ~q.disp /\ q.lost /\ ~q.decoded /\ ~q.error
  BY <1>4 DEF PtRecords
<1>6. PointOK(setup[i], q)
  BY <1>3, <1>5 DEF PointOK, RefsOf, Num
<1>7. drv[i] \in Drivers /\ tl[i] \in Timelines
  BY <1>1
<1>8. [drv[i] EXCEPT !.posted = 0] = drv[i]
  BY <1>3, <1>7 DEF Drivers
<1>9. PICK o2 : o2 = WithPt(tl[i], n)
  OBVIOUS
<1>10. PICK P2 : P2 = [pt[i] EXCEPT ![n] = q]
  OBVIOUS
<1>11. InstOK(setup[i], o2, P2, [drv[i] EXCEPT !.posted = 0], dec[i])
  BY <1>1, <1>3, <1>5, <1>6, <1>9, <1>10, PostInst
<1>12. InstOK(setup[i], o2, P2, drv[i], dec[i])
  BY <1>8, <1>11
<1>13. tl' = [tl EXCEPT ![i] = o2] /\ tl'[i] = o2 /\ pt' = [pt EXCEPT ![i] = P2] /\ pt'[i] = P2
  BY <1>1, <1>3, <1>9, <1>10
<1>14. tl'[i].st = tl[i].st
  BY <1>7, <1>9, <1>13 DEF WithPt, Timelines
<1>15. Frame(i) /\ InstOK(setup[i], tl'[i], pt'[i], drv'[i], dec'[i])
  BY <1>1, <1>3, <1>12, <1>13 DEF Frame
<1>16. SlotsOK'
  BY <1>3, <1>14, <1>15, SlotsKept
<1> QED
  BY <1>15, <1>16, FrameOK DEF Inv

\* The posted picture is done: what Signal leaves
LEMMA StepSignal ==
    ASSUME Inv, NEW i \in Insts, NEW err \in BOOLEAN, NEW shows, drv[i].posted # 0, Signal(i, err, shows),
           setup' = setup, dec' = dec, drv' = [drv EXCEPT ![i] = drv'[i]], drv'[i] \in Drivers,
           drv'[i].sync = drv[i].sync, drv'[i].bufs = drv[i].bufs, drv'[i].posted = 0,
           drv'[i].st \in {"open", "stopping"}
    PROVE  Inv'
<1>1. /\ InstOK(setup[i], tl[i], pt[i], drv[i], dec[i]) /\ dec \in [Insts -> {0, 1}]
      /\ pt \in [Insts -> [Seqnos -> PtRecords]]
  BY InvIs
<1>2. PICK n : n = drv[i].posted
  OBVIOUS
<1>3. n \in Seqnos /\ tl[i].st = "live" /\ pt[i][n].ref \in Nat
  BY <1>1, <1>2, PostedIs
<1>4. drv[i].sync # Null
  BY <1>3, InvIs
<1>5. PICK e \in BOOLEAN, f \in BOOLEAN : (e <=> pt[i][n].ref > 0 /\ err) /\ (f <=> pt[i][n].ref > 0)
  OBVIOUS
<1>6. PICK P1 : P1 = [pt[i] EXCEPT ![n].error = e, ![n].decoded = f]
  OBVIOUS
<1>7. P1 = [pt[i] EXCEPT ![n].error = (pt[i][n].ref > 0 /\ err), ![n].decoded = (pt[i][n].ref > 0)]
  BY <1>5, <1>6
<1>8. PICK u \in IF pt[i][n].ref = 0 THEN BOOLEAN ELSE {Status(tl[i], pt[i][n], n) = 0} :
        LET o == IF u THEN Increased(tl[i], 1) ELSE tl[i]
            B == BackPts(o, P1, shows)
        IN  Update(i, o, BackVf(P1, B), B)
  <2>1. \E u \in IF pt[i][drv[i].posted].ref = 0 THEN BOOLEAN
               ELSE {Status(tl[i], pt[i][drv[i].posted], drv[i].posted) = 0} :
          LET o == IF u THEN Increased(tl[i], 1) ELSE tl[i]
              P == [pt[i] EXCEPT ![drv[i].posted].error = (pt[i][drv[i].posted].ref > 0 /\ err),
                                 ![drv[i].posted].decoded = (pt[i][drv[i].posted].ref > 0)]
              B == BackPts(o, P, shows)
          IN  Update(i, o, BackVf(P, B), B)
    BY Zenon DEF Signal, BackPts, BackVf
  <2>2. P1 = [pt[i] EXCEPT ![drv[i].posted].error = (pt[i][drv[i].posted].ref > 0 /\ err),
                           ![drv[i].posted].decoded = (pt[i][drv[i].posted].ref > 0)]
    BY <1>2, <1>7
  <2> QED
    BY <1>2, <2>1, <2>2
<1>9. u \in BOOLEAN /\ (pt[i][n].ref # 0 => (u <=> Status(tl[i], pt[i][n], n) = 0))
  BY <1>8
<1>10. PICK o1 : o1 = IF u THEN Increased(tl[i], 1) ELSE tl[i]
  OBVIOUS
<1>11. PICK B : B = BackPts(o1, P1, shows)
  OBVIOUS
<1>12. PICK P2 : P2 = BackVf(P1, B)
  OBVIOUS
<1>13. Update(i, o1, P2, B)
  BY <1>8, <1>10, <1>11, <1>12
<1>14. SignalsTo(setup[i], tl[i], pt[i], drv[i], o1, P1)
  BY <1>1, <1>2, <1>5, <1>6, <1>9, <1>10, SignalsToOK
<1>15. InstOK(setup[i], Released(o1, LastRef(P2, B)), PutPts(P2, B), drv'[i], dec[i])
  BY <1>1, <1>11, <1>12, <1>14, SignalInst
<1>16. Released(o1, LastRef(P2, B)).st # "none"
  BY <1>4, <1>15, NotNone
<1>17. dec' = [dec EXCEPT ![i] = dec'[i]] /\ dec'[i] = dec[i]
  BY <1>1
<1> QED
  BY <1>3, <1>13, <1>15, <1>16, <1>17, UpdateOK

\* prepare_display_buf
LEMMA StepDisplayBuf ==
    ASSUME Inv, NEW i \in Insts, NEW err \in BOOLEAN, DisplayBuf(i, err) PROVE Inv'
<1>1. drv \in [Insts -> Drivers] /\ drv[i] \in Drivers
  BY InvIs
<1>2. /\ drv[i].st = "open" /\ drv[i].posted # 0 /\ Signal(i, err, TRUE)
      /\ drv' = [drv EXCEPT ![i].posted = 0] /\ setup' = setup /\ dec' = dec
  BY DEF DisplayBuf
<1>3. drv'[i] = [drv[i] EXCEPT !.posted = 0] /\ drv' = [drv EXCEPT ![i] = drv'[i]] /\ 0 \in 0 .. MaxSeq
  BY <1>1, <1>2, Finite
<1>4. /\ drv'[i] \in Drivers /\ drv'[i].sync = drv[i].sync /\ drv'[i].bufs = drv[i].bufs /\ drv'[i].posted = 0
      /\ drv'[i].st \in {"open", "stopping"}
  BY <1>1, <1>2, <1>3 DEF Drivers
<1> QED
  BY <1>2, <1>3, <1>4, StepSignal

\* The picture never got that far
LEMMA StepWorkEnd ==
    ASSUME Inv, NEW i \in Insts, WorkEnd(i) PROVE Inv'
<1>1. drv \in [Insts -> Drivers] /\ drv[i] \in Drivers
  BY InvIs
<1>2. /\ drv[i].st = "open" /\ drv[i].posted # 0 /\ Signal(i, TRUE, FALSE)
      /\ drv' = [drv EXCEPT ![i].posted = 0] /\ setup' = setup /\ dec' = dec
  BY DEF WorkEnd
<1>3. drv'[i] = [drv[i] EXCEPT !.posted = 0] /\ drv' = [drv EXCEPT ![i] = drv'[i]] /\ 0 \in 0 .. MaxSeq
  BY <1>1, <1>2, Finite
<1>4. /\ drv'[i] \in Drivers /\ drv'[i].sync = drv[i].sync /\ drv'[i].bufs = drv[i].bufs /\ drv'[i].posted = 0
      /\ drv'[i].st \in {"open", "stopping"}
  BY <1>1, <1>2, <1>3 DEF Drivers
<1> QED
  BY <1>2, <1>3, <1>4, StepSignal

\* The work item runs once more before the driver stops.
LEMMA StepStop ==
    ASSUME Inv, NEW i \in Insts, Stop(i) PROVE Inv'
<1>1. /\ InstOK(setup[i], tl[i], pt[i], drv[i], dec[i]) /\ drv \in [Insts -> Drivers] /\ drv[i] \in Drivers
      /\ dec \in [Insts -> {0, 1}] /\ tl \in [Insts -> Timelines] /\ pt \in [Insts -> [Seqnos -> PtRecords]]
  BY InvIs
<1>2. /\ drv[i].st = "open" /\ drv' = [drv EXCEPT ![i].st = "stopping", ![i].posted = 0]
      /\ IF drv[i].posted # 0 THEN Signal(i, TRUE, FALSE) ELSE UNCHANGED <<tl, pt, sync>>
      /\ setup' = setup /\ dec' = dec
  BY DEF Stop
<1>3. /\ drv'[i] = [drv[i] EXCEPT !.st = "stopping", !.posted = 0] /\ drv' = [drv EXCEPT ![i] = drv'[i]]
      /\ 0 \in 0 .. MaxSeq
  <2>1. drv'[i] = [drv[i] EXCEPT !.st = "stopping", !.posted = 0]
    BY <1>1, <1>2
  <2>2. drv' = [drv EXCEPT ![i] = drv'[i]]
    BY <1>1, <1>2
  <2>3. 0 \in 0 .. MaxSeq
    BY Finite
  <2> QED
    BY <2>1, <2>2, <2>3
<1>4. /\ drv'[i] \in Drivers /\ drv'[i].sync = drv[i].sync /\ drv'[i].bufs = drv[i].bufs /\ drv'[i].posted = 0
      /\ drv'[i].st \in {"open", "stopping"}
  BY <1>1, <1>2, <1>3 DEF Drivers
<1>5. CASE drv[i].posted # 0
  BY <1>2, <1>3, <1>4, <1>5, StepSignal
<1>6. CASE drv[i].posted = 0
  <2>1. tl' = tl /\ pt' = pt /\ sync' = sync
    BY <1>2, <1>6
  <2>2. InstOK(setup[i], tl[i], pt[i], drv'[i], dec[i])
    BY <1>1, <1>2, <1>3, <1>6, StopInst
  <2>3. Frame(i) /\ InstOK(setup[i], tl'[i], pt'[i], drv'[i], dec'[i])
    BY <1>1, <1>2, <1>3, <2>1, <2>2 DEF Frame
  <2>4. SlotsOK'
    BY <1>4, <2>1, <2>3, SlotsKept
  <2> QED
    BY <2>3, <2>4, FrameOK DEF Inv
<1> QED
  BY <1>5, <1>6

\* Every fence is signalled, the driver's reference dropped.
LEMMA StepFenceRelease ==
    ASSUME Inv, NEW i \in Insts, FenceRelease(i) PROVE Inv'
<1>1. /\ InstOK(setup[i], tl[i], pt[i], drv[i], dec[i]) /\ drv \in [Insts -> Drivers] /\ drv[i] \in Drivers
      /\ dec \in [Insts -> {0, 1}]
  BY InvIs
<1>2. PICK v : v = IF setup[i].v4l THEN "removed" ELSE "closed"
  OBVIOUS
<1>3. PICK o1 : o1 = Dropped(Increased(tl[i], MaxSeq), 1)
  OBVIOUS
<1>4. /\ drv[i].st = "stopping" /\ drv' = [drv EXCEPT ![i].st = v] /\ Update(i, o1, pt[i], {})
      /\ setup' = setup /\ dec' = dec
  BY <1>2, <1>3 DEF FenceRelease
<1>5. tl[i].st = "live" /\ drv[i].sync # Null
  BY <1>1, <1>4, KrefIs, InvIs
<1>6. drv'[i] = [drv[i] EXCEPT !.st = v] /\ drv' = [drv EXCEPT ![i] = drv'[i]]
  BY <1>1, <1>4
<1>7. /\ drv'[i] \in Drivers /\ drv'[i].sync = drv[i].sync /\ drv'[i].bufs = drv[i].bufs
      /\ drv'[i].posted = drv[i].posted /\ drv'[i].st = v
  BY <1>1, <1>2, <1>6 DEF Drivers
<1>8. InstOK(setup[i], Released(o1, LastRef(pt[i], {})), PutPts(pt[i], {}), drv'[i], dec[i])
  BY <1>1, <1>2, <1>3, <1>4, <1>7, ReleaseInst
<1>9. Released(o1, LastRef(pt[i], {})).st # "none"
  BY <1>5, <1>7, <1>8, NotNone
<1>10. dec' = [dec EXCEPT ![i] = dec'[i]] /\ dec'[i] = dec[i]
  BY <1>1, <1>4
<1> QED
  BY <1>4, <1>5, <1>6, <1>7, <1>8, <1>9, <1>10, UpdateOK

\* The context goes, with every fence of pt_list.
LEMMA StepCleanAllFence ==
    ASSUME Inv, NEW i \in Insts, CleanAllFence(i) PROVE Inv'
<1>1. /\ InstOK(setup[i], tl[i], pt[i], drv[i], dec[i]) /\ drv \in [Insts -> Drivers] /\ drv[i] \in Drivers
      /\ dec \in [Insts -> {0, 1}] /\ dec[i] \in {0, 1}
  BY InvIs
<1>2. PICK S : S = SweptPts(tl[i], pt[i])
  OBVIOUS
<1>3. /\ drv[i].st = "removed" /\ drv' = [drv EXCEPT ![i].st = "closed"]
      /\ Update(i, Dropped(tl[i], 1), S, Listed(tl[i])) /\ setup' = setup /\ dec' = dec
  BY <1>2 DEF CleanAllFence, Swept, SweptPts
<1>4. setup[i].v4l /\ drv[i].posted = 0 /\ dec[i] = 0 /\ drv[i].bufs = 0
  BY <1>1, <1>3 DEF InstOK, KrefOK
<1>5. tl[i].st = "live" /\ drv[i].sync # Null
  BY <1>1, <1>3, <1>4, KrefIs, InvIs
<1>6. drv'[i] = [drv[i] EXCEPT !.st = "closed"] /\ drv' = [drv EXCEPT ![i] = drv'[i]]
  BY <1>1, <1>3
<1>7. /\ drv'[i] \in Drivers /\ drv'[i].sync = drv[i].sync /\ drv'[i].bufs = drv[i].bufs
      /\ drv'[i].posted = drv[i].posted /\ drv'[i].st = "closed"
  BY <1>1, <1>6 DEF Drivers
<1>8. PICK d2 \in Drivers : d2 = drv'[i]
  BY <1>7
<1>9. Owed(setup[i], d2, dec[i]) = Owed(setup[i], drv[i], dec[i]) - 1
  <2>1. /\ Num(drv[i].st \in {"open", "stopping"}) = 0 /\ Num(d2.st \in {"open", "stopping"}) = 0
        /\ Num(setup[i].v4l /\ drv[i].st # "closed") = 1 /\ Num(setup[i].v4l /\ d2.st # "closed") = 0
        /\ Num(~setup[i].v4l /\ (drv[i].bufs > 0 \/ dec[i] > 0)) = 0
        /\ Num(~setup[i].v4l /\ (d2.bufs > 0 \/ dec[i] > 0)) = 0
    BY <1>3, <1>4, <1>7, <1>8 DEF Num
  <2>2. Owed(setup[i], d2, dec[i]) = 0 + 0 + 0 /\ Owed(setup[i], drv[i], dec[i]) = 0 + 1 + 0
    BY <2>1 DEF Owed
  <2> QED
    BY <2>2
<1>10. ~Torn(setup[i], drv[i], dec[i]) /\ Torn(setup[i], d2, dec[i])
  BY <1>3, <1>4, <1>7, <1>8 DEF Torn
<1>11. InstOK(setup[i], Released(Dropped(tl[i], 1), LastRef(S, Listed(tl[i]))), PutPts(S, Listed(tl[i])), d2, dec[i])
  <2>1. /\ d2.sync = drv[i].sync /\ d2.bufs = drv[i].bufs /\ d2.posted = drv[i].posted /\ d2.st # "new"
        /\ d2.st # "open" /\ d2.posted = 0 /\ d2.st # "removed" /\ drv[i].st # "open"
    BY <1>3, <1>4, <1>7, <1>8
  <2> QED
    BY <1>1, <1>2, <1>4, <1>5, <1>9, <1>10, <2>1, SweepInst
<1>12. Released(Dropped(tl[i], 1), LastRef(S, Listed(tl[i]))).st # "none"
  BY <1>5, <1>7, <1>8, <1>11, NotNone
<1>13. dec' = [dec EXCEPT ![i] = dec'[i]] /\ dec'[i] = dec[i]
  BY <1>1, <1>3
<1> QED
  BY <1>3, <1>5, <1>6, <1>7, <1>8, <1>11, <1>12, <1>13, UpdateOK

-----------------------------------------------------------------------------
(* The invariant *)

\* A decoder instance that was not opened yet
LEMMA FreshInst ==
    ASSUME NEW c \in SetupRecords
    PROVE  InstOK(c, NoTimeline, [n \in Seqnos |-> NoPt], [st |-> "new", sync |-> Null, posted |-> 0, bufs |-> 0], 0)
<1>1. PICK P : P = [n \in Seqnos |-> NoPt]
  OBVIOUS
<1>2. PICK d : d = [st |-> "new", sync |-> Null, posted |-> 0, bufs |-> 0]
  OBVIOUS
<1>3. /\ NoPt \in PtRecords /\ NoPt.ref = 0 /\ NoPt.vf = "none" /\ ~NoPt.fd /\ ~NoPt.disp /\ ~NoPt.lost
      /\ ~NoPt.decoded /\ ~NoPt.error
  BY DEF NoPt, PtRecords
<1>4. /\ d.st = "new" /\ d.sync = Null /\ d.posted = 0 /\ d.bufs = 0
  BY <1>2
<1>5. 0 \in 0 .. MaxSeq /\ d \in Drivers
  BY <1>2, Finite DEF Drivers
<1>6. /\ NoTimeline.st = "none" /\ NoTimeline.pts = <<>> /\ NoTimeline.active = {} /\ NoTimeline \in Timelines
  BY DEF NoTimeline, Timelines
<1>7. P \in [Seqnos -> PtRecords] /\ \A n \in Seqnos : P[n] = NoPt
  BY <1>1, <1>3
<1>8. TypesOK(c, NoTimeline, P, d, 0)
  BY <1>5, <1>6, <1>7 DEF TypesOK
<1>9. Living(P) = {} /\ Using(P) = {}
  BY <1>3, <1>7 DEF Living, Using
<1>10. ListOK(NoTimeline, P)
  BY <1>6, <1>9 DEF ListOK, Listed, IsInjective, Range
<1>11. KrefOK(c, NoTimeline, d, 0)
  BY <1>4, <1>6 DEF KrefOK
<1>12. PointOK(c, NoPt)
  BY <1>3 DEF PointOK, RefsOf, Num
<1>13. SweepOK(c, P, d, 0)
  BY <1>9 DEF SweepOK
<1>14. SignalOK(c, NoTimeline, P, d)
  BY <1>4, <1>6 DEF SignalOK
<1>15. BusyOK(c, P, d)
  BY <1>4, <1>9 DEF BusyOK
<1> QED
  BY <1>1, <1>2, <1>7, <1>8, <1>10, <1>11, <1>12, <1>13, <1>14, <1>15 DEF InstOK

\* The invariant holds before the first instance is opened.
LEMMA InitInv == Init => Inv
<1> SUFFICES ASSUME Init PROVE Inv
  OBVIOUS
<1>1. setup \in [Insts -> SetupRecords] /\ Null \notin Insts
  BY InstAssumption DEF Init
<1>2. /\ tl = [i \in Insts |-> NoTimeline] /\ pt = [i \in Insts |-> [n \in Seqnos |-> NoPt]]
      /\ drv = [i \in Insts |-> [st |-> "new", sync |-> Null, posted |-> 0, bufs |-> 0]]
      /\ dec = [i \in Insts |-> 0] /\ sync = [s \in Slots |-> [timeline |-> Null, buffer_count |-> 0]]
  BY DEF Init
<1>3. ASSUME NEW i \in Insts PROVE Inst(i)
  BY <1>1, <1>2, FreshInst DEF Inst
<1>4. Domains
  <2>1. \A i \in Insts : tl[i] \in Timelines /\ pt[i] \in [Seqnos -> PtRecords] /\ drv[i] \in Drivers /\ dec[i] \in {0, 1}
    BY <1>3, InstTypes DEF Inst
  <2> QED
    BY <1>1, <1>2, <2>1 DEF Domains
<1>5. SlotsOK
  <2>1. sync \in [Slots -> [timeline : Insts \cup {Null}, buffer_count : Nat]]
    BY <1>2
  <2>2. \A s \in Slots : sync[s].timeline = Null /\ sync[s].buffer_count = 0
    BY <1>2
  <2>3. \A i \in Insts : tl[i].st = "none"
    BY <1>2 DEF NoTimeline
  <2> QED
    BY <2>1, <2>2, <2>3 DEF SlotsOK
<1> QED
  BY <1>3, <1>4, <1>5 DEF Inv

\* A step that changes nothing keeps the invariant.
LEMMA StutterInv ==
    ASSUME Inv, UNCHANGED vars PROVE Inv'
<1>1. setup' = setup /\ sync' = sync /\ tl' = tl /\ pt' = pt /\ drv' = drv /\ dec' = dec
  BY DEF vars
<1>2. Domains' /\ SlotsOK'
  BY <1>1 DEF Inv, Domains, SlotsOK
<1>3. \A i \in Insts : Inst(i)'
  BY <1>1 DEF Inv, Inst
<1> QED
  BY <1>2, <1>3 DEF Inv

\* Every step keeps the invariant.
LEMMA NextInv ==
    ASSUME Serial, Inv, [Next]_vars PROVE Inv'
<1>1. CASE UNCHANGED vars
  BY <1>1, StutterInv
<1>2. CASE Next
  <2>1. PICK i \in Insts :
          \/ Probe(i) \/ AllocBuf(i) \/ DecCount(i) \/ DecTail(i)
          \/ DisplayBuf(i, TRUE) \/ DisplayBuf(i, FALSE) \/ WorkEnd(i)
          \/ Stop(i) \/ FenceRelease(i) \/ CleanAllFence(i)
          \/ \E n \in Seqnos : \/ Post(i, n) \/ PostNoFd(i, n) \/ DisplayTake(i, n) \/ DisplayDrop(i, n)
                               \/ Poll(i, n) \/ Close(i, n) \/ VfPut(i, n)
    BY <1>2 DEF Next
  <2>2. CASE Probe(i)
    BY <2>2, StepProbe
  <2>3. CASE AllocBuf(i) \/ DecCount(i) \/ DecTail(i)
    BY <2>3, StepAllocBuf, StepDecCount, StepDecTail
  <2>4. CASE DisplayBuf(i, TRUE) \/ DisplayBuf(i, FALSE)
    BY <2>4, StepDisplayBuf
  <2>5. CASE WorkEnd(i) \/ Stop(i)
    BY <2>5, StepWorkEnd, StepStop
  <2>6. CASE FenceRelease(i) \/ CleanAllFence(i)
    BY <2>6, StepFenceRelease, StepCleanAllFence
  <2>7. ASSUME NEW n \in Seqnos, Post(i, n) \/ PostNoFd(i, n) PROVE Inv'
    BY <2>7, StepPost, StepPostNoFd
  <2>8. ASSUME NEW n \in Seqnos, DisplayTake(i, n) \/ DisplayDrop(i, n) PROVE Inv'
    BY <2>8, StepDisplayTake, StepDisplayDrop
  <2>9. ASSUME NEW n \in Seqnos, Poll(i, n) \/ Close(i, n) \/ VfPut(i, n) PROVE Inv'
    BY <2>9, StepPoll, StepClose, StepVfPut
  <2> QED
    BY <2>1, <2>2, <2>3, <2>4, <2>5, <2>6, <2>7, <2>8, <2>9
<1> QED
  BY <1>1, <1>2

(* Timelines, points, drivers and slots agree in every reachable state, if *)
(* the buffers of an instance are released one after the other.            *)
THEOREM Invariance == ASSUME Serial PROVE Spec => []Inv
<1>1. Inv /\ [Next]_vars => Inv'
  BY NextInv
<1> QED
  BY <1>1, InitInv, PTL DEF Spec

(* The reference count of a timeline is that of the driver, the context,   *)
(* the buffers and the points of pt_list, and it is freed with the last of *)
(* them (sync_timeline_get, sync_timeline_put).                            *)
THEOREM KrefIsExact == ASSUME Serial PROVE Spec => []KrefExact
<1>1. Inv => KrefExact
  <2> SUFFICES ASSUME Inv, NEW i \in Insts, tl[i].st # "none"
               PROVE  /\ tl[i].kref = Num(drv[i].st \in {"open", "stopping"})
                                      + Num(setup[i].v4l /\ drv[i].st # "closed")
                                      + Num(~setup[i].v4l /\ (drv[i].bufs > 0 \/ dec[i] > 0))
                                      + Len(tl[i].pts)
                      /\ (tl[i].st = "freed") = (tl[i].kref = 0)
    BY DEF KrefExact
  <2>1. tl[i].kref = Owed(setup[i], drv[i], dec[i]) + Len(tl[i].pts) /\ (tl[i].st = "freed" <=> tl[i].kref = 0)
    BY InvIs, KrefIs
  <2> QED
    BY <2>1 DEF Owed
<1> QED
  BY <1>1, Invariance, PTL

(* A fence the driver uses lives as long as its frame or the display       *)
(* refers to it, but for the display's reference to a failed picture that  *)
(* the sweep takes; the posted picture's fence is there; and active_list   *)
(* holds points that exist, wait and are in pt_list (vh265.c vf_put and    *)
(* prepare_display_buf, vdec_sync.c vdec_fence_buffer_count_decrease).     *)
THEOREM DriverFencesAreExact == ASSUME Serial PROVE Spec => []DriverFencesExact
<1>1. Inv => DriverFencesExact
  <2> SUFFICES ASSUME Inv, NEW i \in Insts
               PROVE  /\ setup[i].usage = "driver" =>
                           \A n \in Seqnos : /\ pt[i][n].ref = RefsOf(pt[i][n]) \/ DroppedEarly(pt[i][n])
                                             /\ drv[i].posted = n => pt[i][n].ref > 0
                      /\ \A n \in tl[i].active : pt[i][n].ref > 0 /\ ~Signaled(tl[i], n) /\ n \in Listed(tl[i])
    BY DEF DriverFencesExact
  <2>1. InstOK(setup[i], tl[i], pt[i], drv[i], dec[i])
    BY InvIs
  <2>2. ASSUME setup[i].usage = "driver", NEW n \in Seqnos
        PROVE  /\ pt[i][n].ref = RefsOf(pt[i][n]) \/ DroppedEarly(pt[i][n])
               /\ drv[i].posted = n => pt[i][n].ref > 0
    <3>1. PointOK(setup[i], pt[i][n])
      BY <2>1 DEF InstOK
    <3>2. n # 0
      BY Finite DEF Seqnos
    <3>3. drv[i].posted = n => pt[i][n].ref > 0
      BY <2>1, <2>2, <3>2, PostedIs
    <3> QED
      BY <2>2, <3>1, <3>3 DEF PointOK
  <2>3. ASSUME NEW n \in tl[i].active PROVE pt[i][n].ref > 0 /\ ~Signaled(tl[i], n) /\ n \in Listed(tl[i])
    <3>1. n \in Living(pt[i]) /\ n > tl[i].value /\ Listed(tl[i]) = Living(pt[i])
      BY <2>1 DEF InstOK, SignalOK, ListOK
    <3>2. pt[i][n].ref > 0 /\ n \in Seqnos
      BY <3>1 DEF Living
    <3>3. n \in Nat /\ tl[i].value \in Nat
      BY <2>1, <3>2, InstTypes, Finite DEF Seqnos
    <3> QED
      BY <3>1, <3>2, <3>3 DEF Signaled
  <2> QED
    BY <2>2, <2>3
<1> QED
  BY <1>1, Invariance, PTL

(* As long as the driver runs a fence is signalled when its picture is     *)
(* decoded or given up, neither before nor, unless a point was forgotten,  *)
(* later (timeline_fence_signaled, vdec_timeline_increase).                *)
THEOREM SignalsAreTrue == ASSUME Serial PROVE Spec => []SignalsTellDecoding
<1>1. Inv => SignalsTellDecoding
  <2> SUFFICES ASSUME Inv, NEW i \in Insts, NEW n \in Seqnos,
                      drv[i].st = "open", pt[i][n].ref > 0, ~pt[i][n].lost
               PROVE  /\ n <= tl[i].value => pt[i][n].decoded
                      /\ pt[i][n].decoded => n <= tl[i].value \/ \E m \in Seqnos : pt[i][m].lost
    BY DEF SignalsTellDecoding
  <2>1. InstOK(setup[i], tl[i], pt[i], drv[i], dec[i])
    BY InvIs
  <2>2. n \in Living(pt[i]) /\ n \in Nat /\ n # 0 /\ tl[i].value \in Nat
    BY <2>1, InstTypes, Finite DEF Living, Seqnos
  <2>3. /\ pt[i][n].decoded \/ n = drv[i].posted
        /\ pt[i][n].decoded => n <= tl[i].value \/ \E m \in Seqnos : pt[i][m].lost
    BY <2>1, <2>2 DEF InstOK, SignalOK
  <2>4. n = drv[i].posted => n > tl[i].value
    BY <2>1, <2>2, PostedIs
  <2> QED
    BY <2>2, <2>3, <2>4
<1> QED
  BY <1>1, Invariance, PTL

(* When driver, buffers, context and display are done with an instance,    *)
(* its timeline is freed and no slot of core->s_vdec_sync names it         *)
(* (sync_timeline_free).                                                   *)
THEOREM NothingIsLeft == ASSUME Serial PROVE Spec => []NothingLeft
<1>1. Inv => NothingLeft
  <2> SUFFICES ASSUME Inv, NEW i \in Insts, drv[i].st = "closed", drv[i].bufs = 0, dec[i] = 0,
                      \A n \in Seqnos : pt[i][n].disp => pt[i][n].ref = 0
               PROVE  tl[i].st # "live" /\ \A s \in Slots : sync[s].timeline # i
    BY DEF NothingLeft
  <2>1. InstOK(setup[i], tl[i], pt[i], drv[i], dec[i])
    BY InvIs
  <2>2. Torn(setup[i], drv[i], dec[i])
    BY DEF Torn
  <2>3. Living(pt[i]) = {}
    BY <2>1, <2>2 DEF InstOK, SweepOK, Living
  <2>4. tl[i].pts = <<>>
    <3>1. tl[i].pts \in Seq(Seqnos) /\ Range(tl[i].pts) = {}
      BY <2>1, <2>3, InstTypes DEF InstOK, ListOK, Listed
    <3>2. tl[i].pts # <<>> => 1 \in DOMAIN tl[i].pts
      BY <3>1
    <3>3. DOMAIN tl[i].pts = {}
      BY <3>1 DEF Range
    <3> QED
      BY <3>2, <3>3
  <2>5. Owed(setup[i], drv[i], dec[i]) = 0
    <3>1. /\ Num(drv[i].st \in {"open", "stopping"}) = 0 /\ Num(setup[i].v4l /\ drv[i].st # "closed") = 0
          /\ Num(~setup[i].v4l /\ (drv[i].bufs > 0 \/ dec[i] > 0)) = 0
      BY DEF Num
    <3> QED
      BY <3>1 DEF Owed
  <2>6. tl[i].st # "live"
    <3>1. tl[i].st # "none" => tl[i].kref = 0 /\ (tl[i].st = "freed" <=> tl[i].kref = 0)
      BY <2>1, <2>4, <2>5, KrefIs
    <3> QED
      BY <3>1
  <2>7. \A s \in Slots : sync[s].timeline # i
    BY <2>6, InstAssumption DEF Inv, SlotsOK
  <2> QED
    BY <2>6, <2>7
<1> QED
  BY <1>1, Invariance, PTL
=============================================================================
