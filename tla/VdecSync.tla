------------------------------ MODULE VdecSync ------------------------------
(***************************************************************************)
(* Fences of decoded pictures (frame_provider/decoder/utils/vdec_sync.c)   *)
(* and their users, the H.265 drivers in fence mode.  A picture is shown   *)
(* before it is decoded; its fence is signalled when it is.  A timeline is *)
(* reference-counted by the driver, by its sync points and, as long as     *)
(* picture buffers of the driver exist, once for all of them.              *)
(*                                                                         *)
(* A sync point is named by its instance and its seqno.  A section under   *)
(* obj->lock is one action.  The display is external: it may take a        *)
(* reference of its own and wait, and gives each frame back once.          *)
(***************************************************************************)
EXTENDS Integers, Functions, Lists

CONSTANTS
    Insts,      \* decoder instances, each opened once
    Slots,      \* core->s_vdec_sync
    Null,
    Setups,     \* functions from Insts to SetupRecords
    MaxSeq,     \* bound on the sync points of an instance
    MaxBufs,    \* bound on the picture buffers of an instance
    Serial      \* are the buffers of an instance released one after the other?

(* fence_usage; the V4L2 driver or the other one; may get_unused_fd_flags  *)
(* fail; may decoding fail                                                 *)
SetupRecords == [usage : {"driver", "app"}, v4l : BOOLEAN, nofd : BOOLEAN, errs : BOOLEAN]

ASSUME InstAssumption == Setups \subseteq [Insts -> SetupRecords] /\ Null \notin Insts \cup Slots
ASSUME BoundAssumption == MaxSeq \in Nat \ {0} /\ MaxBufs \in Nat \ {0} /\ Serial \in BOOLEAN

Seqnos == 1..MaxSeq

VARIABLES
    setup,
    sync,       \* struct vdec_sync of each slot
    tl,         \* struct sync_timeline of each instance
    pt,         \* struct sync_pt of each instance and seqno, and who refers to it
    drv,        \* the driver: state, slot, picture posted and not yet signalled, buffers
    dec         \* vdec_fence_buffer_count_decrease: calls between its two lines

vars == <<setup, sync, tl, pt, drv, dec>>

NoTimeline == [st |-> "none", kref |-> 0, value |-> 0, pts |-> <<>>, active |-> {}]
\* vf: the picture's vframe; fd: the sync_file of the application; disp: the
\* display's own reference; lost: the creator forgot the point
NoPt == [ref |-> 0, vf |-> "none", fd |-> FALSE, disp |-> FALSE, lost |-> FALSE,
         decoded |-> FALSE, error |-> FALSE]

Init ==
    /\ setup \in Setups
    /\ sync = [s \in Slots |-> [timeline |-> Null, buffer_count |-> 0]]
    /\ tl = [i \in Insts |-> NoTimeline]
    /\ pt = [i \in Insts |-> [n \in Seqnos |-> NoPt]]
    /\ drv = [i \in Insts |-> [st |-> "new", sync |-> Null, posted |-> 0, bufs |-> 0]]
    /\ dec = [i \in Insts |-> 0]

-----------------------------------------------------------------------------
(* Timelines and points. *)

\* Fault: signalled one step early
Signaled_Early(o, n) == n <= o.value + 1

\* timeline_fence_signaled
Signaled(o, n) == n <= o.value

\* sync_timeline_signal
Increased(o, k) ==
    LET o2 == [o EXCEPT !.value = @ + k]
    IN  [o2 EXCEPT !.active = {n \in @ : ~Signaled(o2, n)}]

\* dma_fence_get_status of point n, with its fields p, on timeline o
Status(o, p, n) == IF ~Signaled(o, n) THEN 0 ELSE IF p.error THEN -1 ELSE 1

\* sync_timeline_put, k times
Dropped(o, k) == [o EXCEPT !.kref = @ - k, !.st = IF o.kref = k THEN "freed" ELSE @]

\* timeline_fence_release of the points N
Released(o, N) ==
    Dropped([o EXCEPT !.pts = Without(@, N), !.active = @ \ N], Cardinality(N))

\* A point after its last dma_fence_put: its vframe, or a display that thinks it
\* has a reference, may be left
Gone(p) == [NoPt EXCEPT !.vf = p.vf, !.disp = p.disp, !.error = p.disp /\ p.error]

\* The points P after the holders' fields were updated and those of N were put
PutPts(P, N) == [n \in Seqnos |-> IF n \notin N THEN P[n]
                                  ELSE IF P[n].ref = 1 THEN Gone(P[n]) ELSE [P[n] EXCEPT !.ref = @ - 1]]
LastRef(P, N) == {n \in N : P[n].ref = 1}

(* The instance's timeline and points become o and P, after dma_fence_put  *)
(* of the points N.  sync_timeline_free also gives the slot back.          *)
Update(i, o, P, N) ==
    LET o2 == Released(o, LastRef(P, N))
    IN  /\ tl' = [tl EXCEPT ![i] = o2]
        /\ pt' = [pt EXCEPT ![i] = PutPts(P, N)]
        /\ sync' = IF o2.st # "freed" THEN sync ELSE [sync EXCEPT ![drv[i].sync].timeline = Null]

\* The points in pt_list
Listed(o) == Range(o.pts)

-----------------------------------------------------------------------------
(* The driver. *)

\* probe: vdec_sync_get and vdec_timeline_create; a V4L2 driver takes a second
\* reference for the context.  Without a free slot the probe fails.
Probe(i) ==
    /\ drv[i].st = "new"
    /\ LET free == {s \in Slots : sync[s].timeline = Null}
       IN  IF free = {}
           THEN /\ drv' = [drv EXCEPT ![i].st = "closed"]
                /\ UNCHANGED <<sync, tl>>
           ELSE \E s \in free :
                /\ drv' = [drv EXCEPT ![i].st = "open", ![i].sync = s]
                /\ sync' = [sync EXCEPT ![s].timeline = i]
                /\ tl' = [tl EXCEPT ![i].st = "live", ![i].kref = IF setup[i].v4l THEN 2 ELSE 1]
    /\ UNCHANGED <<setup, pt, dec>>

Count(i) == sync[drv[i].sync].buffer_count
MayCount(i) == ~setup[i].v4l /\ (Serial => dec[i] = 0)

\* Fault: no reference for the buffers
AllocBuf_NoGet(i) ==
    /\ drv[i].st = "open" /\ drv[i].bufs < MaxBufs /\ MayCount(i)
    /\ drv' = [drv EXCEPT ![i].bufs = @ + 1]
    /\ sync' = [sync EXCEPT ![drv[i].sync].buffer_count = @ + 1]
    /\ UNCHANGED <<setup, tl, pt, dec>>

\* A picture buffer is allocated: vdec_fence_buffer_count_increase
AllocBuf(i) ==
    /\ drv[i].st = "open" /\ drv[i].bufs < MaxBufs /\ MayCount(i)
    /\ drv' = [drv EXCEPT ![i].bufs = @ + 1]
    /\ sync' = [sync EXCEPT ![drv[i].sync].buffer_count = @ + 1]
    /\ tl' = IF Count(i) = 0 THEN [tl EXCEPT ![i].kref = @ + 1] ELSE tl
    /\ UNCHANGED <<setup, pt, dec>>

\* Frames with the display or parked
Busy(i) == {n \in Seqnos : pt[i][n].vf # "none"}

\* A buffer's memory is released, in an open instance only if no frame uses
\* it: the first line of vdec_fence_buffer_count_decrease
DecCount(i) ==
    /\ drv[i].bufs > 0 /\ MayCount(i) /\ (drv[i].st = "open" => drv[i].bufs > Cardinality(Busy(i)))
    /\ drv' = [drv EXCEPT ![i].bufs = @ - 1]
    /\ sync' = [sync EXCEPT ![drv[i].sync].buffer_count = @ - 1]
    /\ dec' = [dec EXCEPT ![i] = @ + 1]
    /\ UNCHANGED <<setup, tl, pt>>

\* Every fence of pt_list is put: what was the vframes' is nobody's any more
Swept(i) == [n \in Seqnos |-> IF n \in Listed(tl[i]) THEN [pt[i][n] EXCEPT !.vf = "none", !.lost = FALSE]
                              ELSE pt[i][n]]

\* Fault: the fences are left alone
DecTail_NoWalk(i) ==
    /\ dec[i] > 0 /\ tl[i].st = "live"
    /\ dec' = [dec EXCEPT ![i] = @ - 1]
    /\ IF Count(i) = 0 THEN Update(i, Dropped(tl[i], 1), pt[i], {}) ELSE UNCHANGED <<tl, pt, sync>>
    /\ UNCHANGED <<setup, drv>>

\* The rest of vdec_fence_buffer_count_decrease: the timeline's reference, then
\* the fences.  (When the put frees the timeline, its list is read after that.)
DecTail(i) ==
    /\ dec[i] > 0 /\ tl[i].st = "live"
    /\ dec' = [dec EXCEPT ![i] = @ - 1]
    /\ IF Count(i) = 0 THEN Update(i, Dropped(tl[i], 1), Swept(i), Listed(tl[i]))
       ELSE UNCHANGED <<tl, pt, sync>>
    /\ UNCHANGED <<setup, drv>>

\* vdec_timeline_create_fence: the seqno of a new point
NextSeqno(o) == LET l == IF o.pts = <<>> THEN 0 ELSE o.pts[Len(o.pts)]
                IN  IF o.value + 1 <= l THEN l + 1 ELSE o.value + 1

\* sync_pt_create
WithPt(o, n) == [o EXCEPT !.kref = @ + 1, !.pts = Append(@, n)]

MayPost(i, n) == /\ drv[i].st = "open" /\ drv[i].posted = 0
                 /\ setup[i].v4l \/ drv[i].bufs > Cardinality(Busy(i))
                 /\ n = NextSeqno(tl[i]) /\ n <= MaxSeq
                 /\ pt[i][n] = NoPt  \* the name is free again
                 /\ UNCHANGED <<setup, sync, dec>>

\* post_picture_early: a fence for the picture, which is shown at once
Post(i, n) ==
    /\ MayPost(i, n)
    /\ drv' = [drv EXCEPT ![i].posted = n]
    /\ tl' = [tl EXCEPT ![i] = WithPt(@, n)]
    /\ pt' = [pt EXCEPT ![i][n] = [NoPt EXCEPT !.ref = 1, !.vf = "shown", !.fd = setup[i].usage = "app"]]

\* The same without a free file descriptor: the new point is forgotten.  (Where
\* sync_file_create fails sync_pt_free takes the point back: nothing is left to see.)
PostNoFd(i, n) ==
    /\ MayPost(i, n) /\ setup[i].usage = "app" /\ setup[i].nofd
    /\ tl' = [tl EXCEPT ![i] = WithPt(@, n)]
    /\ pt' = [pt EXCEPT ![i][n] = [NoPt EXCEPT !.ref = 1, !.lost = TRUE]]
    /\ UNCHANGED drv

(* The posted picture is done, err tells whether decoding failed: its      *)
(* fence is signalled if it was not; when the picture went to              *)
(* prepare_display_buf, frames that wait for their fences are looked at    *)
(* again.  A fence that is gone may read as anything.                      *)
Signal(i, err, shows) ==
    LET n == drv[i].posted
        p == pt[i][n]
    IN  \E unsignalled \in IF p.ref = 0 THEN BOOLEAN ELSE {Status(tl[i], p, n) = 0} :
          LET o == IF unsignalled THEN Increased(tl[i], 1) ELSE tl[i]
              P == [pt[i] EXCEPT ![n].error = (p.ref > 0 /\ err), ![n].decoded = (p.ref > 0)]
              back == {m \in Seqnos : shows /\ P[m].vf = "parked" /\ Status(o, P[m], m) = 1 /\ P[m].ref # 2}
          IN  Update(i, o, [m \in Seqnos |-> IF m \in back THEN [P[m] EXCEPT !.vf = "none"] ELSE P[m]], back)

\* Fault: it waits for the display, which waits for the fence
DisplayBuf_Waits(i, err) ==
    /\ drv[i].st = "open" /\ drv[i].posted # 0 /\ (err => setup[i].errs)
    /\ ~pt[i][drv[i].posted].disp
    /\ Signal(i, err, TRUE)
    /\ drv' = [drv EXCEPT ![i].posted = 0]
    /\ UNCHANGED <<setup, dec>>

\* prepare_display_buf
DisplayBuf(i, err) ==
    /\ drv[i].st = "open" /\ drv[i].posted # 0 /\ (err => setup[i].errs)
    /\ Signal(i, err, TRUE)
    /\ drv' = [drv EXCEPT ![i].posted = 0]
    /\ UNCHANGED <<setup, dec>>

\* The end of the work item, when the picture never got that far
WorkEnd(i) ==
    /\ drv[i].st = "open" /\ drv[i].posted # 0 /\ setup[i].errs
    /\ Signal(i, TRUE, FALSE)
    /\ drv' = [drv EXCEPT ![i].posted = 0]
    /\ UNCHANGED <<setup, dec>>

\* remove, up to vdec_fence_release: vmh265_stop runs the work item once more
Stop(i) ==
    /\ drv[i].st = "open"
    /\ drv' = [drv EXCEPT ![i].st = "stopping", ![i].posted = 0]
    /\ IF drv[i].posted # 0 THEN Signal(i, TRUE, FALSE) ELSE UNCHANGED <<tl, pt, sync>>
    /\ UNCHANGED <<setup, dec>>

\* vdec_fence_release: every fence is signalled (VF_POOL_SIZE), the driver's
\* reference dropped
FenceRelease(i) ==
    /\ drv[i].st = "stopping"
    /\ drv' = [drv EXCEPT ![i].st = IF setup[i].v4l THEN "removed" ELSE "closed"]
    /\ Update(i, Dropped(Increased(tl[i], MaxSeq), 1), pt[i], {})
    /\ UNCHANGED <<setup, dec>>

\* The V4L2 context goes: vdec_clean_all_fence
CleanAllFence(i) ==
    /\ drv[i].st = "removed"
    /\ drv' = [drv EXCEPT ![i].st = "closed"]
    /\ Update(i, Dropped(tl[i], 1), Swept(i), Listed(tl[i]))
    /\ UNCHANGED <<setup, dec>>

-----------------------------------------------------------------------------
(* The display and the application. *)

\* dma_fence_get and timeline_fence_enable_signaling of a display that waits
DisplayTake(i, n) ==
    /\ setup[i].usage = "driver" /\ pt[i][n].vf = "shown" /\ pt[i][n].ref > 0 /\ ~pt[i][n].disp
    /\ pt' = [pt EXCEPT ![i][n].ref = @ + 1, ![i][n].disp = TRUE]
    /\ tl' = [tl EXCEPT ![i].active = IF Signaled(tl[i], n) THEN @ ELSE @ \cup {n}]
    /\ UNCHANGED <<setup, sync, drv, dec>>
DisplayDrop(i, n) ==
    /\ pt[i][n].disp /\ pt[i][n].ref > 0
    /\ Update(i, tl[i], [pt[i] EXCEPT ![n].disp = FALSE], {n})
    /\ UNCHANGED <<setup, drv, dec>>

\* The application polls its file descriptor, and closes it
Poll(i, n) ==
    /\ pt[i][n].fd /\ pt[i][n].ref > 0 /\ ~Signaled(tl[i], n) /\ n \notin tl[i].active
    /\ tl' = [tl EXCEPT ![i].active = @ \cup {n}]
    /\ UNCHANGED <<setup, sync, pt, drv, dec>>
Close(i, n) ==
    /\ pt[i][n].fd /\ pt[i][n].ref > 0
    /\ Update(i, tl[i], [pt[i] EXCEPT ![n].fd = FALSE], {n})
    /\ UNCHANGED <<setup, drv, dec>>

\* Fault: a frame is never parked
VfPut_NoPark(i, n) ==
    /\ drv[i].st = "open" /\ pt[i][n].vf = "shown"
    /\ Update(i, tl[i], [pt[i] EXCEPT ![n].vf = "none"], IF setup[i].usage = "app" THEN {} ELSE {n})
    /\ UNCHANGED <<setup, drv, dec>>

\* vf_put: a frame comes back and is parked until its fence is signalled and
\* the display let go of it
VfPut(i, n) ==
    /\ drv[i].st = "open" /\ pt[i][n].vf = "shown"
    /\ LET st == Status(tl[i], pt[i][n], n)
           parks == setup[i].usage = "driver" /\ (st = 0 \/ (st = 1 /\ pt[i][n].ref = 2))
           drop == IF parks \/ setup[i].usage = "app" THEN {} ELSE {n}
       IN  Update(i, tl[i], [pt[i] EXCEPT ![n].vf = IF parks THEN "parked" ELSE "none"], drop)
    /\ UNCHANGED <<setup, drv, dec>>

-----------------------------------------------------------------------------
Next ==
    \E i \in Insts :
       \/ Probe(i) \/ AllocBuf(i) \/ DecCount(i) \/ DecTail(i)
       \/ DisplayBuf(i, TRUE) \/ DisplayBuf(i, FALSE) \/ WorkEnd(i)
       \/ Stop(i) \/ FenceRelease(i) \/ CleanAllFence(i)
       \/ \E n \in Seqnos : \/ Post(i, n) \/ PostNoFd(i, n) \/ DisplayTake(i, n) \/ DisplayDrop(i, n)
                            \/ Poll(i, n) \/ Close(i, n) \/ VfPut(i, n)

\* A picture is decoded or given up in the end (the driver's watchdog)
Fairness == \A i \in Insts : WF_vars(DisplayBuf(i, FALSE) \/ WorkEnd(i))

Spec == Init /\ [][Next]_vars /\ Fairness

-----------------------------------------------------------------------------
(* Properties. *)

Num(b) == IF b THEN 1 ELSE 0

(* The timeline's reference count is that of the driver, the context, the  *)
(* buffers (one for all of them, until the decrease that made them zero    *)
(* has dropped it) and every point of pt_list: it is freed exactly when    *)
(* none of them is left (sync_timeline_get, sync_timeline_put).            *)
KrefExact ==
    \A i \in Insts : tl[i].st # "none" =>
        /\ tl[i].kref = Num(drv[i].st \in {"open", "stopping"})
                        + Num(setup[i].v4l /\ drv[i].st # "closed")
                        + Num(~setup[i].v4l /\ (drv[i].bufs > 0 \/ dec[i] > 0))
                        + Len(tl[i].pts)
        /\ (tl[i].st = "freed") = (tl[i].kref = 0)

\* A fence is referred to by its vframe and by the display
RefsOf(p) == Num(p.vf # "none") + Num(p.disp)

\* The display's reference to a failed picture's fence was dropped for it
DroppedEarly(p) == p.ref = 0 /\ p.vf = "none" /\ p.disp /\ p.error

(* A fence the driver itself uses (FENCE_USE_FOR_DRIVER) lives as long as  *)
(* somebody refers to it, and no longer: neither the parking of frames that*)
(* came back early (vh265.c:9519), nor the sweep with the last buffer      *)
(* (vdec_sync.c:517) or the context drops a reference that is somebody     *)
(* else's.  There is one exception: a frame whose decoding failed is not   *)
(* parked, so its display may be the only one left when the sweep comes.   *)
(* The fence the driver is about to signal is always there.  And for every *)
(* fence: what is in active_list is a point that exists, is not signalled  *)
(* and is in pt_list, since sync_timeline_signal walks active_list without *)
(* a reference.                                                            *)
DriverFencesExact ==
    \A i \in Insts :
        /\ setup[i].usage = "driver" =>
              \A n \in Seqnos : /\ pt[i][n].ref = RefsOf(pt[i][n]) \/ DroppedEarly(pt[i][n])
                                /\ drv[i].posted = n => pt[i][n].ref > 0
        /\ \A n \in tl[i].active :
              pt[i][n].ref > 0 /\ ~Signaled(tl[i], n) /\ n \in Listed(tl[i])

(* As long as the driver runs a fence is signalled when its picture is     *)
(* decoded or given up, never before, and not later either unless a point  *)
(* was forgotten for want of a file descriptor (vdec_sync.c:275): then     *)
(* seqno and value have drifted apart.                                     *)
SignalsTellDecoding ==
    \A i \in Insts, n \in Seqnos :
        (drv[i].st = "open" /\ pt[i][n].ref > 0 /\ ~pt[i][n].lost) =>
            /\ n <= tl[i].value => pt[i][n].decoded
            /\ pt[i][n].decoded => \/ n <= tl[i].value
                                   \/ \E m \in Seqnos : pt[i][m].lost

(* After the driver, its buffers and its context are gone and the display  *)
(* dropped its references nothing is left: the points of frames that never *)
(* came back were put by the last of them, the timeline is freed and the   *)
(* slot, one of VDEC_SYNC_COUNT, is free for the next instance.            *)
NothingLeft ==
    \A i \in Insts :
        /\ drv[i].st = "closed" /\ drv[i].bufs = 0 /\ dec[i] = 0
        /\ \A n \in Seqnos : pt[i][n].disp => pt[i][n].ref = 0
        => tl[i].st # "live" /\ \A s \in Slots : sync[s].timeline # i

(* Whoever waits on a fence is woken, unless a point was forgotten.        *)
WaitersWake ==
    \A i \in Insts, n \in Seqnos :
        n \in tl[i].active ~> (n \notin tl[i].active \/ \E m \in Seqnos : pt[i][m].lost)
=============================================================================
