--------------------------- MODULE VdecCoreProofs ---------------------------
(***************************************************************************)
(* Proofs about VdecCore for any set of instances of any kinds, any bound  *)
(* on their frames and any semaphore.                                      *)
(***************************************************************************)
EXTENDS VdecCoreInv, ListsProofs

(* Runs *)

\* k is j but for the run of side s of instance v, which is r
Placed(k, j, v, s, r) ==
    /\ k \in Jobs /\ k[v][s] = r
    /\ \A w \in Vdecs, x \in Sides : w # v \/ x # s => k[w][x] = j[w][x]

\* k is j but for the stage of the run of side s of instance v
Moved(k, j, v, s, st) ==
    /\ k \in Jobs /\ k[v][s].st = st /\ k[v][s].cores = j[v][s].cores
    /\ \A w \in Vdecs, x \in Sides : w # v \/ x # s => k[w][x] = j[w][x]

Stages == {"none", "run", "hung", "work", "work2"}

\* A run replaced
LEMMA JobPut ==
    ASSUME NEW j \in Jobs, NEW v \in Vdecs, NEW s \in Sides, NEW r \in JobRecords,
           NEW k, k = [j EXCEPT ![v][s] = r]
    PROVE  Placed(k, j, v, s, r)
<1>1. j[v] \in [Sides -> JobRecords] /\ [j[v] EXCEPT ![s] = r] \in [Sides -> JobRecords]
  BY DEF Jobs
<1> QED
  BY <1>1 DEF Jobs, Placed

\* A run moved on
LEMMA JobStep ==
    ASSUME NEW j \in Jobs, NEW v \in Vdecs, NEW s \in Sides, NEW st \in Stages,
           NEW k, k = [j EXCEPT ![v][s].st = st]
    PROVE  Moved(k, j, v, s, st)
<1> DEFINE r == [j[v][s] EXCEPT !.st = st]
<1>1. r \in JobRecords /\ r.st = st /\ r.cores = j[v][s].cores
  <2>1. j[v][s] \in JobRecords
    BY DEF Jobs
  <2> QED
    BY <2>1 DEF JobRecords, Stages
<1>2. k = [j EXCEPT ![v][s] = r]
  OBVIOUS
<1> HIDE DEF r
<1>3. Placed(k, j, v, s, r)
  BY <1>1, <1>2, JobPut
<1> QED
  BY <1>1, <1>3 DEF Placed, Moved

\* TypeOK, the type of job apart.
LEMMA JobType == TypeOK => /\ job \in Jobs
                           /\ \A v \in Vdecs, s \in Sides : job[v][s] \in JobRecords /\ job[v][s].cores \subseteq Cores
BY DEF TypeOK, Jobs, JobRecords

-----------------------------------------------------------------------------
(* What a step leaves alone *)

\* A step that is not about instance w: at most its hardware is stopped, or it is
\* elected.
Untouched(w) ==
    /\ status'[w] = status[w] /\ next_status'[w] = next_status[w] /\ done'[w] = done[w]
    /\ core_mask'[w] = core_mask[w] /\ (w \in combine' <=> w \in combine)
    /\ active_mask'[w] = active_mask[w] /\ sched_mask'[w] = sched_mask[w]
    /\ unread'[w] = unread[w] /\ consumed'[w] = consumed[w]
    /\ backq'[w] = backq[w] /\ out'[w] = out[w]
    /\ cbs'[w] = cbs[w] /\ u'[w] = u[w]
    /\ (w \in Range(list') <=> w \in Range(list)) /\ (w \in disc' <=> w \in disc)
    /\ t'.v = w => t.v = w \/ next_status[w] = "connected"
    /\ \A c \in Cores, s \in Sides :
          Running(job[w][s]) /\ c \in job[w][s].cores /\ act[c] = w => act'[c] = w
    /\ \A s \in Sides : /\ job'[w][s].cores = job[w][s].cores
                        /\ \/ job'[w][s].st = job[w][s].st
                           \/ job[w][s].st = "run" /\ job'[w][s].st = "hung"

\* Such a step keeps what the invariant says of w.
LEMMA UntouchedOK ==
    ASSUME NEW w \in Vdecs, TypeOK, InstanceOK(w), kind' = kind, Untouched(w)
    PROVE  InstanceOK(w)'
<1> USE DEF Sides
<1>1. /\ (Out(w) => Out(w)') /\ (Stuck(w) => Stuck(w)') /\ (NoRun(w) => NoRun(w)')
      /\ (Listed(w)' <=> Listed(w)) /\ (Probed(w)' <=> Probed(w)) /\ (Waiting(w)' <=> Waiting(w))
      /\ MainCore(w)' = MainCore(w)
  BY DEF Untouched, Out, Stuck, NoRun, Idle, Listed, Probed, Waiting, MainCore
<1>2. StageOK(w)'
  BY <1>1 DEF Untouched, InstanceOK, StageOK
<1>3. StatusOK(w)'
  BY <1>1 DEF Untouched, InstanceOK, StatusOK
<1>4. MaskOK(w)'
  BY <1>1 DEF Untouched, InstanceOK, MaskOK
<1>5. JobOK(w)'
  <2>1. \A s \in Sides : /\ (job'[w][s].st # "none" <=> job[w][s].st # "none")
                         /\ (Running(job[w][s])' <=> Running(job[w][s]))
                         /\ job'[w][s].cores = job[w][s].cores /\ job[w][s].cores \subseteq Cores
    BY JobType DEF Untouched, Running
  <2> QED
    BY <1>1, <2>1 DEF Untouched, InstanceOK, JobOK
<1> QED
  BY <1>2, <1>3, <1>4, <1>5 DEF InstanceOK

-----------------------------------------------------------------------------
(* Drivers *)

\* An instance with a run that will end is connected and active, and its user
\* has at most asked for it to be disconnected.
LEMMA AliveOK ==
    ASSUME TypeOK, NEW v \in Vdecs, InstanceOK(v), NEW s \in Sides, job[v][s].st \notin {"none", "hung"}
    PROVE  /\ Listed(v) /\ v \notin disc /\ status[v] = "active" /\ ~done[v]
           /\ u[v] \in {"idle", "wait_reset", "wait_release"} /\ Probed(v)
           /\ u[v] = "idle" => next_status[v] = "connected"
           /\ active_mask[v] # {} /\ active_mask[v] \subseteq sched_mask[v]
           /\ kind[v].drv # "none" /\ active_mask[v] \subseteq core_mask[v]
<1>1. ~Out(v) /\ ~Stuck(v) /\ ~NoRun(v)
  BY DEF Out, Stuck, NoRun, Idle
<1>2. active_mask[v] # {}
  BY DEF InstanceOK, JobOK, Sides
<1>3. u[v] \in {"idle", "wait_reset", "wait_release"} /\ Probed(v)
  <2>1. u[v] \in {"new", "idle", "wait_reset", "wait_release", "reset", "release", "unregister", "removed", "gone"}
    BY DEF TypeOK
  <2> QED
    BY <1>1, <2>1 DEF InstanceOK, StageOK, Probed
<1>4. Listed(v)
  BY <1>2, <1>3 DEF InstanceOK, StatusOK
<1>5. status[v] \in {"disconnected", "connected", "active"}
  BY DEF TypeOK
<1> QED
  BY <1>1, <1>2, <1>3, <1>4, <1>5 DEF InstanceOK, StatusOK, StageOK, MaskOK

\* What a kind is
LEMMA KindType == TypeOK => \A v \in Vdecs : kind[v] \in KindRecords /\ kind[v].bufs \in Nat
BY InstanceAssumption DEF TypeOK, KindRecords

\* up(&core->sem)
LEMMA UpType == TypeOK => Up(sem) \in 0..SemMax
BY BoundAssumption DEF TypeOK, Up

\* Lists, masks and pointers of the core that nobody touches
LEMMA CoreSame ==
    ASSUME SchedOK, PointersOK, UNCHANGED <<list, sched_mask, core_sched, last, last_run, act>>
    PROVE  SchedOK' /\ PointersOK'
BY DEF SchedOK, PointersOK, Listed

\* The elected instance is not touched: at most other cores were freed and other
\* sides of it moved on.
LEMMA PendingSame ==
    ASSUME TypeOK, PendingOK, kind' = kind, t' = t, disc' \subseteq disc, core_sched' \subseteq core_sched,
           t.v \in Vdecs => /\ t.v \in Range(list') /\ core_mask'[t.v] = core_mask[t.v]
                           /\ u'[t.v] \in {"idle", "wait_reset", "wait_release"}
                           /\ active_mask'[t.v] = active_mask[t.v]
                           /\ unread'[t.v] = unread[t.v] /\ consumed'[t.v] = consumed[t.v]
                           /\ backq'[t.v] = backq[t.v] /\ out'[t.v] = out[t.v]
                           /\ (job[t.v][PendingSide].st = "none" => job'[t.v][PendingSide].st = "none")
    PROVE  PendingOK'
BY DEF PendingOK, PendingSide, MainCore, Listed

\* So it is for a step of another instance.
LEMMA PendingUntouched ==
    ASSUME TypeOK, PendingOK, kind' = kind, t' = t, disc' \subseteq disc, core_sched' \subseteq core_sched,
           t.v \in Vdecs => Untouched(t.v)
    PROVE  PendingOK'
<1>1. t.v \in Vdecs => /\ t.pc \in {"grant", "run"} /\ t.v \in Range(list)
                       /\ u[t.v] \in {"idle", "wait_reset", "wait_release"}
  BY InstanceAssumption DEF PendingOK, Listed
<1>2. PendingSide \in Sides
  BY DEF PendingSide, Sides
<1> QED
  BY <1>1, <1>2, PendingSame DEF Untouched

\* Nothing of what the irq threads wait for changes.
LEMMA IrqSame ==
    ASSUME TypeOK, PendingOK, IrqOK, kind' = kind, t' = t,
           \A w \in Vdecs : irqpend'[w] \subseteq irqpend[w],
           \A w \in Vdecs, s \in Sides : job'[w][s].st = "run" => job[w][s].st = "run"
    PROVE  IrqOK'
<1>1. PendingSide' = PendingSide
  BY DEF PendingSide
<1>2. t.pc \in {"grant", "run"} => t.v \in Vdecs
  BY DEF PendingOK
<1> QED
  BY <1>1, <1>2 DEF IrqOK

\* vdec_isr
LEMMA IsrOK ==
    ASSUME Inv, NEW v \in Vdecs, NEW s \in Sides, Isr(v, s)
    PROVE  Inv'
<1> USE DEF statusVars, maskVars, schedVars, dataVars, drvVars, thrVars
<1>1. /\ job' = [job EXCEPT ![v][s].st = "work"] /\ irqpend' = [irqpend EXCEPT ![v] = @ \cup {s}]
      /\ job[v][s].st = "run" /\ s \notin irqpend[v]
      /\ UNCHANGED <<kind, status, next_status, done, core_mask, combine, active_mask, sched_mask, core_sched,
                     last, last_run, act, unread, consumed, backq, out, need_more, cbs, t, disc, list, sem, u>>
  BY DEF Isr, SetJob
<1>2. TypeOK /\ InstanceOK(v) /\ PendingOK /\ SchedOK /\ PointersOK /\ IrqOK
      /\ \A w \in Vdecs : InstanceOK(w)
  BY DEF Inv
<1>3. Moved(job', job, v, s, "work")
  BY <1>1, <1>2, JobType, JobStep DEF Stages
<1>4. TypeOK'
  BY <1>1, <1>2, <1>3 DEF TypeOK, Moved
<1>5. InstanceOK(v)'
  <2>1. /\ Listed(v)' /\ v \notin disc' /\ status'[v] = "active" /\ ~done'[v]
        /\ u'[v] \in {"idle", "wait_reset", "wait_release"}
        /\ u'[v] = "idle" => next_status'[v] = "connected"
    BY <1>1, <1>2, AliveOK DEF Listed
  <2>2. StageOK(v)'
    BY <1>1, <1>2, <2>1 DEF InstanceOK, StageOK, Probed, Waiting
  <2>3. StatusOK(v)' /\ MaskOK(v)'
    BY <1>1, <1>2, <2>1 DEF InstanceOK, StatusOK, MaskOK, Listed, Probed
  <2>4. JobOK(v)'
    BY <1>1, <1>2, <1>3 DEF InstanceOK, JobOK, Moved, Running, MainCore, Sides
  <2> QED
    BY <2>2, <2>3, <2>4 DEF InstanceOK
<1>6. ASSUME NEW w \in Vdecs, w # v PROVE InstanceOK(w)'
  BY <1>1, <1>2, <1>3, <1>6, UntouchedOK DEF Untouched, Moved
<1>7. SchedOK' /\ PointersOK'
  BY <1>1, <1>2 DEF SchedOK, PointersOK, Listed
<1>8. PendingOK'
  BY <1>1, <1>2, <1>3 DEF PendingOK, PendingSide, Moved, Listed, MainCore, Sides
<1>9. IrqOK'
  <2>1. \A w \in Vdecs : irqpend'[w] = IF w = v THEN irqpend[v] \cup {s} ELSE irqpend[w]
    BY <1>1, <1>2 DEF TypeOK
  <2>2. \A w \in Vdecs, x \in Sides : job'[w][x].st = IF w = v /\ x = s THEN "work" ELSE job[w][x].st
    BY <1>3 DEF Moved
  <2>3. t.pc \in {"grant", "run"} => /\ t.v \in Vdecs /\ job[t.v][PendingSide].st = "none"
                                     /\ PendingSide \in Sides
    BY <1>2 DEF PendingOK, PendingSide, Sides
  <2> QED
    BY <1>1, <1>2, <2>1, <2>2, <2>3 DEF IrqOK, PendingSide
<1> QED
  BY <1>4, <1>5, <1>6, <1>7, <1>8, <1>9 DEF Inv

\* The end of vdec_thread_isr
LEMMA IrqThreadDoneOK ==
    ASSUME Inv, NEW v \in Vdecs, NEW s \in Sides, IrqThreadDone(v, s)
    PROVE  Inv'
<1> USE DEF statusVars, maskVars, schedVars, dataVars, drvVars, thrVars
<1>1. /\ irqpend' = [irqpend EXCEPT ![v] = @ \ {s}]
      /\ UNCHANGED <<kind, status, next_status, done, core_mask, combine, active_mask, sched_mask, core_sched,
                     last, last_run, act, unread, consumed, backq, out, need_more, job, cbs, t, disc, list, sem, u>>
  BY DEF IrqThreadDone
<1>2. TypeOK /\ PendingOK /\ SchedOK /\ PointersOK /\ IrqOK /\ \A w \in Vdecs : InstanceOK(w)
  BY DEF Inv
<1>3. TypeOK'
  BY <1>1, <1>2 DEF TypeOK
<1>4. ASSUME NEW w \in Vdecs PROVE Untouched(w)
  BY <1>1 DEF Untouched
<1>5. ASSUME NEW w \in Vdecs PROVE InstanceOK(w)'
  BY <1>1, <1>2, <1>4, UntouchedOK
<1>6. SchedOK' /\ PointersOK'
  BY <1>1, <1>2, CoreSame
<1>7. PendingOK'
  BY <1>1, <1>2, <1>4, PendingUntouched
<1>8. IrqOK'
  <2>1. \A w \in Vdecs : irqpend'[w] \subseteq irqpend[w]
    BY <1>1, <1>2 DEF TypeOK
  <2> QED
    BY <1>1, <1>2, <2>1, IrqSame
<1> QED
  BY <1>3, <1>5, <1>6, <1>7, <1>8 DEF Inv

\* The hardware hangs
LEMMA HangOK ==
    ASSUME Inv, NEW v \in Vdecs, NEW s \in Sides, Hang(v, s)
    PROVE  Inv'
<1> USE DEF statusVars, maskVars, schedVars, dataVars, drvVars, thrVars
<1>1. /\ job' = [job EXCEPT ![v][s].st = "hung"] /\ job[v][s].st = "run"
      /\ UNCHANGED <<kind, status, next_status, done, core_mask, combine, active_mask, sched_mask, core_sched,
                     last, last_run, act, unread, consumed, backq, out, need_more, irqpend, cbs, t, disc, list, sem, u>>
  BY DEF Hang, SetJob
<1>2. TypeOK /\ PendingOK /\ SchedOK /\ PointersOK /\ IrqOK /\ \A w \in Vdecs : InstanceOK(w)
  BY DEF Inv
<1>3. Moved(job', job, v, s, "hung")
  BY <1>1, <1>2, JobType, JobStep DEF Stages
<1>4. TypeOK'
  BY <1>1, <1>2, <1>3 DEF TypeOK, Moved
<1>5. ASSUME NEW w \in Vdecs PROVE Untouched(w)
  BY <1>1, <1>3 DEF Untouched, Moved
<1>6. ASSUME NEW w \in Vdecs PROVE InstanceOK(w)'
  BY <1>1, <1>2, <1>5, UntouchedOK
<1>7. SchedOK' /\ PointersOK'
  BY <1>1, <1>2, CoreSame
<1>8. PendingOK'
  BY <1>1, <1>2, <1>5, PendingUntouched
<1>9. IrqOK'
  BY <1>1, <1>2, <1>3, IrqSame DEF Moved
<1> QED
  BY <1>4, <1>6, <1>7, <1>8, <1>9 DEF Inv

\* vdec_callback
LEMMA CallbackOK ==
    ASSUME Inv, NEW v \in Vdecs, NEW s \in Sides, Callback(v, s)
    PROVE  Inv'
<1> USE DEF statusVars, maskVars, schedVars, dataVars, drvVars, thrVars
<1>1. /\ cbs' = [cbs EXCEPT ![v] = @ \ {s}] /\ sem' = Up(sem)
      /\ UNCHANGED <<kind, status, next_status, done, core_mask, combine, active_mask, sched_mask, core_sched,
                     last, last_run, act, unread, consumed, backq, out, need_more, job, irqpend, t, disc, list, u>>
  BY DEF Callback
<1>2. TypeOK /\ PendingOK /\ SchedOK /\ PointersOK /\ IrqOK /\ \A w \in Vdecs : InstanceOK(w)
  BY DEF Inv
<1>3. TypeOK'
  BY <1>1, <1>2, UpType DEF TypeOK
<1>4. InstanceOK(v)'
  <2>1. cbs'[v] \subseteq cbs[v]
    BY <1>1, <1>2 DEF TypeOK
  <2>2. StageOK(v)'
    BY <1>1, <1>2, <2>1 DEF InstanceOK, StageOK, Out, Stuck, Idle, NoRun, Listed, Probed, Waiting
  <2>3. StatusOK(v)' /\ MaskOK(v)' /\ JobOK(v)'
    BY <1>1, <1>2 DEF InstanceOK, StatusOK, MaskOK, JobOK, Out, NoRun, Listed, Probed, MainCore
  <2> QED
    BY <2>2, <2>3 DEF InstanceOK
<1>5. ASSUME NEW w \in Vdecs, w # v PROVE InstanceOK(w)'
  BY <1>1, <1>2, <1>5, UntouchedOK DEF Untouched, TypeOK
<1>6. SchedOK' /\ PointersOK'
  BY <1>1, <1>2, CoreSame
<1>7. PendingOK'
  BY <1>1, <1>2 DEF PendingOK, PendingSide, MainCore, Listed
<1>8. IrqOK'
  BY <1>1, <1>2, IrqSame
<1> QED
  BY <1>3, <1>4, <1>5, <1>6, <1>7, <1>8 DEF Inv

-----------------------------------------------------------------------------
(* Users: data *)

\* The driver's vf_put
LEMMA PutOK ==
    ASSUME Inv, NEW v \in Vdecs, Put(v)
    PROVE  Inv'
<1> USE DEF statusVars, maskVars, schedVars, dataVars, drvVars, thrVars
<1>1. /\ out' = [out EXCEPT ![v] = @ - 1] /\ out[v] > 0 /\ sem' = Up(sem)
      /\ UNCHANGED <<kind, status, next_status, done, core_mask, combine, active_mask, sched_mask, core_sched,
                     last, last_run, act, unread, consumed, backq, need_more, job, irqpend, cbs, t, disc, list, u>>
  BY DEF Put
<1>2. TypeOK /\ PendingOK /\ SchedOK /\ PointersOK /\ IrqOK /\ \A w \in Vdecs : InstanceOK(w)
  BY DEF Inv
<1>3. /\ out \in [Vdecs -> Nat] /\ backq \in [Vdecs -> Nat] /\ \A w \in Vdecs : kind[w].bufs \in Nat
      /\ out' \in [Vdecs -> Nat] /\ \A w \in Vdecs : out'[w] <= out[w]
  <2>1. out \in [Vdecs -> Nat] /\ backq \in [Vdecs -> Nat] /\ \A w \in Vdecs : kind[w].bufs \in Nat
    BY <1>2, KindType DEF TypeOK
  <2>2. out[v] - 1 \in Nat /\ out[v] - 1 <= out[v]
    BY <1>1, <2>1
  <2> QED
    BY <1>1, <2>1, <2>2
<1>4. TypeOK'
  <2>1. \A w \in Vdecs : out'[w] + backq'[w] <= kind'[w].bufs
    BY <1>1, <1>2, <1>3, SMTT(30) DEF TypeOK
  <2> QED
    BY <1>1, <1>2, <1>3, <2>1, UpType DEF TypeOK
<1>5. InstanceOK(v)'
  <2>1. StageOK(v)' /\ StatusOK(v)' /\ MaskOK(v)'
    BY <1>1, <1>2 DEF InstanceOK, StageOK, StatusOK, MaskOK, Out, Stuck, Idle, NoRun, Listed, Probed, Waiting
  <2>2. JobOK(v)'
    BY <1>1, <1>2, <1>3 DEF InstanceOK, JobOK, MainCore
  <2> QED
    BY <2>1, <2>2 DEF InstanceOK
<1>6. ASSUME NEW w \in Vdecs, w # v PROVE InstanceOK(w)'
  BY <1>1, <1>2, <1>6, UntouchedOK DEF Untouched, TypeOK
<1>7. SchedOK' /\ PointersOK'
  BY <1>1, <1>2, CoreSame
<1>8. PendingOK'
  BY <1>1, <1>2, <1>3 DEF PendingOK, PendingSide, MainCore, Listed
<1>9. IrqOK'
  BY <1>1, <1>2, IrqSame
<1> QED
  BY <1>4, <1>5, <1>6, <1>7, <1>8, <1>9 DEF Inv

\* A frame or stream data arrives
LEMMA WriteOK ==
    ASSUME Inv, NEW v \in Vdecs, Write(v)
    PROVE  Inv'
<1> USE DEF statusVars, maskVars, schedVars, dataVars, drvVars, thrVars
<1>1. /\ unread' = [unread EXCEPT ![v] = @ + 1] /\ unread[v] < MaxFrames /\ sem' \in {sem, Up(sem)}
      /\ need_more' = [need_more EXCEPT ![v] = FALSE]
      /\ UNCHANGED <<kind, status, next_status, done, core_mask, combine, active_mask, sched_mask, core_sched,
                     last, last_run, act, consumed, backq, out, job, irqpend, cbs, t, disc, list, u>>
  BY DEF Write
<1>2. TypeOK /\ PendingOK /\ SchedOK /\ PointersOK /\ IrqOK /\ \A w \in Vdecs : InstanceOK(w)
  BY DEF Inv
<1>3. unread \in [Vdecs -> 0..MaxFrames] /\ unread' \in [Vdecs -> 0..MaxFrames]
      /\ \A w \in Vdecs : unread'[w] >= unread[w]
  BY <1>1, <1>2, BoundAssumption, SMTT(30) DEF TypeOK
<1>4. TypeOK'
  BY <1>1, <1>2, <1>3, UpType DEF TypeOK
<1>5. InstanceOK(v)'
  <2>1. StageOK(v)' /\ StatusOK(v)' /\ MaskOK(v)'
    BY <1>1, <1>2 DEF InstanceOK, StageOK, StatusOK, MaskOK, Out, Stuck, Idle, NoRun, Listed, Probed, Waiting
  <2>2. JobOK(v)'
    BY <1>1, <1>2, <1>3 DEF InstanceOK, JobOK, MainCore
  <2> QED
    BY <2>1, <2>2 DEF InstanceOK
<1>6. ASSUME NEW w \in Vdecs, w # v PROVE InstanceOK(w)'
  BY <1>1, <1>2, <1>6, UntouchedOK DEF Untouched, TypeOK
<1>7. SchedOK' /\ PointersOK'
  BY <1>1, <1>2, CoreSame
<1>8. PendingOK'
  BY <1>1, <1>2, <1>3 DEF PendingOK, PendingSide, MainCore, Listed
<1>9. IrqOK'
  BY <1>1, <1>2, IrqSame
<1> QED
  BY <1>4, <1>5, <1>6, <1>7, <1>8, <1>9 DEF Inv

-----------------------------------------------------------------------------
(* Work items *)

\* What is known of a work item of the front: the core of its run is active,
\* among the cores it is going to give back, and its input was not consumed yet.
LEMMA FrontWork ==
    ASSUME TypeOK, NEW v \in Vdecs, InstanceOK(v), job[v]["front"].st \in {"work", "work2"}
    PROVE  /\ MainCore(v) \in active_mask[v] /\ MainCore(v) \in sched_mask[v]
           /\ MainCore(v) \in (IF kind[v].drv = "fb" THEN {"hevc"} ELSE core_mask[v])
           /\ unread[v] \in 1..MaxFrames /\ consumed[v] = 0
           /\ out[v] \in Nat /\ backq[v] \in Nat /\ out[v] + backq[v] < kind[v].bufs /\ kind[v].bufs \in Nat
           /\ kind[v].drv # "fb" => job[v]["back"].st = "none"
<1>1. "front" \in Sides /\ "back" \in Sides
  BY DEF Sides
<1>2. /\ active_mask[v] \subseteq sched_mask[v] /\ active_mask[v] \subseteq core_mask[v]
      /\ kind[v].drv # "none" /\ Probed(v)
  BY <1>1, AliveOK
<1>3. MainCore(v) \in active_mask[v] /\ unread[v] > 0 /\ out[v] + backq[v] < kind[v].bufs
      /\ (kind[v].drv # "fb" => job[v]["back"].st = "none")
      /\ ~(consumed[v] > 0)
  BY DEF InstanceOK, JobOK
<1>4. /\ unread[v] \in 0..MaxFrames /\ consumed[v] \in 0..1 /\ out[v] \in Nat /\ backq[v] \in Nat
      /\ kind[v].bufs \in Nat
  BY KindType DEF TypeOK
<1> QED
  BY <1>2, <1>3, <1>4, BoundAssumption DEF MainCore

\* A work item of the front or of a single core
LEMMA WorkOK ==
    ASSUME Inv, NEW v \in Vdecs, Work(v)
    PROVE  Inv'
<1> USE DEF statusVars, maskVars, schedVars, dataVars, drvVars, thrVars
<1> DEFINE m == IF kind[v].drv = "fb" THEN {"hevc"} ELSE core_mask[v]
<1>1. /\ job' = [job EXCEPT ![v]["front"] = NoJob] /\ job[v]["front"].st \in {"work", "work2"}
      /\ cbs' = [cbs EXCEPT ![v] = @ \cup {"front"}]
      /\ unread' = [unread EXCEPT ![v] = @ - 1]
      /\ consumed' = [consumed EXCEPT ![v] = IF kind[v].stream THEN 0 ELSE @ + 1]
      /\ \/ kind[v].drv = "fb" /\ backq' = [backq EXCEPT ![v] = @ + 1] /\ out' = out
         \/ kind[v].drv # "fb" /\ out' = [out EXCEPT ![v] = @ + 1] /\ backq' = backq
      /\ active_mask' = [active_mask EXCEPT ![v] = @ \ m]
      /\ status' = [status EXCEPT ![v] = IF active_mask'[v] = {} THEN "connected" ELSE @]
      /\ UNCHANGED <<kind, next_status, done, core_mask, combine, sched_mask, core_sched,
                     last, last_run, act, need_more, irqpend, t, disc, list, sem, u>>
  BY DEF Work, Finished, FinishRun
<1>2. TypeOK /\ PendingOK /\ SchedOK /\ PointersOK /\ IrqOK /\ \A w \in Vdecs : InstanceOK(w)
  BY DEF Inv
<1>3. Placed(job', job, v, "front", NoJob)
  <2>1. NoJob \in JobRecords /\ "front" \in Sides
    BY DEF NoJob, JobRecords, Sides
  <2> QED
    BY <1>1, <1>2, <2>1, JobType, JobPut
<1>4. /\ Listed(v) /\ v \notin disc /\ status[v] = "active" /\ ~done[v]
      /\ u[v] \in {"idle", "wait_reset", "wait_release"}
      /\ u[v] = "idle" => next_status[v] = "connected"
      /\ active_mask[v] \subseteq sched_mask[v] /\ active_mask[v] \subseteq core_mask[v]
      /\ kind[v].drv # "none" /\ Probed(v)
  BY <1>1, <1>2, AliveOK DEF Sides
<1>5. /\ MainCore(v) \in active_mask[v] /\ MainCore(v) \in sched_mask[v] /\ MainCore(v) \in m
      /\ unread[v] \in 1..MaxFrames /\ consumed[v] = 0
      /\ out[v] \in Nat /\ backq[v] \in Nat /\ out[v] + backq[v] < kind[v].bufs /\ kind[v].bufs \in Nat
      /\ kind[v].drv # "fb" => job[v]["back"].st = "none"
  BY <1>1, <1>2, FrontWork
<1>6. /\ active_mask'[v] = active_mask[v] \ m
      /\ status'[v] = IF active_mask'[v] = {} THEN "connected" ELSE "active"
      /\ unread'[v] = unread[v] - 1 /\ consumed'[v] \in 0..1
      /\ backq'[v] = (IF kind[v].drv = "fb" THEN backq[v] + 1 ELSE backq[v])
      /\ out'[v] = (IF kind[v].drv = "fb" THEN out[v] ELSE out[v] + 1)
      /\ cbs'[v] = cbs[v] \cup {"front"}
  BY <1>1, <1>2, <1>4, <1>5 DEF TypeOK
<1>7. TypeOK'
  <2>1. \A w \in Vdecs : out'[w] + backq'[w] <= kind'[w].bufs
    <3>1. \A w \in Vdecs : w # v => out'[w] = out[w] /\ backq'[w] = backq[w]
      BY <1>1, <1>2 DEF TypeOK
    <3>2. out'[v] + backq'[v] = out[v] + backq[v] + 1
      BY <1>5, <1>6
    <3>3. out'[v] + backq'[v] <= kind[v].bufs
      BY <1>5, <3>2
    <3> QED
      BY <1>1, <1>2, <3>1, <3>3 DEF TypeOK
  <2>2. /\ unread' \in [Vdecs -> 0..MaxFrames] /\ consumed' \in [Vdecs -> 0..1]
        /\ out' \in [Vdecs -> Nat] /\ backq' \in [Vdecs -> Nat]
    <3>1. unread[v] - 1 \in 0..MaxFrames /\ out[v] + 1 \in Nat /\ backq[v] + 1 \in Nat
          /\ (IF kind[v].stream THEN 0 ELSE consumed[v] + 1) \in 0..1
      BY <1>5, BoundAssumption
    <3>2. /\ unread \in [Vdecs -> 0..MaxFrames] /\ consumed \in [Vdecs -> 0..1]
          /\ out \in [Vdecs -> Nat] /\ backq \in [Vdecs -> Nat]
      BY <1>2 DEF TypeOK
    <3>3. unread' \in [Vdecs -> 0..MaxFrames] /\ consumed' \in [Vdecs -> 0..1]
      BY <1>1, <3>1, <3>2
    <3>4. out' \in [Vdecs -> Nat] /\ backq' \in [Vdecs -> Nat]
      BY <1>1, <3>1, <3>2
    <3> QED
      BY <3>3, <3>4
  <2>3. /\ active_mask' \in [Vdecs -> SUBSET Cores] /\ cbs' \in [Vdecs -> SUBSET Sides]
        /\ status' \in [Vdecs -> {"disconnected", "connected", "active"}]
    BY <1>1, <1>2, <1>6 DEF TypeOK, Sides
  <2> QED
    BY <1>1, <1>2, <1>3, <2>1, <2>2, <2>3 DEF TypeOK, Placed
<1> HIDE DEF m
<1>8. InstanceOK(v)'
  <2>1. StageOK(v)'
    BY <1>1, <1>2, <1>4 DEF InstanceOK, StageOK, Listed, Probed, Waiting
  <2>2. StatusOK(v)'
    BY <1>1, <1>2, <1>4, <1>6 DEF InstanceOK, StatusOK, Listed
  <2>3. MaskOK(v)'
    BY <1>1, <1>2, <1>4, <1>6 DEF InstanceOK, MaskOK, Probed
  <2>4. JobOK(v)'
    <3>1. job'[v]["front"] = NoJob /\ job'[v]["back"] = job[v]["back"]
      BY <1>3 DEF Placed, Sides
    <3>2. CASE kind[v].drv = "fb"
      <4>1. "hevcb" \notin m
        BY <3>2 DEF m
      <4> QED
        BY <1>1, <1>2, <1>5, <1>6, <3>1, <3>2, <4>1 DEF InstanceOK, JobOK, NoJob, Running, MainCore, Sides
    <3>3. CASE kind[v].drv # "fb"
      BY <1>1, <1>2, <1>5, <1>6, <3>1, <3>3 DEF InstanceOK, JobOK, NoJob, Running, MainCore, Sides
    <3> QED
      BY <3>2, <3>3
  <2> QED
    BY <2>1, <2>2, <2>3, <2>4 DEF InstanceOK
<1>9. ASSUME NEW w \in Vdecs, w # v PROVE Untouched(w)
  <2>1. /\ cbs'[w] = cbs[w] /\ unread'[w] = unread[w] /\ consumed'[w] = consumed[w]
        /\ backq'[w] = backq[w] /\ out'[w] = out[w]
        /\ active_mask'[w] = active_mask[w] /\ status'[w] = status[w]
    <3>1. /\ DOMAIN cbs = Vdecs /\ DOMAIN unread = Vdecs /\ DOMAIN consumed = Vdecs
          /\ DOMAIN backq = Vdecs /\ DOMAIN out = Vdecs
          /\ DOMAIN active_mask = Vdecs /\ DOMAIN status = Vdecs
      BY <1>2 DEF TypeOK
    <3>2. backq'[w] = backq[w] /\ out'[w] = out[w]
      BY <1>1, <1>9, <3>1
    <3> QED
      BY <1>1, <1>9, <3>1, <3>2
  <2>2. \A s \in Sides : job'[w][s] = job[w][s]
    BY <1>3, <1>9 DEF Placed
  <2> QED
    BY <1>1, <2>1, <2>2 DEF Untouched
<1>10. ASSUME NEW w \in Vdecs, w # v PROVE InstanceOK(w)'
  BY <1>1, <1>2, <1>9, <1>10, UntouchedOK
<1>11. SchedOK' /\ PointersOK'
  BY <1>1, <1>2, CoreSame
<1>12. PendingOK'
  <2>1. CASE t.v = v
    <3>1. t.pc \in {"grant", "run"} /\ PendingSide = "back"
      BY <1>1, <1>2, <2>1, InstanceAssumption DEF PendingOK, PendingSide
    <3>2. t.m = {"hevcb"} /\ kind[v].drv = "fb"
      BY <1>2, <2>1, <3>1 DEF PendingOK, PendingSide, MainCore
    <3>3. job'[v]["back"] = job[v]["back"] /\ m = {"hevc"} /\ backq'[v] > 0
      BY <1>3, <1>5, <1>6, <3>2 DEF Placed, Sides, m
    <3> QED
      BY <1>1, <1>2, <1>6, <2>1, <3>1, <3>2, <3>3 DEF PendingOK, PendingSide, Listed
  <2>2. CASE t.v # v
    BY <1>1, <1>2, <1>9, <2>2, PendingUntouched
  <2> QED
    BY <2>1, <2>2
<1>13. IrqOK'
  BY <1>1, <1>2, <1>3, IrqSame DEF Placed, NoJob
<1> QED
  BY <1>7, <1>8, <1>10, <1>11, <1>12, <1>13 DEF Inv

\* A work item of the back core
LEMMA WorkBackOK ==
    ASSUME Inv, NEW v \in Vdecs, WorkBack(v)
    PROVE  Inv'
<1> USE DEF statusVars, maskVars, schedVars, dataVars, drvVars, thrVars
<1>1. /\ job' = [job EXCEPT ![v]["back"] = NoJob] /\ job[v]["back"].st = "work"
      /\ cbs' = [cbs EXCEPT ![v] = @ \cup {"back"}]
      /\ backq' = [backq EXCEPT ![v] = @ - 1] /\ out' = [out EXCEPT ![v] = @ + 1]
      /\ active_mask' = [active_mask EXCEPT ![v] = @ \ {"hevcb"}]
      /\ status' = [status EXCEPT ![v] = IF active_mask'[v] = {} THEN "connected" ELSE @]
      /\ UNCHANGED <<kind, next_status, done, core_mask, combine, sched_mask, core_sched, last, last_run,
                     act, unread, consumed, need_more, irqpend, t, disc, list, sem, u>>
  BY DEF WorkBack, Finished, FinishRun
<1>2. TypeOK /\ PendingOK /\ SchedOK /\ PointersOK /\ IrqOK /\ \A w \in Vdecs : InstanceOK(w)
  BY DEF Inv
<1>3. Placed(job', job, v, "back", NoJob)
  <2>1. NoJob \in JobRecords /\ "back" \in Sides
    BY DEF NoJob, JobRecords, Sides
  <2> QED
    BY <1>1, <1>2, <2>1, JobType, JobPut
<1>4. /\ Listed(v) /\ v \notin disc /\ status[v] = "active" /\ ~done[v]
      /\ u[v] \in {"idle", "wait_reset", "wait_release"}
      /\ u[v] = "idle" => next_status[v] = "connected"
      /\ active_mask[v] \subseteq sched_mask[v] /\ active_mask[v] \subseteq core_mask[v]
      /\ kind[v].drv # "none" /\ Probed(v)
  BY <1>1, <1>2, AliveOK DEF Sides
<1>5. kind[v].drv = "fb" /\ "hevcb" \in active_mask[v] /\ backq[v] > 0
      /\ backq[v] \in Nat /\ out[v] \in Nat /\ kind[v].bufs \in Nat
  BY <1>1, <1>2, KindType DEF InstanceOK, JobOK, TypeOK
<1>6. /\ active_mask'[v] = active_mask[v] \ {"hevcb"}
      /\ status'[v] = IF active_mask'[v] = {} THEN "connected" ELSE "active"
      /\ backq'[v] = backq[v] - 1 /\ out'[v] = out[v] + 1
      /\ cbs'[v] = cbs[v] \cup {"back"} /\ out'[v] + backq'[v] = out[v] + backq[v]
      /\ backq'[v] \in Nat /\ out'[v] \in Nat
  BY <1>1, <1>2, <1>4, <1>5 DEF TypeOK
<1>7. TypeOK'
  <2>1. \A w \in Vdecs : out'[w] + backq'[w] <= kind'[w].bufs
    BY <1>1, <1>2, <1>6 DEF TypeOK
  <2>2. out' \in [Vdecs -> Nat] /\ backq' \in [Vdecs -> Nat]
    BY <1>1, <1>2, <1>6 DEF TypeOK
  <2>3. /\ active_mask' \in [Vdecs -> SUBSET Cores] /\ cbs' \in [Vdecs -> SUBSET Sides]
        /\ status' \in [Vdecs -> {"disconnected", "connected", "active"}]
    BY <1>1, <1>2, <1>6 DEF TypeOK, Sides
  <2> QED
    BY <1>1, <1>2, <1>3, <2>1, <2>2, <2>3 DEF TypeOK, Placed
<1>8. InstanceOK(v)'
  <2>1. StageOK(v)'
    BY <1>1, <1>2, <1>4 DEF InstanceOK, StageOK, Listed, Probed, Waiting
  <2>2. StatusOK(v)'
    BY <1>1, <1>2, <1>4, <1>6 DEF InstanceOK, StatusOK, Listed
  <2>3. MaskOK(v)'
    BY <1>1, <1>2, <1>4, <1>6 DEF InstanceOK, MaskOK, Probed
  <2>4. JobOK(v)'
    <3>1. job'[v]["back"] = NoJob /\ job'[v]["front"] = job[v]["front"] /\ MainCore(v) = "hevc"
      BY <1>3, <1>5 DEF Placed, Sides, MainCore
    <3> QED
      BY <1>1, <1>2, <1>5, <1>6, <3>1 DEF InstanceOK, JobOK, NoJob, Running, MainCore, Sides
  <2> QED
    BY <2>1, <2>2, <2>3, <2>4 DEF InstanceOK
<1>9. ASSUME NEW w \in Vdecs, w # v PROVE Untouched(w)
  BY <1>1, <1>2, <1>3, <1>9 DEF Untouched, TypeOK, Placed
<1>10. ASSUME NEW w \in Vdecs, w # v PROVE InstanceOK(w)'
  BY <1>1, <1>2, <1>9, <1>10, UntouchedOK
<1>11. SchedOK' /\ PointersOK'
  BY <1>1, <1>2, CoreSame
<1>12. PendingOK'
  <2>1. CASE t.v = v
    <3>1. t.pc \in {"grant", "run"} /\ PendingSide = "front"
      BY <1>1, <1>2, <2>1, InstanceAssumption DEF PendingOK, PendingSide
    <3>2. t.m = {"hevc"}
      BY <1>2, <1>5, <2>1, <3>1 DEF PendingOK, PendingSide
    <3>3. job'[v]["front"] = job[v]["front"]
      BY <1>3 DEF Placed, Sides
    <3> QED
      BY <1>1, <1>2, <1>6, <2>1, <3>1, <3>2, <3>3 DEF PendingOK, PendingSide, Listed, MainCore
  <2>2. CASE t.v # v
    BY <1>1, <1>2, <1>9, <2>2, PendingUntouched
  <2> QED
    BY <2>1, <2>2
<1>13. IrqOK'
  BY <1>1, <1>2, <1>3, IrqSame DEF Placed, NoJob
<1> QED
  BY <1>7, <1>8, <1>10, <1>11, <1>12, <1>13 DEF Inv

\* An H.264 instance with a work item under way is not the elected one.
LEMMA MmuNotPending ==
    ASSUME TypeOK, PendingOK, NEW v \in Vdecs, kind[v].drv = "h264", job[v]["front"].st = "work"
    PROVE  t.v # v
<1> SUFFICES ASSUME t.v = v PROVE FALSE
  OBVIOUS
<1>1. t.pc \in {"grant", "run"} /\ PendingSide = "back"
  BY InstanceAssumption DEF PendingOK, PendingSide
<1> QED
  BY <1>1 DEF PendingOK, PendingSide, MainCore

\* set_mmu_config
LEMMA SetMmuOK ==
    ASSUME Inv, NEW v \in Vdecs, SetMmu(v)
    PROVE  Inv'
<1> USE DEF statusVars, maskVars, schedVars, dataVars, drvVars, thrVars
<1>1. /\ job' = [job EXCEPT ![v]["front"].st = "work2"] /\ job[v]["front"].st = "work"
      /\ kind[v].drv = "h264"
      /\ core_mask' = [core_mask EXCEPT ![v] = Cores] /\ combine' = combine \cup {v}
      /\ UNCHANGED <<kind, status, next_status, done, active_mask, sched_mask, core_sched, last, last_run, act,
                     unread, consumed, backq, out, need_more, irqpend, cbs, t, disc, list, sem, u>>
  BY DEF SetMmu, SetJob
<1>2. TypeOK /\ PendingOK /\ SchedOK /\ PointersOK /\ IrqOK /\ \A w \in Vdecs : InstanceOK(w)
  BY DEF Inv
<1>3. Moved(job', job, v, "front", "work2")
  BY <1>1, <1>2, JobType, JobStep DEF Stages, Sides
<1>4. TypeOK'
  BY <1>1, <1>2, <1>3 DEF TypeOK, Moved
<1>5. InstanceOK(v)'
  <2>1. /\ Listed(v) /\ v \notin disc /\ status[v] = "active" /\ ~done[v]
        /\ u[v] \in {"idle", "wait_reset", "wait_release"}
        /\ u[v] = "idle" => next_status[v] = "connected"
    BY <1>1, <1>2, AliveOK DEF Sides
  <2>2. StageOK(v)'
    BY <1>1, <1>2, <2>1 DEF InstanceOK, StageOK, Probed, Waiting, Listed
  <2>3. StatusOK(v)'
    BY <1>1, <1>2, <2>1 DEF InstanceOK, StatusOK, Listed
  <2>4. MaskOK(v)'
    BY <1>1, <1>2, <2>1 DEF MaskOK, Probed, TypeOK
  <2>5. JobOK(v)'
    BY <1>1, <1>2, <1>3 DEF InstanceOK, JobOK, Moved, Running, MainCore, Sides
  <2> QED
    BY <2>2, <2>3, <2>4, <2>5 DEF InstanceOK
<1>6. ASSUME NEW w \in Vdecs, w # v PROVE Untouched(w)
  BY <1>1, <1>2, <1>3, <1>6 DEF Untouched, TypeOK, Moved
<1>7. ASSUME NEW w \in Vdecs, w # v PROVE InstanceOK(w)'
  BY <1>1, <1>2, <1>6, <1>7, UntouchedOK
<1>8. SchedOK' /\ PointersOK'
  BY <1>1, <1>2, CoreSame
<1>9. PendingOK'
  BY <1>1, <1>2, <1>6, MmuNotPending, PendingUntouched
<1>10. IrqOK'
  BY <1>1, <1>2, <1>3, IrqSame DEF Moved
<1> QED
  BY <1>4, <1>5, <1>7, <1>8, <1>9, <1>10 DEF Inv

\* clear_mmu_config
LEMMA ClearMmuOK ==
    ASSUME Inv, NEW v \in Vdecs, ClearMmu(v)
    PROVE  Inv'
<1> USE DEF statusVars, maskVars, schedVars, dataVars, drvVars, thrVars
<1>1. /\ job' = [job EXCEPT ![v]["front"].st = "work2"] /\ job[v]["front"].st = "work"
      /\ kind[v].drv = "h264"
      /\ core_mask' = [core_mask EXCEPT ![v] = {"vdec1"}] /\ combine' = combine \ {v}
      /\ active_mask' = [active_mask EXCEPT ![v] = @ \ {"hevc", "hevcb"}]
      /\ status' = [status EXCEPT ![v] = IF active_mask'[v] = {} THEN "connected" ELSE @]
      /\ UNCHANGED <<kind, next_status, done, sched_mask, core_sched, last, last_run, act,
                     unread, consumed, backq, out, need_more, irqpend, cbs, t, disc, list, sem, u>>
  BY DEF ClearMmu, SetJob, FinishRun
<1>2. TypeOK /\ PendingOK /\ SchedOK /\ PointersOK /\ IrqOK /\ \A w \in Vdecs : InstanceOK(w)
  BY DEF Inv
<1>3. Moved(job', job, v, "front", "work2")
  BY <1>1, <1>2, JobType, JobStep DEF Stages, Sides
<1>4. /\ "vdec1" \in active_mask[v] /\ job[v]["back"].st = "none"
      /\ active_mask'[v] = active_mask[v] \ {"hevc", "hevcb"} /\ status' = status
  <2>1. "vdec1" \in active_mask[v] /\ job[v]["back"].st = "none"
    BY <1>1, <1>2 DEF InstanceOK, JobOK, MainCore
  <2>2. active_mask'[v] = active_mask[v] \ {"hevc", "hevcb"}
    BY <1>1, <1>2 DEF TypeOK
  <2>3. active_mask'[v] # {}
    BY <2>1, <2>2
  <2>4. status' = [status EXCEPT ![v] = @]
    BY <1>1, <2>3, Zenon
  <2>5. status' = status
    BY <1>2, <2>4 DEF TypeOK
  <2> QED
    BY <2>1, <2>2, <2>5
<1>5. TypeOK'
  <2>1. active_mask' \in [Vdecs -> SUBSET Cores] /\ core_mask' \in [Vdecs -> SUBSET Cores]
    BY <1>1, <1>2 DEF TypeOK, Cores
  <2> QED
    BY <1>1, <1>2, <1>3, <1>4, <2>1 DEF TypeOK, Moved
<1>6. InstanceOK(v)'
  <2>1. /\ Listed(v) /\ v \notin disc /\ status[v] = "active" /\ ~done[v]
        /\ u[v] \in {"idle", "wait_reset", "wait_release"}
        /\ u[v] = "idle" => next_status[v] = "connected"
    BY <1>1, <1>2, AliveOK DEF Sides
  <2>2. StageOK(v)'
    BY <1>1, <1>2, <1>4, <2>1 DEF InstanceOK, StageOK, Probed, Waiting, Listed
  <2>3. StatusOK(v)'
    BY <1>1, <1>2, <1>4, <2>1 DEF InstanceOK, StatusOK, Listed
  <2>4. MaskOK(v)'
    <3>1. Requested(kind[v].drv) = {"vdec1"}
      BY <1>1 DEF Requested
    <3>2. core_mask'[v] = {"vdec1"} /\ v \notin combine' /\ active_mask[v] \subseteq Cores
      BY <1>1, <1>2 DEF TypeOK
    <3> QED
      BY <1>1, <1>4, <3>1, <3>2 DEF MaskOK, Cores
  <2>5. JobOK(v)'
    BY <1>1, <1>2, <1>3, <1>4 DEF InstanceOK, JobOK, Moved, Running, MainCore, Sides
  <2> QED
    BY <2>2, <2>3, <2>4, <2>5 DEF InstanceOK
<1>7. ASSUME NEW w \in Vdecs, w # v PROVE Untouched(w)
  BY <1>1, <1>2, <1>3, <1>4, <1>7 DEF Untouched, TypeOK, Moved
<1>8. ASSUME NEW w \in Vdecs, w # v PROVE InstanceOK(w)'
  BY <1>1, <1>2, <1>7, <1>8, UntouchedOK
<1>9. SchedOK' /\ PointersOK'
  BY <1>1, <1>2, CoreSame
<1>10. PendingOK'
  BY <1>1, <1>2, <1>7, MmuNotPending, PendingUntouched
<1>11. IrqOK'
  BY <1>1, <1>2, <1>3, IrqSame DEF Moved
<1> QED
  BY <1>5, <1>6, <1>8, <1>9, <1>10, <1>11 DEF Inv

-----------------------------------------------------------------------------
(* Users: connect, disconnect, reset, release *)

\* Only an instance whose user has at most asked for a disconnect is elected.
LEMMA NotPending ==
    ASSUME TypeOK, PendingOK, NEW v \in Vdecs, u[v] \notin {"idle", "wait_reset", "wait_release"}
    PROVE  t.v # v
BY InstanceAssumption DEF PendingOK

\* An instance without cores joins the list.
LEMMA ListJoin ==
    ASSUME TypeOK, SchedOK, PointersOK, NEW v \in Vdecs, sched_mask[v] = {},
           list' = Append(list, v), UNCHANGED <<sched_mask, core_sched, last, last_run, act>>
    PROVE  /\ list' \in Seq(Vdecs) /\ Range(list') = Range(list) \cup {v}
           /\ SchedOK' /\ PointersOK'
<1>1. list' \in Seq(Vdecs) /\ Range(list') = Range(list) \cup {v}
  BY AppendRange DEF TypeOK
<1>2. UNION {sched_mask[w] : w \in Range(list) \cup {v}} = UNION {sched_mask[w] : w \in Range(list)}
  OBVIOUS
<1>3. SchedOK'
  BY <1>1, <1>2 DEF SchedOK
<1>4. PointersOK'
  BY <1>1 DEF PointersOK, Listed
<1> QED
  BY <1>1, <1>3, <1>4

\* Stopped hardware: a run becomes one that hangs.
LEMMA StopEffect ==
    ASSUME TypeOK, NEW S, Stop(S)
    PROVE  /\ job' \in Jobs
           /\ \A w \in Vdecs, s \in Sides :
                 /\ job'[w][s].cores = job[w][s].cores
                 /\ \/ job'[w][s].st = job[w][s].st
                    \/ job[w][s].st = "run" /\ job'[w][s].st = "hung"
<1>1. ASSUME NEW w \in Vdecs, NEW s \in Sides
      PROVE  /\ [job[w][s] EXCEPT !.st = "hung"] \in JobRecords
             /\ [job[w][s] EXCEPT !.st = "hung"].st = "hung"
             /\ [job[w][s] EXCEPT !.st = "hung"].cores = job[w][s].cores
             /\ job[w][s] \in JobRecords
  <2>1. job[w][s] \in JobRecords
    BY JobType
  <2> QED
    BY <2>1 DEF JobRecords
<1>2. ASSUME NEW w \in Vdecs, NEW s \in Sides
      PROVE  job'[w][s] = IF job[w][s].st = "run" /\ job[w][s].cores \cap S # {}
                          THEN [job[w][s] EXCEPT !.st = "hung"] ELSE job[w][s]
  BY DEF Stop
<1>3. \A w \in Vdecs, s \in Sides : job'[w][s] \in JobRecords
  BY <1>1, <1>2
<1>4. job' \in Jobs
  <2>1. job' = [w \in Vdecs |-> [s \in Sides |-> job'[w][s]]]
    BY DEF Stop
  <2> QED
    BY <1>3, <2>1 DEF Jobs
<1>5. ASSUME NEW w \in Vdecs, NEW s \in Sides
      PROVE  /\ job'[w][s].cores = job[w][s].cores
             /\ \/ job'[w][s].st = job[w][s].st
                \/ job[w][s].st = "run" /\ job'[w][s].st = "hung"
  <2>1. CASE job[w][s].st = "run" /\ job[w][s].cores \cap S # {}
    <3>1. job'[w][s] = [job[w][s] EXCEPT !.st = "hung"]
      BY <1>2, <2>1
    <3> QED
      BY <1>1, <2>1, <3>1
  <2>2. CASE ~(job[w][s].st = "run" /\ job[w][s].cores \cap S # {})
    <3>1. job'[w][s] = job[w][s]
      BY <1>2, <2>2
    <3> QED
      BY <3>1
  <2> QED
    BY <2>1, <2>2
<1> QED
  BY <1>4, <1>5

\* vdec_init
LEMMA OpenOK ==
    ASSUME Inv, NEW v \in Vdecs, Open(v)
    PROVE  Inv'
<1> USE DEF statusVars, maskVars, schedVars, dataVars, drvVars, thrVars
<1>1. TypeOK /\ PendingOK /\ SchedOK /\ PointersOK /\ IrqOK /\ \A w \in Vdecs : InstanceOK(w)
  BY DEF Inv
<1>2. u[v] = "new" /\ Out(v) /\ kind[v].drv # "none" /\ v \notin combine
  BY <1>1 DEF Open, InstanceOK, StageOK, MaskOK, Probed
<1>3. /\ u' = [u EXCEPT ![v] = "idle"]
      /\ core_mask' = [core_mask EXCEPT ![v] = Requested(kind[v].drv)]
      /\ status' = [status EXCEPT ![v] = "connected"]
      /\ next_status' = [next_status EXCEPT ![v] = "connected"]
      /\ done' = [done EXCEPT ![v] = FALSE]
      /\ list' = Append(list, v) /\ sem' = Up(sem)
      /\ UNCHANGED <<kind, combine, active_mask, sched_mask, core_sched, last, last_run, act,
                     unread, consumed, backq, out, need_more, job, irqpend, cbs, t, disc>>
  BY <1>2 DEF Open, Connected, Out
<1>4. /\ list' \in Seq(Vdecs) /\ Range(list') = Range(list) \cup {v}
      /\ SchedOK' /\ PointersOK'
  BY <1>1, <1>2, <1>3, ListJoin DEF Out
<1>5. TypeOK'
  <2>1. Requested(kind[v].drv) \subseteq Cores
    BY DEF Requested, Cores
  <2> QED
    BY <1>1, <1>3, <1>4, <2>1, UpType DEF TypeOK
<1>6. /\ u'[v] = "idle" /\ core_mask'[v] = Requested(kind[v].drv) /\ status'[v] = "connected"
      /\ next_status'[v] = "connected" /\ done'[v] = FALSE
  BY <1>1, <1>3 DEF TypeOK
<1>7. InstanceOK(v)'
  <2>1. StageOK(v)'
    BY <1>2, <1>3, <1>4, <1>6 DEF StageOK, Listed, Probed, Waiting
  <2>2. StatusOK(v)'
    BY <1>2, <1>3, <1>4, <1>6 DEF StatusOK, Listed, Out
  <2>3. MaskOK(v)'
    BY <1>2, <1>3, <1>6 DEF MaskOK, Out
  <2>4. JobOK(v)'
    BY <1>1, <1>2, <1>3 DEF InstanceOK, JobOK, Out, NoRun, Running, MainCore, Sides
  <2> QED
    BY <2>1, <2>2, <2>3, <2>4 DEF InstanceOK
<1>8. ASSUME NEW w \in Vdecs, w # v PROVE Untouched(w)
  BY <1>1, <1>3, <1>4, <1>8 DEF Untouched, TypeOK
<1>9. ASSUME NEW w \in Vdecs, w # v PROVE InstanceOK(w)'
  BY <1>1, <1>3, <1>8, <1>9, UntouchedOK
<1>10. PendingOK'
  BY <1>1, <1>2, <1>3, <1>8, NotPending, PendingUntouched
<1>11. IrqOK'
  BY <1>1, <1>3, IrqSame
<1> QED
  BY <1>4, <1>5, <1>7, <1>9, <1>10, <1>11 DEF Inv

\* vdec_disconnect up to its wait
LEMMA DisconnectOK ==
    ASSUME Inv, NEW v \in Vdecs, NEW why \in {"reset", "release"}, Disconnect(v, why)
    PROVE  Inv'
<1> USE DEF statusVars, maskVars, schedVars, dataVars, drvVars, thrVars
<1>1. TypeOK /\ PendingOK /\ SchedOK /\ PointersOK /\ IrqOK /\ \A w \in Vdecs : InstanceOK(w)
  BY DEF Inv
<1>2. u[v] = "idle" /\ Listed(v) /\ status[v] \in {"connected", "active"}
  BY <1>1 DEF Disconnect, InstanceOK, StageOK, StatusOK, TypeOK
<1>3. /\ \E x \in {"wait_reset", "wait_release"} : u' = [u EXCEPT ![v] = x]
      /\ next_status' = [next_status EXCEPT ![v] = "disconnected"] /\ sem' = Up(sem)
      /\ UNCHANGED <<kind, status, done, core_mask, combine, active_mask, sched_mask, core_sched,
                     last, last_run, act, unread, consumed, backq, out, need_more, job, irqpend, cbs,
                     t, disc, list>>
  BY <1>2 DEF Disconnect
<1>4. TypeOK'
  BY <1>1, <1>3, UpType, SMTT(30) DEF TypeOK
<1>5. u'[v] \in {"wait_reset", "wait_release"} /\ next_status'[v] = "disconnected"
  BY <1>1, <1>3 DEF TypeOK
<1>6. InstanceOK(v)'
  <2>1. StageOK(v)'
    BY <1>1, <1>2, <1>3, <1>5 DEF InstanceOK, StageOK, Listed, Probed, Waiting
  <2>2. StatusOK(v)'
    BY <1>1, <1>2, <1>3, <1>5 DEF InstanceOK, StatusOK, Listed, Out
  <2>3. MaskOK(v)' /\ JobOK(v)'
    BY <1>1, <1>2, <1>3, <1>5 DEF InstanceOK, MaskOK, JobOK, Probed, MainCore
  <2> QED
    BY <2>1, <2>2, <2>3 DEF InstanceOK
<1>7. ASSUME NEW w \in Vdecs, w # v PROVE InstanceOK(w)'
  BY <1>1, <1>3, <1>7, UntouchedOK DEF Untouched, TypeOK
<1>8. SchedOK' /\ PointersOK'
  BY <1>1, <1>3, CoreSame
<1>9. PendingOK'
  <2>1. \A w \in Vdecs : u[w] \in {"idle", "wait_reset", "wait_release"} =>
                           u'[w] \in {"idle", "wait_reset", "wait_release"}
    BY <1>1, <1>3, <1>5 DEF TypeOK
  <2>2. t.v \in Vdecs => /\ t.v \in Range(list)
                         /\ u[t.v] \in {"idle", "wait_reset", "wait_release"}
    BY <1>1, InstanceAssumption DEF PendingOK, Listed
  <2> QED
    BY <1>1, <1>3, <2>1, <2>2, PendingSame
<1>10. IrqOK'
  BY <1>1, <1>3, IrqSame
<1> QED
  BY <1>4, <1>6, <1>7, <1>8, <1>9, <1>10 DEF Inv

\* wait_for_completion_timeout returns in time
LEMMA DisconnectDoneOK ==
    ASSUME Inv, NEW v \in Vdecs, DisconnectDone(v)
    PROVE  Inv'
<1> USE DEF statusVars, maskVars, schedVars, dataVars, drvVars, thrVars
<1>1. TypeOK /\ PendingOK /\ SchedOK /\ PointersOK /\ IrqOK /\ \A w \in Vdecs : InstanceOK(w)
  BY DEF Inv
<1>2. Waiting(v) /\ Out(v) /\ next_status[v] = "disconnected"
  BY <1>1 DEF DisconnectDone, InstanceOK, StatusOK, StageOK
<1>3. /\ \E x \in {"reset", "release"} : u' = [u EXCEPT ![v] = x]
      /\ done' = [done EXCEPT ![v] = FALSE]
      /\ UNCHANGED <<kind, status, next_status, core_mask, combine, active_mask, sched_mask, core_sched,
                     last, last_run, act, unread, consumed, backq, out, need_more, job, irqpend, cbs,
                     t, disc, list, sem>>
  BY DEF DisconnectDone, Proceed
<1>4. TypeOK'
  BY <1>1, <1>3 DEF TypeOK
<1>5. u'[v] \in {"reset", "release"} /\ done'[v] = FALSE /\ Out(v)' /\ t.v # v
  BY <1>1, <1>2, <1>3, InstanceAssumption DEF TypeOK, Out, NoRun, Listed, PendingOK
<1>6. InstanceOK(v)'
  <2>1. StageOK(v)'
    BY <1>1, <1>2, <1>3, <1>5 DEF InstanceOK, StageOK, Probed, Waiting
  <2>2. StatusOK(v)'
    BY <1>1, <1>2, <1>3, <1>5 DEF InstanceOK, StatusOK, Listed, Out
  <2>3. MaskOK(v)' /\ JobOK(v)'
    BY <1>1, <1>2, <1>3, <1>5 DEF InstanceOK, MaskOK, JobOK, Probed, MainCore, Waiting
  <2> QED
    BY <2>1, <2>2, <2>3 DEF InstanceOK
<1>7. ASSUME NEW w \in Vdecs, w # v PROVE Untouched(w)
  BY <1>1, <1>3, <1>7 DEF Untouched, TypeOK
<1>8. ASSUME NEW w \in Vdecs, w # v PROVE InstanceOK(w)'
  BY <1>1, <1>3, <1>7, <1>8, UntouchedOK
<1>9. SchedOK' /\ PointersOK'
  BY <1>1, <1>3, CoreSame
<1>10. PendingOK'
  BY <1>1, <1>3, <1>5, <1>7, PendingUntouched
<1>11. IrqOK'
  BY <1>1, <1>3, IrqSame
<1> QED
  BY <1>4, <1>6, <1>8, <1>9, <1>10, <1>11 DEF Inv

\* discon_timeout, on an instance that hangs
LEMMA DisconnectTimeoutOK ==
    ASSUME TimeoutWhenHung, Inv, NEW v \in Vdecs, DisconnectTimeout(v)
    PROVE  Inv'
<1> USE DEF statusVars, maskVars, schedVars, dataVars, drvVars, thrVars
<1>1. TypeOK /\ PendingOK /\ SchedOK /\ PointersOK /\ IrqOK /\ \A w \in Vdecs : InstanceOK(w)
  BY DEF Inv
<1>2. Waiting(v) /\ Dead(v) /\ ~done[v]
  BY DEF DisconnectTimeout
<1>3. Stuck(v)
  <2>1. active_mask[v] # {} /\ t.v # v /\ Idle(v) /\ u[v] # "gone" /\ next_status[v] = "disconnected"
    BY <1>1, <1>2 DEF Dead, Idle, Waiting, InstanceOK, StageOK
  <2> QED
    BY <1>1, <2>1 DEF Stuck, InstanceOK, StatusOK
<1>4. /\ \E x \in {"reset", "release"} : u' = [u EXCEPT ![v] = x]
      /\ UNCHANGED <<kind, status, next_status, done, core_mask, combine, active_mask, sched_mask, core_sched,
                     last, last_run, act, unread, consumed, backq, out, need_more, irqpend, cbs,
                     t, disc, list, sem>>
  BY DEF DisconnectTimeout, Proceed
<1>5. /\ job' \in Jobs
      /\ \A w \in Vdecs, s \in Sides :
            /\ job'[w][s].cores = job[w][s].cores
            /\ \/ job'[w][s].st = job[w][s].st
               \/ job[w][s].st = "run" /\ job'[w][s].st = "hung"
  <2>1. CASE status[v] = "active"
    BY <1>1, <2>1, StopEffect DEF DisconnectTimeout
  <2>2. CASE status[v] # "active"
    BY <1>1, <2>2, JobType DEF DisconnectTimeout
  <2> QED
    BY <2>1, <2>2
<1>6. TypeOK'
  BY <1>1, <1>4, <1>5 DEF TypeOK
<1>7. u'[v] \in {"reset", "release"}
  BY <1>1, <1>4 DEF TypeOK
<1>8. \A s \in Sides : job'[v][s].st = job[v][s].st /\ job'[v][s].cores = job[v][s].cores
  BY <1>3, <1>5 DEF Stuck, Idle
<1>9. InstanceOK(v)'
  <2>1. Stuck(v)'
    BY <1>3, <1>4, <1>8 DEF Stuck, Listed, Idle
  <2>2. StageOK(v)'
    BY <1>1, <1>2, <1>4, <1>7, <2>1 DEF InstanceOK, StageOK, Probed, Waiting, Stuck
  <2>3. StatusOK(v)' /\ MaskOK(v)'
    BY <1>1, <1>2, <1>3, <1>4, <1>7 DEF InstanceOK, StatusOK, MaskOK, Listed, Waiting, Probed, Stuck
  <2>4. JobOK(v)'
    BY <1>1, <1>4, <1>8 DEF InstanceOK, JobOK, Running, MainCore, Sides
  <2> QED
    BY <2>2, <2>3, <2>4 DEF InstanceOK
<1>10. ASSUME NEW w \in Vdecs, w # v PROVE Untouched(w)
  BY <1>1, <1>4, <1>5, <1>10 DEF Untouched, TypeOK
<1>11. ASSUME NEW w \in Vdecs, w # v PROVE InstanceOK(w)'
  BY <1>1, <1>4, <1>10, <1>11, UntouchedOK
<1>12. SchedOK' /\ PointersOK'
  BY <1>1, <1>4, CoreSame
<1>13. PendingOK'
  BY <1>1, <1>3, <1>4, <1>10, PendingUntouched DEF Stuck
<1>14. IrqOK'
  BY <1>1, <1>4, <1>5, IrqSame
<1> QED
  BY <1>6, <1>9, <1>11, <1>12, <1>13, <1>14 DEF Inv

\* vdec_release up to vdec_inactive_core_reset
LEMMA InactiveCoreResetOK ==
    ASSUME Inv, NEW v \in Vdecs, InactiveCoreReset(v)
    PROVE  Inv'
<1> USE DEF statusVars, maskVars, schedVars, dataVars, drvVars, thrVars
<1>1. TypeOK /\ PendingOK /\ SchedOK /\ PointersOK /\ IrqOK /\ \A w \in Vdecs : InstanceOK(w)
  BY DEF Inv
<1>2. u[v] = "release" /\ (Out(v) \/ Stuck(v)) /\ t.v # v
  BY <1>1, NotPending DEF InactiveCoreReset, InstanceOK, StageOK
<1>3. /\ u' = [u EXCEPT ![v] = "unregister"]
      /\ UNCHANGED <<kind, status, next_status, done, core_mask, combine, active_mask, sched_mask, core_sched,
                     last, last_run, act, unread, consumed, backq, out, need_more, irqpend, cbs,
                     t, disc, list, sem>>
  BY DEF InactiveCoreReset
<1>4. /\ job' \in Jobs
      /\ \A w \in Vdecs, s \in Sides :
            /\ job'[w][s].cores = job[w][s].cores
            /\ \/ job'[w][s].st = job[w][s].st
               \/ job[w][s].st = "run" /\ job'[w][s].st = "hung"
  BY <1>1, StopEffect DEF InactiveCoreReset
<1>5. TypeOK'
  BY <1>1, <1>3, <1>4 DEF TypeOK
<1>6. u'[v] = "unregister"
  BY <1>1, <1>3 DEF TypeOK
<1>7. \A s \in Sides : job'[v][s].st = job[v][s].st /\ job'[v][s].cores = job[v][s].cores
  BY <1>2, <1>4 DEF Stuck, Out, NoRun, Idle
<1>8. InstanceOK(v)'
  <2>1. (Stuck(v) => Stuck(v)') /\ (Out(v) <=> Out(v)')
    BY <1>3, <1>7 DEF Stuck, Out, NoRun, Listed, Idle
  <2>2. StageOK(v)'
    BY <1>1, <1>2, <1>3, <1>6, <2>1 DEF InstanceOK, StageOK, Probed, Waiting
  <2>3. StatusOK(v)' /\ MaskOK(v)'
    BY <1>1, <1>2, <1>3, <1>6, <2>1 DEF InstanceOK, StatusOK, MaskOK, Listed, Probed
  <2>4. JobOK(v)'
    BY <1>1, <1>3, <1>7 DEF InstanceOK, JobOK, Running, MainCore, Sides
  <2> QED
    BY <2>2, <2>3, <2>4 DEF InstanceOK
<1>9. ASSUME NEW w \in Vdecs, w # v PROVE Untouched(w)
  BY <1>1, <1>3, <1>4, <1>9 DEF Untouched, TypeOK
<1>10. ASSUME NEW w \in Vdecs, w # v PROVE InstanceOK(w)'
  BY <1>1, <1>3, <1>9, <1>10, UntouchedOK
<1>11. SchedOK' /\ PointersOK'
  BY <1>1, <1>3, CoreSame
<1>12. PendingOK'
  BY <1>1, <1>2, <1>3, <1>9, PendingUntouched
<1>13. IrqOK'
  BY <1>1, <1>3, <1>4, IrqSame
<1> QED
  BY <1>5, <1>8, <1>10, <1>11, <1>12, <1>13 DEF Inv

\* All runs of an instance are dropped.
LEMMA JobClear ==
    ASSUME TypeOK, NEW v \in Vdecs, job' = [job EXCEPT ![v] = [s \in Sides |-> NoJob]]
    PROVE  /\ job' \in Jobs /\ \A s \in Sides : job'[v][s] = NoJob
           /\ \A w \in Vdecs : w # v => job'[w] = job[w]
<1>1. NoJob \in JobRecords
  BY DEF NoJob, JobRecords
<1>2. [s \in Sides |-> NoJob] \in [Sides -> JobRecords]
  BY <1>1
<1> QED
  BY <1>2, JobType DEF Jobs

\* vdec_reset
LEMMA ResetOK ==
    ASSUME Inv, NEW v \in Vdecs, Reset(v)
    PROVE  Inv'
<1> USE DEF statusVars, maskVars, schedVars, dataVars, drvVars, thrVars
<1>1. TypeOK /\ PendingOK /\ SchedOK /\ PointersOK /\ IrqOK /\ \A w \in Vdecs : InstanceOK(w)
  BY DEF Inv
<1>2. u[v] = "reset" /\ (Out(v) \/ Stuck(v)) /\ t.v # v /\ next_status[v] = "disconnected"
  BY <1>1, NotPending DEF Reset, InstanceOK, StageOK
<1>3. /\ u' = [u EXCEPT ![v] = "idle"] /\ job' = [job EXCEPT ![v] = [s \in Sides |-> NoJob]]
      /\ unread' = [unread EXCEPT ![v] = 0] /\ consumed' = [consumed EXCEPT ![v] = 0]
      /\ backq' = [backq EXCEPT ![v] = 0] /\ out' = [out EXCEPT ![v] = 0]
      /\ UNCHANGED <<kind, core_mask, combine, active_mask, sched_mask, core_sched, last, last_run, act,
                     need_more, irqpend, cbs, t, disc>>
  BY DEF Reset
<1>4. /\ job' \in Jobs /\ \A s \in Sides : job'[v][s] = NoJob
      /\ \A w \in Vdecs : w # v => job'[w] = job[w]
  BY <1>1, <1>3, JobClear
<1>5. /\ u'[v] = "idle" /\ unread'[v] = 0 /\ consumed'[v] = 0 /\ backq'[v] = 0 /\ out'[v] = 0
      /\ \A w \in Vdecs : w # v => /\ unread'[w] = unread[w] /\ consumed'[w] = consumed[w]
                                   /\ backq'[w] = backq[w] /\ out'[w] = out[w] /\ u'[w] = u[w]
      /\ unread' \in [Vdecs -> 0..MaxFrames] /\ consumed' \in [Vdecs -> 0..1]
      /\ backq' \in [Vdecs -> Nat] /\ out' \in [Vdecs -> Nat]
      /\ u' \in [Vdecs -> {"new", "idle", "wait_reset", "wait_release", "reset", "release",
                          "unregister", "removed", "gone"}]
  BY <1>1, <1>3, BoundAssumption DEF TypeOK
<1>6. \A w \in Vdecs : out'[w] + backq'[w] <= kind'[w].bufs
  <2>1. \A w \in Vdecs : out[w] + backq[w] <= kind[w].bufs /\ kind[w].bufs \in Nat
    BY <1>1, KindType DEF TypeOK
  <2>2. ASSUME NEW w \in Vdecs PROVE out'[w] + backq'[w] <= kind'[w].bufs
    <3>1. CASE w = v
      BY <1>3, <1>5, <2>1, <3>1
    <3>2. CASE w # v
      BY <1>3, <1>5, <2>1, <3>2
    <3> QED
      BY <3>1, <3>2
  <2> QED
    BY <2>2
<1>7. JobOK(v)'
  BY <1>4, <1>5 DEF JobOK, Running, NoJob, Sides
<1>8. MaskOK(v)'
  BY <1>1, <1>2, <1>3, <1>5 DEF InstanceOK, MaskOK, Probed
<1>9. IrqOK'
  <2>1. \A w \in Vdecs, s \in Sides : job'[w][s].st = "run" => job[w][s].st = "run"
    BY <1>4 DEF NoJob
  <2> QED
    BY <1>1, <1>3, <2>1, IrqSame
<1>10. CASE Out(v)
  <2>1. /\ status' = [status EXCEPT ![v] = "connected"]
        /\ next_status' = [next_status EXCEPT ![v] = "connected"]
        /\ done' = [done EXCEPT ![v] = FALSE] /\ list' = Append(list, v) /\ sem' = Up(sem)
    BY <1>10 DEF Reset, Connected, Out
  <2>2. /\ list' \in Seq(Vdecs) /\ Range(list') = Range(list) \cup {v}
        /\ SchedOK' /\ PointersOK'
    BY <1>1, <1>3, <1>10, <2>1, ListJoin DEF Out
  <2>3. TypeOK'
    BY <1>1, <1>3, <1>4, <1>5, <1>6, <2>1, <2>2, UpType DEF TypeOK
  <2>4. status'[v] = "connected" /\ next_status'[v] = "connected" /\ done'[v] = FALSE
    BY <1>1, <2>1 DEF TypeOK
  <2>5. StageOK(v)'
    BY <1>1, <1>2, <1>3, <1>5, <2>2, <2>4 DEF InstanceOK, StageOK, Listed, Probed, Waiting
  <2>6. StatusOK(v)'
    BY <1>3, <1>5, <1>10, <2>2, <2>4 DEF StatusOK, Listed, Out
  <2>7. ASSUME NEW w \in Vdecs, w # v PROVE Untouched(w)
    BY <1>1, <1>3, <1>4, <1>5, <2>1, <2>2, <2>7 DEF Untouched, TypeOK
  <2>8. ASSUME NEW w \in Vdecs, w # v PROVE InstanceOK(w)'
    BY <1>1, <1>3, <2>7, <2>8, UntouchedOK
  <2>9. PendingOK'
    BY <1>1, <1>2, <1>3, <2>7, PendingUntouched
  <2> QED
    BY <1>7, <1>8, <1>9, <2>2, <2>3, <2>5, <2>6, <2>8, <2>9 DEF Inv, InstanceOK
<1>11. CASE Stuck(v)
  <2>1. status[v] # "disconnected"
    BY <1>1, <1>2, <1>11 DEF Stuck, InstanceOK, StatusOK
  <2>2. UNCHANGED <<status, next_status, done, list, sem>>
    BY <2>1 DEF Reset, Connected
  <2>3. TypeOK'
    BY <1>1, <1>3, <1>4, <1>5, <1>6, <2>2 DEF TypeOK
  <2>4. Stuck(v)'
    BY <1>3, <1>4, <1>11, <2>2 DEF Stuck, Listed, Idle, NoJob
  <2>5. StageOK(v)'
    BY <1>1, <1>2, <1>3, <1>5, <2>2, <2>4 DEF InstanceOK, StageOK, Stuck, Probed, Waiting
  <2>6. StatusOK(v)'
    BY <1>1, <1>2, <1>3, <1>4, <1>5, <1>11, <2>1, <2>2 DEF InstanceOK, StatusOK, Listed, Out, Stuck
  <2>7. ASSUME NEW w \in Vdecs, w # v PROVE Untouched(w)
    BY <1>1, <1>3, <1>4, <1>5, <2>2, <2>7 DEF Untouched, TypeOK
  <2>8. ASSUME NEW w \in Vdecs, w # v PROVE InstanceOK(w)'
    BY <1>1, <1>3, <2>7, <2>8, UntouchedOK
  <2>9. PendingOK'
    BY <1>1, <1>2, <1>3, <2>7, PendingUntouched
  <2>10. SchedOK' /\ PointersOK'
    BY <1>1, <1>3, <2>2, CoreSame
  <2> QED
    BY <1>7, <1>8, <1>9, <2>3, <2>5, <2>6, <2>8, <2>9, <2>10 DEF Inv, InstanceOK
<1> QED
  BY <1>2, <1>10, <1>11

\* platform_device_unregister
LEMMA UnregisterOK ==
    ASSUME Inv, NEW v \in Vdecs, Unregister(v)
    PROVE  Inv'
<1> USE DEF statusVars, maskVars, schedVars, dataVars, drvVars, thrVars
<1>1. TypeOK /\ PendingOK /\ SchedOK /\ PointersOK /\ IrqOK /\ \A w \in Vdecs : InstanceOK(w)
  BY DEF Inv
<1>2. u[v] = "unregister" /\ (Out(v) \/ Stuck(v)) /\ t.v # v /\ next_status[v] = "disconnected" /\ cbs[v] = {}
  BY <1>1, NotPending DEF Unregister, InstanceOK, StageOK, Joined
<1>3. /\ u' = [u EXCEPT ![v] = "removed"] /\ job' = [job EXCEPT ![v] = [s \in Sides |-> NoJob]]
      /\ core_mask' = [core_mask EXCEPT ![v] = {}] /\ combine' = combine \ {v}
      /\ status' = [status EXCEPT ![v] = "disconnected"]
      /\ UNCHANGED <<kind, next_status, done, active_mask, sched_mask, core_sched, last, last_run, act,
                     unread, consumed, backq, out, need_more, irqpend, cbs, t, disc, list, sem>>
  BY DEF Unregister
<1>4. /\ job' \in Jobs /\ \A s \in Sides : job'[v][s] = NoJob
      /\ \A w \in Vdecs : w # v => job'[w] = job[w]
  BY <1>1, <1>3, JobClear
<1>5. TypeOK'
  BY <1>1, <1>3, <1>4 DEF TypeOK
<1>6. u'[v] = "removed" /\ status'[v] = "disconnected" /\ core_mask'[v] = {}
  BY <1>1, <1>3 DEF TypeOK
<1>7. NoRun(v)' /\ (Out(v) => Out(v)') /\ (Stuck(v) => Stuck(v)')
  BY <1>3, <1>4, <1>6 DEF NoRun, Out, Stuck, Idle, Listed, NoJob
<1>8. InstanceOK(v)'
  <2>1. StageOK(v)'
    BY <1>2, <1>3, <1>6, <1>7 DEF StageOK, Probed, Waiting
  <2>2. StatusOK(v)'
    BY <1>1, <1>2, <1>3, <1>6, <1>7 DEF InstanceOK, StatusOK, Listed, Out, Stuck
  <2>3. MaskOK(v)'
    BY <1>3, <1>6 DEF MaskOK, Probed
  <2>4. JobOK(v)'
    BY <1>1, <1>3, <1>4 DEF InstanceOK, JobOK, NoJob, Running, MainCore, Sides
  <2> QED
    BY <2>1, <2>2, <2>3, <2>4 DEF InstanceOK
<1>9. ASSUME NEW w \in Vdecs, w # v PROVE Untouched(w)
  BY <1>1, <1>3, <1>4, <1>9 DEF Untouched, TypeOK
<1>10. ASSUME NEW w \in Vdecs, w # v PROVE InstanceOK(w)'
  BY <1>1, <1>3, <1>9, <1>10, UntouchedOK
<1>11. SchedOK' /\ PointersOK'
  BY <1>1, <1>3, CoreSame
<1>12. PendingOK'
  BY <1>1, <1>2, <1>3, <1>9, PendingUntouched
<1>13. IrqOK'
  <2>1. \A w \in Vdecs, s \in Sides : job'[w][s].st = "run" => job[w][s].st = "run"
    BY <1>4 DEF NoJob
  <2> QED
    BY <1>1, <1>3, <2>1, IrqSame
<1> QED
  BY <1>5, <1>8, <1>10, <1>11, <1>12, <1>13 DEF Inv

\* vdec_connect_list_force_clear
LEMMA ForceClearOK ==
    ASSUME Inv, NEW v \in Vdecs, ForceClear(v)
    PROVE  Inv'
<1> USE DEF statusVars, maskVars, schedVars, dataVars, drvVars, thrVars
<1>1. TypeOK /\ PendingOK /\ SchedOK /\ PointersOK /\ IrqOK /\ \A w \in Vdecs : InstanceOK(w)
  BY DEF Inv
<1>2. /\ u[v] = "removed" /\ (Out(v) \/ Stuck(v)) /\ t.v # v /\ status[v] = "disconnected" /\ NoRun(v)
      /\ cbs[v] = {} /\ v \notin combine /\ v \notin disc
  BY <1>1, NotPending DEF ForceClear, InstanceOK, StageOK, MaskOK, Probed, Out, Stuck
<1>3. /\ u' = [u EXCEPT ![v] = "gone"]
      /\ UNCHANGED <<kind, status, next_status, done, core_mask, combine, active_mask, sched_mask,
                     unread, consumed, backq, out, need_more, job, irqpend, cbs, t, disc, sem>>
  BY DEF ForceClear
<1>4. /\ list' \in Seq(Vdecs) /\ Range(list') = Range(list) \ {v}
      /\ core_sched' \subseteq core_sched
      /\ act' \in [Cores -> Vdecs \cup {Null}] /\ last' \in [Cores -> Vdecs \cup {Null}]
      /\ last_run' \in Vdecs \cup {Null}
      /\ \A c \in Cores : act'[c] = Forget(act[c], {v}) /\ last'[c] = Forget(last[c], {v})
      /\ last_run' = Forget(last_run, {v})
      /\ SchedOK'
  <2>0. list \in Seq(Vdecs) /\ \A c \in Cores : act[c] \in Vdecs \cup {Null} /\ last[c] \in Vdecs \cup {Null}
    BY <1>1 DEF TypeOK
  <2>1. CASE Listed(v)
    <3>1. /\ core_sched' = core_sched \ sched_mask[v] /\ list' = Without(list, {v})
          /\ act' = [c \in Cores |-> Forget(act[c], {v})]
          /\ last' = [c \in Cores |-> Forget(last[c], {v})]
          /\ last_run' = Forget(last_run, {v})
      BY <1>2, <2>1 DEF ForceClear
    <3>2. list' \in Seq(Vdecs) /\ Range(list') = Range(list) \ {v}
      BY <2>0, <3>1, WithoutOK
    <3>3. SchedOK'
      <4>1. \A c : c \in core_sched <=> \E w \in Range(list) : c \in sched_mask[w]
        BY <1>1 DEF SchedOK
      <4>2. /\ \A w, x \in Range(list) : w # x => sched_mask[w] \cap sched_mask[x] = {}
            /\ v \in Range(list)
        BY <1>1, <2>1 DEF SchedOK, Listed
      <4>3. \A c : c \in core_sched' <=> \E w \in Range(list') : c \in sched_mask'[w]
        BY <1>3, <3>1, <3>2, <4>1, <4>2
      <4>4. core_sched' = UNION {sched_mask'[w] : w \in Range(list')}
        BY <4>3
      <4>5. \A w, x \in Range(list') : w # x => sched_mask'[w] \cap sched_mask'[x] = {}
        BY <1>3, <3>2, <4>2
      <4> QED
        BY <4>4, <4>5 DEF SchedOK
    <3>4. \A c \in Cores : Forget(act[c], {v}) \in Vdecs \cup {Null} /\ Forget(last[c], {v}) \in Vdecs \cup {Null}
      BY <2>0 DEF Forget
    <3>5. Forget(last_run, {v}) \in Vdecs \cup {Null}
      BY <1>1 DEF Forget, TypeOK
    <3> QED
      BY <3>1, <3>2, <3>3, <3>4, <3>5
  <2>2. CASE ~Listed(v)
    <3>1. UNCHANGED <<core_sched, act, last, last_run, list>>
      BY <2>2 DEF ForceClear
    <3>2. \A c \in Cores : act[c] # v /\ last[c] # v
      BY <1>1, <2>2, InstanceAssumption DEF PointersOK
    <3>3. last_run # v
      BY <1>1, <2>2, InstanceAssumption DEF PointersOK
    <3>4. SchedOK'
      BY <1>1, <1>3, <3>1 DEF SchedOK
    <3> QED
      BY <1>1, <2>0, <2>2, <3>1, <3>2, <3>3, <3>4 DEF Listed, Forget, TypeOK
  <2> QED
    BY <2>1, <2>2
<1>5. TypeOK'
  BY <1>1, <1>3, <1>4 DEF TypeOK
<1>6. u'[v] = "gone"
  BY <1>1, <1>3 DEF TypeOK
<1>7. InstanceOK(v)'
  <2>1. ~Listed(v)' /\ NoRun(v)'
    BY <1>2, <1>3, <1>4 DEF Listed, NoRun
  <2>2. StageOK(v)'
    BY <1>2, <1>3, <1>6, <2>1 DEF StageOK, Probed, Waiting
  <2>3. StatusOK(v)'
    BY <1>1, <1>2, <1>3, <1>6, <2>1 DEF InstanceOK, StatusOK, Out
  <2>4. MaskOK(v)'
    BY <1>2, <1>3, <1>6 DEF MaskOK, Probed
  <2>5. JobOK(v)'
    BY <1>1, <1>2, <1>3 DEF InstanceOK, JobOK, NoRun, Running, MainCore, Sides
  <2> QED
    BY <2>2, <2>3, <2>4, <2>5 DEF InstanceOK
<1>8. ASSUME NEW w \in Vdecs, w # v PROVE Untouched(w)
  BY <1>1, <1>3, <1>4, <1>8 DEF Untouched, TypeOK, Forget
<1>9. ASSUME NEW w \in Vdecs, w # v PROVE InstanceOK(w)'
  BY <1>1, <1>3, <1>8, <1>9, UntouchedOK
<1>10. PointersOK'
  BY <1>1, <1>4 DEF PointersOK, Listed, Forget
<1>11. PendingOK'
  BY <1>1, <1>2, <1>3, <1>4, <1>8, PendingUntouched
<1>12. IrqOK'
  BY <1>1, <1>3, IrqSame
<1> QED
  BY <1>4, <1>5, <1>7, <1>9, <1>10, <1>11, <1>12 DEF Inv

-----------------------------------------------------------------------------
(* vdec_core_thread *)

\* Away from an election the irq threads owe nothing to the thread.
LEMMA IrqThread ==
    ASSUME TypeOK, IrqOK, kind' = kind, irqpend' = irqpend, job' = job, t'.pc \notin {"grant", "run"}
    PROVE  IrqOK'
BY DEF IrqOK

\* Thread0 is a state of the thread, and so is what is made of it.
LEMMA ThreadType == Thread0 \in ThreadStates
BY DEF Thread0, ThreadStates

\* An instance of disconnecting_list
LEMMA ReapOK ==
    ASSUME Inv, NEW v \in Vdecs, Reap(v)
    PROVE  Inv'
<1> USE DEF statusVars, maskVars, schedVars, dataVars, drvVars, thrVars
<1>1. TypeOK /\ PendingOK /\ SchedOK /\ PointersOK /\ IrqOK /\ \A w \in Vdecs : InstanceOK(w)
  BY DEF Inv
<1>2. v \in disc /\ t.pc = "reap" /\ t.v = Null
  BY <1>1 DEF Reap, PendingOK
<1>3. /\ disc' = disc \ {v} /\ status' = [status EXCEPT ![v] = "disconnected"]
      /\ done' = [done EXCEPT ![v] = TRUE]
      /\ UNCHANGED <<kind, next_status, core_mask, combine, active_mask, sched_mask, core_sched, last, last_run,
                     act, unread, consumed, backq, out, need_more, job, irqpend, cbs, t, list, sem, u>>
  BY DEF Reap
<1>4. ~Listed(v) /\ next_status[v] = "disconnected" /\ Waiting(v)
  <2>1. u[v] \in {"new", "idle", "wait_reset", "wait_release", "reset", "release", "unregister", "removed", "gone"}
    BY <1>1 DEF TypeOK
  <2>2. ~Listed(v) /\ next_status[v] = "disconnected" /\ ~Out(v) /\ ~Stuck(v)
    BY <1>1, <1>2 DEF InstanceOK, StatusOK, Out, Stuck
  <2> QED
    BY <1>1, <1>2, <2>1, <2>2 DEF InstanceOK, StageOK, Waiting
<1>5. active_mask[v] = {} /\ sched_mask[v] = {} /\ NoRun(v)
  <2>1. active_mask[v] = {} /\ sched_mask[v] = {}
    BY <1>1, <1>4 DEF InstanceOK, StatusOK, Waiting
  <2> QED
    BY <1>1, <2>1 DEF InstanceOK, JobOK, NoRun, Sides
<1>6. TypeOK'
  BY <1>1, <1>3 DEF TypeOK
<1>7. status'[v] = "disconnected" /\ v \notin disc'
  BY <1>1, <1>3 DEF TypeOK
<1>8. Out(v)'
  BY <1>3, <1>4, <1>5, <1>7 DEF Out, Listed, NoRun
<1>9. InstanceOK(v)'
  <2>1. StageOK(v)'
    BY <1>1, <1>3, <1>4, <1>8 DEF InstanceOK, StageOK, Probed, Waiting
  <2>2. StatusOK(v)'
    BY <1>3, <1>4, <1>7, <1>8 DEF StatusOK, Out, Listed
  <2>3. MaskOK(v)' /\ JobOK(v)'
    BY <1>1, <1>3 DEF InstanceOK, MaskOK, JobOK, Probed, MainCore
  <2> QED
    BY <2>1, <2>2, <2>3 DEF InstanceOK
<1>10. ASSUME NEW w \in Vdecs, w # v PROVE InstanceOK(w)'
  BY <1>1, <1>3, <1>10, UntouchedOK DEF Untouched, TypeOK
<1>11. SchedOK' /\ PointersOK'
  BY <1>1, <1>3, CoreSame
<1>12. PendingOK'
  BY <1>1, <1>2, <1>3 DEF PendingOK
<1>13. IrqOK'
  BY <1>1, <1>3, IrqSame
<1> QED
  BY <1>6, <1>9, <1>10, <1>11, <1>12, <1>13 DEF Inv

\* The end of a pass
LEMMA EndPassOK ==
    ASSUME Inv, EndPass
    PROVE  Inv'
<1> USE DEF statusVars, maskVars, schedVars, dataVars, drvVars, thrVars
<1>1. TypeOK /\ PendingOK /\ SchedOK /\ PointersOK /\ IrqOK /\ \A w \in Vdecs : InstanceOK(w)
  BY DEF Inv
<1>2. /\ t' = Thread0 /\ disc = {}
      /\ UNCHANGED <<kind, status, next_status, done, core_mask, combine, active_mask, sched_mask, core_sched,
                     last, last_run, act, unread, consumed, backq, out, need_more, job, irqpend, cbs,
                     disc, list, u>>
  BY DEF EndPass
<1>3. sem' \in 0..SemMax
  <2>1. \A s \in 0..SemMax : Up(s) \in 0..SemMax
    BY BoundAssumption DEF Up
  <2>2. sem \in 0..SemMax
    BY <1>1 DEF TypeOK
  <2>3. (IF ~t.worker /\ Polls THEN Up(sem) ELSE sem) \in 0..SemMax
    BY <2>1, <2>2
  <2> QED
    BY <2>1, <2>3 DEF EndPass
<1>4. TypeOK'
  BY <1>1, <1>2, <1>3, ThreadType DEF TypeOK
<1>5. t'.pc = "down" /\ t'.v = Null
  BY <1>2 DEF Thread0
<1>6. ASSUME NEW w \in Vdecs PROVE InstanceOK(w)'
  BY <1>1, <1>2, <1>5, UntouchedOK, InstanceAssumption DEF Untouched
<1>7. SchedOK' /\ PointersOK'
  BY <1>1, <1>2, CoreSame
<1>8. PendingOK'
  BY <1>2, <1>5 DEF PendingOK
<1>9. IrqOK'
  BY <1>1, <1>2, <1>5, IrqThread
<1> QED
  BY <1>4, <1>6, <1>7, <1>8, <1>9 DEF Inv

\* The elected instance gets its cores
LEMMA GrantOK ==
    ASSUME Inv, NEW v \in Vdecs, v = t.v, Grant
    PROVE  Inv'
<1> USE DEF statusVars, maskVars, schedVars, dataVars, drvVars, thrVars
<1>1. TypeOK /\ PendingOK /\ SchedOK /\ PointersOK /\ IrqOK /\ \A w \in Vdecs : InstanceOK(w)
  BY DEF Inv
<1>2. /\ active_mask' = [active_mask EXCEPT ![v] = @ \cup t.m]
      /\ sched_mask' = [sched_mask EXCEPT ![v] = @ \cup t.m]
      /\ core_sched' = core_sched \cup t.m
      /\ last' = [c \in Cores |-> IF c \in t.m THEN v ELSE last[c]]
      /\ last_run' \in {last_run, v}
      /\ status' = [status EXCEPT ![v] = "active"]
      /\ t' = [t EXCEPT !.pc = "run"] /\ t.pc = "grant"
      /\ UNCHANGED <<kind, next_status, done, core_mask, combine, act, unread, consumed, backq, out, need_more,
                     job, irqpend, cbs, disc, list, sem, u>>
  BY DEF Grant
<1>3. /\ v \in Vdecs /\ Listed(v) /\ u[v] \in {"idle", "wait_reset", "wait_release"}
      /\ t.m \subseteq core_mask[v] /\ t.m \cap core_sched = {} /\ t.m \subseteq Cores
      /\ \/ t.m = {"hevcb"} /\ kind[v].drv = "fb"
         \/ MainCore(v) \in t.m /\ consumed[v] = 0
  BY <1>1, <1>2 DEF PendingOK, TypeOK, ThreadStates
<1>4. /\ t' \in ThreadStates /\ t'.pc = "run" /\ t'.v = v /\ t'.m = t.m /\ t'.i = t.i
  <2>1. t \in ThreadStates
    BY <1>1 DEF TypeOK
  <2> QED
    BY <1>2, <2>1 DEF ThreadStates
<1>5. v \notin disc /\ ~done[v] /\ next_status[v] = (IF u[v] = "idle" THEN "connected" ELSE "disconnected")
  BY <1>1, <1>3 DEF InstanceOK, StageOK, StatusOK, Stuck, Out, Waiting
<1>6. /\ active_mask'[v] = active_mask[v] \cup t.m /\ sched_mask'[v] = sched_mask[v] \cup t.m
      /\ status'[v] = "active"
      /\ \A w \in Vdecs : w # v => /\ active_mask'[w] = active_mask[w] /\ sched_mask'[w] = sched_mask[w]
                                   /\ status'[w] = status[w]
  BY <1>1, <1>2, <1>3 DEF TypeOK
<1>7. TypeOK'
  <2>1. /\ active_mask' \in [Vdecs -> SUBSET Cores] /\ sched_mask' \in [Vdecs -> SUBSET Cores]
        /\ core_sched' \subseteq Cores
    BY <1>1, <1>2, <1>3 DEF TypeOK
  <2>2. last' \in [Cores -> Vdecs \cup {Null}] /\ last_run' \in Vdecs \cup {Null}
    BY <1>1, <1>2, <1>3 DEF TypeOK
  <2> QED
    BY <1>1, <1>2, <1>3, <1>4, <2>1, <2>2 DEF TypeOK
<1>8. InstanceOK(v)'
  <2>1. StageOK(v)'
    BY <1>1, <1>2, <1>3, <1>5 DEF InstanceOK, StageOK, Listed, Probed, Waiting
  <2>2. StatusOK(v)'
    BY <1>1, <1>2, <1>3, <1>5, <1>6 DEF InstanceOK, StatusOK, Listed
  <2>3. MaskOK(v)'
    BY <1>1, <1>2, <1>3, <1>6 DEF InstanceOK, MaskOK, Probed
  <2>4. JobOK(v)'
    BY <1>1, <1>2, <1>3, <1>6 DEF InstanceOK, JobOK, MainCore
  <2> QED
    BY <2>1, <2>2, <2>3, <2>4 DEF InstanceOK
<1>9. ASSUME NEW w \in Vdecs, w # v PROVE InstanceOK(w)'
  BY <1>1, <1>2, <1>4, <1>6, <1>9, UntouchedOK DEF Untouched
<1>10. SchedOK'
  <2>1. \A c : c \in core_sched <=> \E w \in Range(list) : c \in sched_mask[w]
    BY <1>1 DEF SchedOK
  <2>2. Range(list) \subseteq Vdecs /\ v \in Range(list)
    BY <1>1, <1>3 DEF TypeOK, Range, Listed
  <2>3. \A c : c \in core_sched' <=> \E w \in Range(list) : c \in sched_mask'[w]
    BY <1>2, <1>6, <2>1, <2>2
  <2>4. core_sched' = UNION {sched_mask'[w] : w \in Range(list')}
    BY <1>2, <2>3
  <2>5. \A w, x \in Range(list) : w # x => sched_mask[w] \cap sched_mask[x] = {}
    BY <1>1 DEF SchedOK
  <2>6. \A w \in Range(list) : w # v => sched_mask[w] \cap t.m = {}
    BY <1>3, <2>1
  <2>7. \A w, x \in Range(list') : w # x => sched_mask'[w] \cap sched_mask'[x] = {}
    BY <1>2, <1>6, <2>2, <2>5, <2>6
  <2> QED
    BY <2>4, <2>7 DEF SchedOK
<1>11. PointersOK'
  BY <1>1, <1>2, <1>3 DEF PointersOK, Listed
<1>12. PendingOK'
  <2>1. PendingSide' = PendingSide
    BY <1>4 DEF PendingSide
  <2> QED
    BY <1>1, <1>2, <1>3, <1>4, <1>6, <2>1 DEF PendingOK, Listed, MainCore
<1>13. IrqOK'
  <2>1. PendingSide' = PendingSide
    BY <1>4 DEF PendingSide
  <2> QED
    BY <1>1, <1>2, <1>4, <2>1 DEF IrqOK
<1> QED
  BY <1>7, <1>8, <1>9, <1>10, <1>11, <1>12, <1>13 DEF Inv

\* vdec_save_active_hw and the driver's run
LEMMA RunOK ==
    ASSUME Inv, NEW v \in Vdecs, v = t.v, NEW s \in Sides, s = PendingSide, Run
    PROVE  Inv'
<1> USE DEF statusVars, maskVars, schedVars, dataVars, drvVars, thrVars
<1> DEFINE r == [st |-> "run", cores |-> t.m]
<1>1. TypeOK /\ PendingOK /\ SchedOK /\ PointersOK /\ IrqOK /\ \A w \in Vdecs : InstanceOK(w)
  BY DEF Inv
<1>2. /\ act' = [c \in Cores |-> IF c \in t.m THEN v ELSE act[c]]
      /\ job' = [job EXCEPT ![v][s] = r]
      /\ sem' \in {sem, Up(sem)}
      /\ t' = [Thread0 EXCEPT !.pc = "reap", !.worker = TRUE] /\ t.pc = "run"
      /\ UNCHANGED <<kind, status, next_status, done, core_mask, combine, active_mask, sched_mask, core_sched,
                     last, last_run, unread, consumed, backq, out, need_more, irqpend, cbs, disc, list, u>>
  BY DEF Run, PendingSide
<1>3. /\ v \in Vdecs /\ Listed(v) /\ u[v] \in {"idle", "wait_reset", "wait_release"}
      /\ t.m \subseteq active_mask[v] /\ t.m \subseteq Cores /\ job[v][s].st = "none"
      /\ \/ s = "back" /\ t.m = {"hevcb"} /\ kind[v].drv = "fb" /\ backq[v] > 0
         \/ /\ s = "front" /\ MainCore(v) \in t.m /\ unread[v] > 0 /\ consumed[v] = 0
            /\ kind[v].drv = "fb" => t.m = {"hevc"}
            /\ out[v] + backq[v] < kind[v].bufs
  BY <1>1, <1>2 DEF PendingOK, PendingSide, MainCore, TypeOK, ThreadStates
<1>4. t' \in ThreadStates /\ t'.pc = "reap" /\ t'.v = Null
  BY <1>2, ThreadType DEF ThreadStates, Thread0
<1>5. r \in JobRecords /\ r.st = "run" /\ r.cores = t.m 
  BY <1>3 DEF JobRecords
<1> HIDE DEF r
<1>6. Placed(job', job, v, s, r)
  BY <1>1, <1>2, <1>3, <1>5, JobType, JobPut
<1>7. TypeOK'
  <2>1. act' \in [Cores -> Vdecs \cup {Null}]
    BY <1>1, <1>2, <1>3 DEF TypeOK
  <2> QED
    BY <1>1, <1>2, <1>4, <1>6, <2>1, UpType DEF TypeOK, Placed
<1>8. InstanceOK(v)'
  <2>1. v \notin disc /\ ~done[v] /\ ~Stuck(v) /\ ~Out(v)
    BY <1>1, <1>3 DEF InstanceOK, StatusOK, Stuck, Out
  <2>2. StageOK(v)'
    BY <1>1, <1>2, <1>3, <2>1 DEF InstanceOK, StageOK, Listed, Probed, Waiting
  <2>3. StatusOK(v)' /\ MaskOK(v)'
    BY <1>1, <1>2, <1>3, <2>1 DEF InstanceOK, StatusOK, MaskOK, Listed, Probed
  <2>4. JobOK(v)'
    <3>1. \A x \in Sides : x # s => job'[v][x] = job[v][x] /\ job[v][x].cores \subseteq Cores
      BY <1>1, <1>3, <1>6, JobType DEF Placed
    <3>2. job'[v][s] = r
      BY <1>6 DEF Placed
    <3>3. \A c \in Cores : act'[c] = IF c \in t.m THEN v ELSE act[c]
      BY <1>2
    <3>4. \A x \in Sides : Running(job[v][x])' =>
            /\ job'[v][x].cores \subseteq active_mask[v]
            /\ kind[v].drv = "fb" => job'[v][x].cores = IF x = "front" THEN {"hevc"} ELSE {"hevcb"}
            /\ \A c \in job'[v][x].cores : act'[c] = v
      <4>1. ASSUME NEW x \in Sides, x # s, Running(job[v][x])'
            PROVE  /\ job'[v][x].cores \subseteq active_mask[v]
                   /\ kind[v].drv = "fb" => job'[v][x].cores = IF x = "front" THEN {"hevc"} ELSE {"hevcb"}
                   /\ \A c \in job'[v][x].cores : act'[c] = v
        <5>1. Running(job[v][x]) /\ job'[v][x].cores = job[v][x].cores
          BY <3>1, <4>1 DEF Running
        <5> QED
          BY <1>1, <1>3, <3>1, <3>3, <4>1, <5>1 DEF InstanceOK, JobOK
      <4>2. /\ job'[v][s].cores \subseteq active_mask[v]
            /\ kind[v].drv = "fb" => job'[v][s].cores = IF s = "front" THEN {"hevc"} ELSE {"hevcb"}
            /\ \A c \in job'[v][s].cores : act'[c] = v
        BY <1>3, <1>5, <3>2, <3>3
      <4> QED
        BY <4>1, <4>2
    <3>5. MainCore(v)' = MainCore(v) /\ kind' = kind
      BY <1>2 DEF MainCore
    <3>6. job'[v]["front"].st # "none" => /\ MainCore(v) \in active_mask[v] /\ unread[v] > 0
                                           /\ out[v] + backq[v] < kind[v].bufs
      BY <1>1, <1>3, <3>1 DEF InstanceOK, JobOK, Sides
    <3>7. job'[v]["back"].st # "none" => kind[v].drv = "fb" /\ "hevcb" \in active_mask[v] /\ backq[v] > 0
      BY <1>1, <1>3, <3>1 DEF InstanceOK, JobOK, Sides
    <3>8. consumed[v] > 0 => MainCore(v) \in sched_mask[v] \ active_mask[v]
      BY <1>1, <1>3 DEF InstanceOK, JobOK
    <3> QED
      BY <1>2, <3>4, <3>5, <3>6, <3>7, <3>8 DEF JobOK
  <2> QED
    BY <2>2, <2>3, <2>4 DEF InstanceOK
<1>9. ASSUME NEW w \in Vdecs, w # v PROVE Untouched(w)
  <2>1. \A c \in Cores, x \in Sides :
           Running(job[w][x]) /\ c \in job[w][x].cores /\ act[c] = w => act'[c] = w
    <3>1. SUFFICES ASSUME NEW c \in Cores, NEW x \in Sides, Running(job[w][x]), c \in job[w][x].cores, act[c] = w
                   PROVE  c \notin t.m
      BY <1>2
    <3>2. c \in active_mask[w] /\ ~NoRun(w)
      BY <1>1, <3>1 DEF InstanceOK, JobOK, Running, NoRun
    <3>3. Listed(w) /\ c \in sched_mask[w]
      BY <1>1, <3>2 DEF InstanceOK, StageOK, StatusOK
    <3>4. t.m \subseteq sched_mask[v]
      BY <1>1, <1>3 DEF InstanceOK, StatusOK
    <3> QED
      BY <1>1, <1>3, <1>9, <3>3, <3>4 DEF SchedOK, Listed
  <2> QED
    BY <1>2, <1>4, <1>6, <1>9, <2>1, InstanceAssumption DEF Untouched, Placed
<1>10. ASSUME NEW w \in Vdecs, w # v PROVE InstanceOK(w)'
  BY <1>1, <1>2, <1>9, <1>10, UntouchedOK
<1>11. SchedOK' /\ PointersOK'
  BY <1>1, <1>2, <1>3 DEF SchedOK, PointersOK, Listed
<1>12. PendingOK'
  BY <1>4 DEF PendingOK
<1>13. IrqOK'
  <2>1. (\A w \in Vdecs : kind[w].drv # "h264") => s \notin irqpend[v]
    BY <1>1, <1>2 DEF IrqOK
  <2> QED
    BY <1>1, <1>2, <1>4, <1>6, <2>1 DEF IrqOK, Placed
<1> QED
  BY <1>7, <1>8, <1>10, <1>11, <1>12, <1>13 DEF Inv

\* The loop over the cores stays in it or leaves it.
LEMMA FreeFromOK ==
    ASSUME NEW k \in 1..4, NEW taken
    PROVE  /\ FreeFrom(k, taken) \in 1..4
           /\ \A j \in k..(FreeFrom(k, taken) - 1) : CoreOrder[j] \in taken
<1> DEFINE P(i) == /\ i <= Len(CoreOrder) => CoreOrder[i] \notin taken
                   /\ \A j \in k..(i - 1) : CoreOrder[j] \in taken
           T == {i \in k..4 : i <= 3 => CoreOrder[i] \notin taken}
<1>1. Len(CoreOrder) = 3
  BY DEF CoreOrder
<1>2. T \in SUBSET Nat /\ 4 \in T
  OBVIOUS
<1>3. PICK i \in T : \A j \in T : i <= j
  BY <1>2, Smallest
<1>4. \A j \in k..(i - 1) : CoreOrder[j] \in taken
  BY <1>3
<1>5. i \in k..4 /\ P(i)
  BY <1>1, <1>3, <1>4
<1>6. FreeFrom(k, taken) = CHOOSE x \in k..4 : P(x)
  BY <1>1 DEF FreeFrom
<1> HIDE DEF P
<1>7. FreeFrom(k, taken) \in k..4 /\ P(FreeFrom(k, taken))
  BY <1>5, <1>6
<1> QED
  BY <1>7 DEF P

\* Where the loop is: before a search or at its end
AtLoop(th) == /\ th \in ThreadStates /\ th.v = Null /\ th.pc \in {"after", "start", "reap"}
              /\ th.pc \in {"after", "start"} => th.i \in 1..3

\* The thread at a core
LEMMA AtCoreOK ==
    ASSUME NEW th \in ThreadStates, th.v = Null, NEW i \in 1..4, NEW lastOf
    PROVE  AtLoop(AtCore(th, i, lastOf))
<1>1. Len(CoreOrder) = 3
  BY DEF CoreOrder
<1> DEFINE p == IF i > Len(CoreOrder) THEN "reap" ELSE IF lastOf[CoreOrder[i]] = Null THEN "start" ELSE "after"
           x == [th EXCEPT !.i = i, !.pc = p]
<1>2. p \in {"after", "start", "reap"} /\ (p \in {"after", "start"} => i \in 1..3)
  BY <1>1
<1>3. x = AtCore(th, i, lastOf)
  BY DEF AtCore
<1> HIDE DEF p
<1>4. x \in ThreadStates /\ x.pc = p /\ x.i = i /\ x.v = Null
  BY <1>2 DEF ThreadStates
<1> HIDE DEF x
<1> QED
  BY <1>2, <1>3, <1>4 DEF AtLoop

\* What the first section of a pass makes of an instance of the list
LEMMA PassInstance ==
    ASSUME Inv, NEW v \in Vdecs, Listed(v), disc = {}, kind' = kind, t'.v = Null,
           NEW D, v \in D <=> status[v] = "connected" /\ next_status[v] = "disconnected",
           v \in disc' <=> v \in D, v \in Range(list') <=> v \notin D,
           sched_mask'[v] = active_mask[v], consumed'[v] = 0,
           \A c \in Cores : act'[c] = Forget(act[c], D),
           UNCHANGED <<status, next_status, done, core_mask, combine, active_mask, unread, backq, out,
                       job, irqpend, cbs, u>>
    PROVE  InstanceOK(v)'
<1>1. TypeOK /\ InstanceOK(v)
  BY DEF Inv
<1>2. ~done[v] /\ ~Out(v) /\ u[v] \notin {"new", "gone"}
  BY <1>1 DEF InstanceOK, StatusOK, StageOK, Out
<1>3. v \in D => active_mask[v] = {} /\ Waiting(v)
  <2>1. u[v] \in {"new", "idle", "wait_reset", "wait_release", "reset", "release", "unregister", "removed", "gone"}
    BY <1>1 DEF TypeOK
  <2>2. SUFFICES ASSUME v \in D PROVE active_mask[v] = {} /\ Waiting(v)
    OBVIOUS
  <2>3. active_mask[v] = {} /\ u[v] # "removed"
    BY <1>1, <2>2 DEF InstanceOK, StatusOK, StageOK
  <2> QED
    BY <1>1, <1>2, <2>1, <2>2, <2>3 DEF InstanceOK, StageOK, Waiting, Stuck
<1>4. v \notin D /\ Stuck(v) => Stuck(v)'
  BY InstanceAssumption DEF Stuck, Listed, Idle
<1>5. NoRun(v) => NoRun(v)'
  BY DEF NoRun
<1>6. StageOK(v)'
  BY <1>1, <1>2, <1>3, <1>4, <1>5 DEF InstanceOK, StageOK, Listed, Probed, Waiting
<1>7. StatusOK(v)'
  BY <1>1, <1>2, <1>3 DEF InstanceOK, StatusOK, Listed, Waiting
<1>8. MaskOK(v)'
  BY <1>1 DEF InstanceOK, MaskOK, Probed
<1>9. JobOK(v)'
  <2>1. \A s \in Sides : Running(job[v][s]) => v \notin D /\ job[v][s].cores \subseteq Cores
    BY <1>1, <1>3, JobType DEF InstanceOK, JobOK, Running, Sides
  <2> QED
    BY <1>1, <2>1 DEF InstanceOK, JobOK, MainCore, Forget
<1> QED
  BY <1>6, <1>7, <1>8, <1>9 DEF InstanceOK

\* The first section of a pass
LEMMA PassOK ==
    ASSUME Inv, Pass
    PROVE  Inv'
<1> USE DEF statusVars, maskVars, schedVars, dataVars, drvVars, thrVars
<1> DEFINE In == Range(list)
           D == {v \in In : status[v] = "connected" /\ next_status[v] = "disconnected"}
           S == {v \in In : kind[v].stream}
           th == [Thread0 EXCEPT !.stream = UNION {core_mask[v] : v \in S}, !.comb = S \cap combine # {}]
<1>1. TypeOK /\ PendingOK /\ SchedOK /\ PointersOK /\ IrqOK /\ \A w \in Vdecs : InstanceOK(w)
  BY DEF Inv
<1>2. /\ t.pc = "down" /\ sem > 0 /\ sem' = sem - 1
      /\ consumed' = [v \in Vdecs |->
            IF v \in In /\ Released(v) \cap InputCores # {} THEN 0 ELSE consumed[v]]
      /\ sched_mask' = [v \in Vdecs |-> IF v \in In THEN sched_mask[v] \ Released(v) ELSE sched_mask[v]]
      /\ core_sched' = core_sched \ UNION {Released(v) : v \in In}
      /\ act' = [c \in Cores |-> Forget(act[c], D)]
      /\ last' = [c \in Cores |-> Forget(last[c], D)] /\ last_run' = Forget(last_run, D)
      /\ list' = Without(list, D) /\ disc' = D
      /\ t' = AtCore(th, FreeFrom(1, core_sched'), LastOf(last', last_run'))
      /\ UNCHANGED <<kind, status, next_status, done, core_mask, combine, active_mask, unread, backq, out,
                     need_more, job, irqpend, cbs, u>>
  BY DEF Pass
<1>3. In \subseteq Vdecs /\ D \subseteq In /\ S \subseteq In /\ disc = {} /\ list \in Seq(Vdecs)
  BY <1>1, <1>2 DEF TypeOK, Range, PendingOK
<1>4. AtLoop(t')
  <2>1. UNION {core_mask[v] : v \in S} \subseteq Cores
    BY <1>1, <1>3 DEF TypeOK
  <2>2. (S \cap combine # {}) \in BOOLEAN
    OBVIOUS
  <2>3. th \in ThreadStates /\ th.v = Null
    <3> HIDE DEF S
    <3> QED
      BY <2>1, <2>2, ThreadType DEF ThreadStates, Thread0
  <2>4. FreeFrom(1, core_sched') \in 1..4
    BY FreeFromOK
  <2> HIDE DEF th
  <2> QED
    BY <1>2, <2>3, <2>4, AtCoreOK
<1>5. list' \in Seq(Vdecs) /\ Range(list') = In \ D
  BY <1>2, <1>3, WithoutOK
<1>6. \A v \in In : active_mask[v] \subseteq sched_mask[v] /\ sched_mask'[v] = active_mask[v]
  <2>1. ASSUME NEW v \in In PROVE active_mask[v] \subseteq sched_mask[v]
    BY <1>1, <1>3 DEF InstanceOK, StatusOK, Listed
  <2> QED
    BY <1>2, <1>3, <2>1 DEF Released
<1>7. \A v \in In : consumed'[v] = 0
  <2>1. SUFFICES ASSUME NEW v \in In, Released(v) \cap InputCores = {} PROVE consumed[v] = 0
    BY <1>2, <1>3
  <2>2. MainCore(v) \notin Released(v)
    BY <2>1 DEF MainCore, InputCores
  <2>3. ~(consumed[v] > 0) /\ consumed[v] \in 0..1
    BY <1>1, <1>3, <2>2 DEF InstanceOK, JobOK, TypeOK, Released
  <2> QED
    BY <2>3
<1>8. \A v \in D : active_mask[v] = {}
  BY <1>1, <1>3 DEF InstanceOK, StatusOK, StageOK, Listed
<1>9. TypeOK'
  <2>1. sem' \in 0..SemMax
    BY <1>1, <1>2, BoundAssumption DEF TypeOK
  <2>2. consumed' \in [Vdecs -> 0..1] /\ sched_mask' \in [Vdecs -> SUBSET Cores] /\ core_sched' \subseteq Cores
    BY <1>1, <1>2 DEF TypeOK
  <2>3. /\ act' \in [Cores -> Vdecs \cup {Null}] /\ last' \in [Cores -> Vdecs \cup {Null}]
        /\ last_run' \in Vdecs \cup {Null}
    <3>1. \A p \in Vdecs \cup {Null} : Forget(p, D) \in Vdecs \cup {Null}
      BY DEF Forget
    <3> QED
      BY <1>1, <1>2, <3>1 DEF TypeOK
  <2> QED
    BY <1>1, <1>2, <1>3, <1>4, <1>5, <2>1, <2>2, <2>3 DEF TypeOK, AtLoop
<1> HIDE DEF D
<1>10. ASSUME NEW v \in Vdecs PROVE InstanceOK(v)'
  <2>1. CASE v \in In
    <3>1. v \in D <=> status[v] = "connected" /\ next_status[v] = "disconnected"
      BY <2>1 DEF D
    <3> QED
      BY <1>2, <1>3, <1>4, <1>5, <1>6, <1>7, <2>1, <3>1, PassInstance DEF Listed, AtLoop
  <2>2. CASE v \notin In
    <3>1. v \notin D /\ v \notin disc /\ sched_mask'[v] = sched_mask[v] /\ consumed'[v] = consumed[v]
      BY <1>2, <1>3, <2>2
    <3>2. \A c \in Cores : act[c] = v => act'[c] = v
      BY <1>2, <3>1 DEF Forget
    <3>3. Untouched(v)
      BY <1>2, <1>4, <1>5, <2>2, <3>1, <3>2, InstanceAssumption DEF Untouched, AtLoop
    <3> QED
      BY <1>1, <1>2, <3>3, UntouchedOK
  <2> QED
    BY <2>1, <2>2
<1>11. SchedOK'
  <2>1. \A c : c \in core_sched <=> \E w \in In : c \in sched_mask[w]
    BY <1>1 DEF SchedOK
  <2>2. \A w, x \in In : w # x => sched_mask[w] \cap sched_mask[x] = {}
    BY <1>1 DEF SchedOK
  <2>3. \A c : c \in core_sched' <=> c \in core_sched /\ \A w \in In : c \notin Released(w)
    BY <1>2
  <2>4. \A c : c \in core_sched' <=> \E w \in In : c \in active_mask[w]
    BY <1>6, <2>1, <2>2, <2>3 DEF Released
  <2>5. \A c : c \in core_sched' <=> \E w \in In \ D : c \in sched_mask'[w]
    BY <1>6, <1>8, <2>4
  <2>6. core_sched' = UNION {sched_mask'[w] : w \in Range(list')}
    BY <1>5, <2>5
  <2>7. \A w, x \in Range(list') : w # x => sched_mask'[w] \cap sched_mask'[x] = {}
    BY <1>5, <1>6, <2>2
  <2> QED
    BY <2>6, <2>7 DEF SchedOK
<1>12. PointersOK'
  BY <1>1, <1>2, <1>5 DEF PointersOK, Listed, Forget
<1>13. PendingOK'
  BY <1>4 DEF PendingOK, AtLoop
<1>14. IrqOK'
  BY <1>1, <1>2, <1>4, IrqThread DEF AtLoop
<1> QED
  BY <1>9, <1>10, <1>11, <1>12, <1>13, <1>14 DEF Inv

\* What vdec_ready_to_run says of an instance of the list: if it can run, then on
\* free cores of its own, and it has what the run needs.
LEMMA ReadyOK ==
    ASSUME Inv, NEW v \in Vdecs, Listed(v), NEW c \in Cores, NEW m, m = ReadyToRun(v, Offer(v, c)), m # {}
    PROVE  /\ u[v] = "idle" /\ next_status[v] = "connected"
           /\ m \subseteq core_mask[v] /\ m \cap core_sched = {}
           /\ \/ m = {"hevcb"} /\ kind[v].drv = "fb" /\ backq[v] > 0 /\ job[v]["back"].st = "none"
              \/ /\ m # {"hevcb"} /\ MainCore(v) \in m /\ unread[v] > 0 /\ consumed[v] = 0
                 /\ kind[v].drv = "fb" => m = {"hevc"}
                 /\ out[v] + backq[v] < kind[v].bufs
                 /\ job[v]["front"].st = "none"
           /\ (\A w \in Vdecs : kind[w].drv # "h264") =>
                 (IF m = {"hevcb"} THEN "back" ELSE "front") \notin irqpend[v]
<1> DEFINE o == Offer(v, c)
           back == IF "hevcb" \in o /\ v \notin combine /\ backq[v] > 0 THEN {"hevcb"} ELSE {}
           front == IF o \cap InputCores = {} \/ Underrun(v) \/ ~RunReady(v) THEN {}
                    ELSE IF v \in combine THEN o ELSE o \ {"hevcb"}
           ready == front \cup back
<1>1. TypeOK /\ SchedOK /\ InstanceOK(v) /\ \A w \in Vdecs : InstanceOK(w)
  BY DEF Inv
<1>2. Looks(v, o) /\ m = IF v \notin combine /\ combine # {} /\ {"hevc", "hevcb"} \subseteq ready
                         THEN {"hevcb"} ELSE ready
  BY DEF ReadyToRun
<1>3. next_status[v] = "connected" /\ u[v] = "idle"
  <2>1. next_status[v] = "connected" /\ status[v] # "disconnected"
    BY <1>1, <1>2 DEF Looks, TypeOK
  <2>2. u[v] \in {"new", "idle", "wait_reset", "wait_release", "reset", "release", "unregister", "removed", "gone"}
    BY <1>1 DEF TypeOK
  <2> QED
    BY <1>1, <2>1, <2>2 DEF InstanceOK, StageOK, Waiting, Out
<1>4. o \subseteq core_mask[v] /\ o \cap core_sched = {} /\ (combine = {} => o \subseteq {c})
      /\ (v \in combine => o \in {{}, core_mask[v]})
  BY DEF Offer, ScheduleMask
<1>5. core_mask[v] = (IF v \in combine THEN Cores ELSE Requested(kind[v].drv))
      /\ (v \in combine => kind[v].drv = "h264")
      /\ kind[v].drv \in {"hevc", "h264", "fb"}
  <2>1. kind[v].drv \in Drivers
    BY <1>1, KindType DEF KindRecords
  <2> QED
    BY <1>1, <1>3, <2>1 DEF InstanceOK, MaskOK, StageOK, Probed, Drivers
<1>6. active_mask[v] \subseteq sched_mask[v] /\ sched_mask[v] \subseteq core_sched
  BY <1>1 DEF InstanceOK, StatusOK, SchedOK, Listed
<1> HIDE DEF o
<1>7. front \subseteq o /\ back \subseteq o /\ (back # {} => backq[v] > 0 /\ v \notin combine /\ back = {"hevcb"})
      /\ (front # {} => ~Underrun(v) /\ RunReady(v) /\ o \cap InputCores # {}
                         /\ front = IF v \in combine THEN o ELSE o \ {"hevcb"})
  OBVIOUS
<1> HIDE DEF front, back
<1>8. m \subseteq o
  BY <1>2, <1>7
<1>9. \/ m = {"hevcb"} /\ kind[v].drv = "fb" /\ backq[v] > 0
      \/ /\ m # {"hevcb"} /\ MainCore(v) \in m /\ front # {}
         /\ kind[v].drv = "fb" => m = {"hevc"}
  <2>1. CASE v \in combine
    <3>1. back = {} /\ m = front /\ front # {}
      BY <1>2, <1>7, <2>1
    <3>2. m = Cores /\ kind[v].drv = "h264"
      BY <1>4, <1>5, <1>7, <2>1, <3>1
    <3> QED
      BY <3>1, <3>2 DEF Cores, MainCore
  <2>2. CASE v \notin combine /\ kind[v].drv # "fb"
    <3>1. core_mask[v] = {MainCore(v)} /\ MainCore(v) # "hevcb"
      BY <1>5, <2>2 DEF Requested, MainCore
    <3>2. back = {}
      BY <1>4, <1>7, <3>1
    <3>3. m = front /\ front # {} /\ front = {MainCore(v)}
      BY <1>2, <1>4, <1>7, <3>1, <3>2
    <3> QED
      BY <2>2, <3>1, <3>3
  <2>3. CASE v \notin combine /\ kind[v].drv = "fb"
    <3>1. core_mask[v] = {"hevc", "hevcb"} /\ MainCore(v) = "hevc"
      BY <1>5, <2>3 DEF Requested, MainCore
    <3>2. front \in {{}, {"hevc"}} /\ back \in {{}, {"hevcb"}}
      BY <1>4, <1>7, <2>3, <3>1
    <3>3. combine = {} => ~(front = {"hevc"} /\ back = {"hevcb"})
      BY <1>4, <1>7
    <3>4. CASE front = {"hevc"} /\ back = {"hevcb"}
      BY <1>2, <1>7, <2>3, <3>3, <3>4
    <3>5. CASE front = {"hevc"} /\ back = {}
      BY <1>2, <2>3, <3>1, <3>5
    <3>6. CASE front = {} /\ back = {"hevcb"}
      BY <1>2, <1>7, <2>3, <3>6
    <3>7. ~(front = {} /\ back = {})
      BY <1>2
    <3> QED
      BY <3>2, <3>4, <3>5, <3>6, <3>7
  <2> QED
    BY <2>1, <2>2, <2>3
<1>10. m # {"hevcb"} => /\ unread[v] > 0 /\ consumed[v] = 0 /\ out[v] + backq[v] < kind[v].bufs
                        /\ job[v]["front"].st = "none"
  <2>1. SUFFICES ASSUME m # {"hevcb"}
                 PROVE  /\ unread[v] > 0 /\ consumed[v] = 0 /\ out[v] + backq[v] < kind[v].bufs
                        /\ job[v]["front"].st = "none"
    OBVIOUS
  <2>2. MainCore(v) \in o /\ ~Underrun(v) /\ RunReady(v)
    BY <1>7, <1>8, <1>9, <2>1
  <2>3. MainCore(v) \notin sched_mask[v] /\ MainCore(v) \notin active_mask[v]
    BY <1>4, <1>6, <2>2
  <2>4. ~(consumed[v] > 0) /\ job[v]["front"].st = "none"
    BY <1>1, <2>3 DEF InstanceOK, JobOK
  <2>5. consumed[v] \in 0..1 /\ unread[v] \in 0..MaxFrames
    BY <1>1 DEF TypeOK
  <2>6. consumed[v] = 0
    BY <2>4, <2>5
  <2>7. unread[v] # 0
    BY <2>2, <2>6 DEF Underrun
  <2> QED
    BY <2>2, <2>4, <2>5, <2>6, <2>7, BoundAssumption DEF RunReady
<1>11. m = {"hevcb"} => job[v]["back"].st = "none"
  <2>1. SUFFICES ASSUME m = {"hevcb"} PROVE job[v]["back"].st = "none"
    OBVIOUS
  <2>2. "hevcb" \notin active_mask[v]
    BY <1>4, <1>6, <1>8, <2>1
  <2> QED
    BY <1>1, <2>2 DEF InstanceOK, JobOK
<1>12. (\A w \in Vdecs : kind[w].drv # "h264") =>
          (IF m = {"hevcb"} THEN "back" ELSE "front") \notin irqpend[v]
  <2>1. SUFFICES ASSUME \A w \in Vdecs : kind[w].drv # "h264"
                 PROVE  (IF m = {"hevcb"} THEN "back" ELSE "front") \notin irqpend[v]
    OBVIOUS
  <2>2. combine = {}
    BY <1>1, <2>1 DEF InstanceOK, MaskOK, TypeOK
  <2>3. o = {c} /\ m = {c}
    BY <1>4, <1>8, <2>2
  <2>4. c = "hevcb" \/ c \in {"hevc", "vdec1"}
    BY DEF Cores
  <2>5. ~IrqBlocks(v, {c})
    BY <1>2, <2>3 DEF Looks
  <2>6. CASE c = "hevcb"
    BY <2>3, <2>5, <2>6 DEF IrqBlocks
  <2>7. CASE c \in {"hevc", "vdec1"}
    BY <2>3, <2>5, <2>7 DEF IrqBlocks
  <2> QED
    BY <2>4, <2>6, <2>7
<1> QED
  BY <1>3, <1>4, <1>8, <1>9, <1>10, <1>11, <1>12

\* A part of the list
LEMMA PartOfList ==
    ASSUME NEW l \in Seq(Vdecs), NEW a \in Nat, NEW b \in Nat, a >= 1, b <= Len(l)
    PROVE  SubSeq(l, a, b) \in Seq(Vdecs) /\ Range(SubSeq(l, a, b)) \subseteq Range(l)
<1> DEFINE q == SubSeq(l, a, b)
<1>1. Len(l) \in Nat /\ \A i \in 1..Len(l) : l[i] \in Vdecs /\ l[i] \in Range(l)
  BY DEF Range
<1>2. q = [i \in 1..(1 + b - a) |-> l[i + a - 1]]
  OBVIOUS
<1>3. DOMAIN q = 1..(1 + b - a) /\ \A i \in DOMAIN q : q[i] = l[i + a - 1]
  BY <1>2
<1>4. \A i \in 1..(1 + b - a) : i + a - 1 \in 1..Len(l)
  BY <1>1
<1>5. q \in Seq(Vdecs)
  OBVIOUS
<1> HIDE DEF q
<1>6. \A i \in DOMAIN q : q[i] \in Range(l)
  BY <1>1, <1>3, <1>4
<1> QED
  BY <1>5, <1>6 DEF Range, q

\* An instance that is ready is elected.
LEMMA ElectedOK ==
    ASSUME Inv, NEW v \in Vdecs, Listed(v), NEW c \in Cores, NEW m, m = ReadyToRun(v, Offer(v, c)), m # {},
           t' = [Thread0 EXCEPT !.pc = "grant", !.v = v, !.m = m], need_more' \in [Vdecs -> BOOLEAN],
           UNCHANGED <<kind, status, next_status, done, core_mask, combine, active_mask, sched_mask, core_sched,
                       last, last_run, act, unread, consumed, backq, out, job, irqpend, cbs, disc, list, sem, u>>
    PROVE  Inv'
<1>1. TypeOK /\ SchedOK /\ PointersOK /\ IrqOK /\ \A w \in Vdecs : InstanceOK(w)
  BY DEF Inv
<1>2. /\ u[v] = "idle" /\ next_status[v] = "connected"
      /\ m \subseteq core_mask[v] /\ m \cap core_sched = {}
      /\ \/ m = {"hevcb"} /\ kind[v].drv = "fb" /\ backq[v] > 0 /\ job[v]["back"].st = "none"
         \/ /\ m # {"hevcb"} /\ MainCore(v) \in m /\ unread[v] > 0 /\ consumed[v] = 0
            /\ kind[v].drv = "fb" => m = {"hevc"}
            /\ out[v] + backq[v] < kind[v].bufs
            /\ job[v]["front"].st = "none"
      /\ (\A w \in Vdecs : kind[w].drv # "h264") =>
            (IF m = {"hevcb"} THEN "back" ELSE "front") \notin irqpend[v]
  BY ReadyOK
<1>3. t' \in ThreadStates /\ t'.pc = "grant" /\ t'.v = v /\ t'.m = m
  <2>1. m \subseteq Cores
    BY <1>1, <1>2 DEF TypeOK
  <2> QED
    BY <2>1, ThreadType DEF ThreadStates, Thread0
<1>4. TypeOK'
  BY <1>1, <1>3 DEF TypeOK
<1>5. ASSUME NEW w \in Vdecs PROVE InstanceOK(w)'
  BY <1>1, <1>2, <1>3, UntouchedOK DEF Untouched
<1>6. SchedOK' /\ PointersOK'
  BY <1>1, CoreSame
<1>7. PendingOK'
  BY <1>2, <1>3 DEF PendingOK, PendingSide, MainCore, Listed
<1>8. IrqOK'
  BY <1>1, <1>2, <1>3 DEF IrqOK, PendingSide
<1> QED
  BY <1>4, <1>5, <1>6, <1>7, <1>8 DEF Inv

\* One search, along instances of the list
LEMMA SearchOK ==
    ASSUME Inv, NEW q \in Seq(Vdecs), Range(q) \subseteq Range(list), NEW th, AtLoop(th),
           t.i \in 1..3, t.v = Null, Search(q, th)
    PROVE  Inv'
<1> USE DEF statusVars, maskVars, schedVars, dataVars, drvVars, thrVars
<1> DEFINE c == CoreOrder[t.i]
           ready == {k \in DOMAIN q : ReadyToRun(q[k], Offer(q[k], c)) # {}}
           hit == IF ready = {} THEN Len(q) + 1 ELSE CHOOSE k \in ready : \A l \in ready : k <= l
           seen == {q[k] : k \in {l \in DOMAIN q : l <= hit}}
           blocked == \E v \in seen : /\ Offer(v, c) # {} /\ next_status[v] # "disconnected"
                                      /\ status[v] \in {"connected", "active"}
                                      /\ IrqBlocks(v, Offer(v, c))
           elected == [Thread0 EXCEPT !.pc = "grant", !.v = q[hit], !.m = ReadyToRun(q[hit], Offer(q[hit], c))]
           more(v) == v \in seen /\ kind[v].stream /\ Looks(v, Offer(v, c)) /\ unread[v] = 0
                        /\ Offer(v, c) \cap InputCores # {}
<1>1. TypeOK /\ PendingOK /\ SchedOK /\ PointersOK /\ IrqOK /\ \A w \in Vdecs : InstanceOK(w)
  BY DEF Inv
<1>2. /\ need_more' = [v \in Vdecs |-> need_more[v] \/ more(v)]
      /\ t' = IF ready = {} THEN [th EXCEPT !.run_flag = @ \/ blocked] ELSE elected
      /\ UNCHANGED <<kind, status, next_status, done, core_mask, combine, active_mask, sched_mask, core_sched,
                     last, last_run, act, unread, consumed, backq, out, job, irqpend, cbs, disc, list, sem, u>>
  BY DEF Search
<1>3. c \in Cores
  BY DEF CoreOrder, Cores
<1>4. need_more' \in [Vdecs -> BOOLEAN]
  <2> HIDE DEF more
  <2> QED
    BY <1>2
<1>5. SchedOK' /\ PointersOK'
  BY <1>1, <1>2, CoreSame
<1>7. CASE ready = {}
  <2>1. AtLoop(t')
    <3>1. (th.run_flag \/ blocked) \in BOOLEAN
      OBVIOUS
    <3>2. t' = [th EXCEPT !.run_flag = th.run_flag \/ blocked]
      BY <1>2, <1>7
    <3> HIDE DEF blocked
    <3> QED
      BY <3>1, <3>2 DEF AtLoop, ThreadStates
  <2>2. TypeOK'
    BY <1>1, <1>2, <1>4, <2>1 DEF TypeOK, AtLoop
  <2>3. ASSUME NEW w \in Vdecs PROVE InstanceOK(w)'
    BY <1>1, <1>2, <2>1, UntouchedOK, InstanceAssumption DEF Untouched, AtLoop
  <2>4. PendingOK'
    BY <2>1 DEF PendingOK, AtLoop
  <2>5. IrqOK'
    BY <1>1, <1>2, <2>1, IrqThread DEF AtLoop
  <2> QED
    BY <1>5, <2>2, <2>3, <2>4, <2>5 DEF Inv
<1>8. CASE ready # {}
  <2>1. ready \in SUBSET Nat
    OBVIOUS
  <2> HIDE DEF ready
  <2>2. hit \in ready
    BY <1>8, <2>1, Smallest
  <2>3. hit \in DOMAIN q /\ ReadyToRun(q[hit], Offer(q[hit], c)) # {}
    <3> HIDE DEF hit
    <3> QED
      BY <2>2 DEF ready
  <2> HIDE DEF hit
  <2>4. q[hit] \in Vdecs /\ Listed(q[hit])
    <3>1. \A k \in DOMAIN q : q[k] \in Vdecs /\ q[k] \in Range(q)
      BY DEF Range
    <3> QED
      BY <2>3, <3>1 DEF Listed
  <2>5. t' = [Thread0 EXCEPT !.pc = "grant", !.v = q[hit], !.m = ReadyToRun(q[hit], Offer(q[hit], c))]
    BY <1>2, <1>8
  <2> HIDE DEF c, more
  <2> QED
    BY <1>2, <1>3, <1>4, <2>3, <2>4, <2>5, ElectedOK
<1> QED
  BY <1>7, <1>8

\* The place of an instance of the list
LEMMA PosOK ==
    ASSUME TypeOK, NEW v, Listed(v)
    PROVE  Pos(v) \in 1..Len(list)
<1>1. list \in Seq(Vdecs)
  BY DEF TypeOK
<1>2. \E k \in DOMAIN list : list[k] = v
  BY DEF Listed, Range
<1>3. Pos(v) \in DOMAIN list
  BY <1>2 DEF Pos
<1> QED
  BY <1>1, <1>3

\* The pointers the elections start from are in the list.
LEMMA LastOK ==
    ASSUME PointersOK, NEW c \in Cores
    PROVE  LastVdec[c] # Null => Listed(LastVdec[c])
BY DEF PointersOK, LastVdec, LastOf

\* The first search
LEMMA SearchAfterOK ==
    ASSUME Inv, SearchAfter
    PROVE  Inv'
<1>1. TypeOK /\ PendingOK /\ PointersOK
  BY DEF Inv
<1>2. t.pc = "after" /\ t.v = Null /\ t.i \in 1..3 /\ t \in ThreadStates
  BY <1>1 DEF SearchAfter, PendingOK, TypeOK
<1> DEFINE l == LastVdec[CoreOrder[t.i]]
           q == IF l = Null THEN <<>> ELSE SubSeq(list, Pos(l) + 1, Len(list))
           th == [t EXCEPT !.pc = "start"]
<1>3. Search(q, th)
  BY DEF SearchAfter
<1>4. AtLoop(th)
  BY <1>2 DEF AtLoop, ThreadStates
<1>5. l # Null => Listed(l)
  <2>1. CoreOrder[t.i] \in Cores
    BY <1>2 DEF CoreOrder, Cores
  <2> QED
    BY <1>1, <2>1, LastOK
<1>6. list \in Seq(Vdecs) /\ Len(list) \in Nat
  BY <1>1 DEF TypeOK
<1> HIDE DEF l, th
<1>7. q \in Seq(Vdecs) /\ Range(q) \subseteq Range(list)
  <2>1. CASE l = Null
    <3>1. q = <<>>
      BY <2>1
    <3> HIDE DEF q
    <3>2. q \in Seq(Vdecs) /\ Len(q) = 0
      BY <3>1
    <3>3. \A k \in DOMAIN q : FALSE
      BY <3>2
    <3> QED
      BY <3>2, <3>3 DEF Range
  <2>2. CASE l # Null
    <3>1. Pos(l) \in 1..Len(list)
      BY <1>1, <1>5, <2>2, PosOK
    <3>2. Pos(l) + 1 \in Nat /\ Pos(l) + 1 >= 1 /\ Len(list) <= Len(list)
      BY <1>6, <3>1
    <3> QED
      BY <1>6, <2>2, <3>2, PartOfList
  <2> QED
    BY <2>1, <2>2
<1> HIDE DEF q
<1> QED
  BY <1>2, <1>3, <1>4, <1>7, SearchOK

\* The second search
LEMMA SearchStartOK ==
    ASSUME Inv, SearchStart
    PROVE  Inv'
<1>1. TypeOK /\ PendingOK /\ PointersOK
  BY DEF Inv
<1>2. t.pc = "start" /\ t.v = Null /\ t.i \in 1..3 /\ t \in ThreadStates
  BY <1>1 DEF SearchStart, PendingOK, TypeOK
<1> DEFINE l == LastVdec[CoreOrder[t.i]]
           q == IF l = Null THEN list ELSE SubSeq(list, 1, Pos(l))
           th == AtCore(t, FreeFrom(t.i + 1, core_sched), LastVdec)
<1>3. Search(q, th)
  BY DEF SearchStart
<1>4. AtLoop(th)
  <2>1. t.i + 1 \in 1..4
    BY <1>2
  <2>2. FreeFrom(t.i + 1, core_sched) \in 1..4
    BY <2>1, FreeFromOK
  <2> QED
    BY <1>2, <2>2, AtCoreOK
<1>5. l # Null => Listed(l)
  <2>1. CoreOrder[t.i] \in Cores
    BY <1>2 DEF CoreOrder, Cores
  <2> QED
    BY <1>1, <2>1, LastOK
<1>6. list \in Seq(Vdecs) /\ Len(list) \in Nat
  BY <1>1 DEF TypeOK
<1> HIDE DEF l, th
<1>7. q \in Seq(Vdecs) /\ Range(q) \subseteq Range(list)
  <2>1. CASE l = Null
    BY <1>6, <2>1
  <2>2. CASE l # Null
    <3>1. Pos(l) \in 1..Len(list)
      BY <1>1, <1>5, <2>2, PosOK
    <3>2. Pos(l) \in Nat /\ Pos(l) <= Len(list)
      BY <1>6, <3>1
    <3> QED
      BY <1>6, <2>2, <3>2, PartOfList
  <2> QED
    BY <2>1, <2>2
<1> HIDE DEF q
<1> QED
  BY <1>2, <1>3, <1>4, <1>7, SearchOK

-----------------------------------------------------------------------------
(* The invariant *)

\* Every initial state satisfies the invariant.
LEMMA InvInit == Init => Inv
<1> SUFFICES ASSUME Init PROVE Inv
  OBVIOUS
<1> USE DEF Init
<1>1. Range(list) = {} /\ list \in Seq(Vdecs)
  <2>1. \A k \in DOMAIN list : FALSE
    <3>1. list \in Seq(Vdecs) /\ Len(list) = 0
      OBVIOUS
    <3> QED
      BY <3>1
  <2> QED
    BY <2>1 DEF Range
<1>2. kind \in Setups /\ \A v \in Vdecs : kind[v].bufs \in Nat
  BY InstanceAssumption DEF KindRecords
<1>3. job \in Jobs /\ \A v \in Vdecs, s \in Sides : job[v][s].st = "none"
  BY DEF Jobs, JobRecords, NoJob
<1>4. t \in ThreadStates /\ t.pc = "down" /\ t.v = Null
  BY ThreadType DEF Thread0
<1>5. \A v \in Vdecs : out[v] + backq[v] <= kind[v].bufs
  BY <1>2
<1>6. TypeOK
  BY <1>1, <1>2, <1>3, <1>4, <1>5, BoundAssumption DEF TypeOK
<1>7. ASSUME NEW v \in Vdecs PROVE InstanceOK(v)
  <2>1. Out(v) /\ NoRun(v) /\ ~Listed(v) /\ u[v] \in {"gone", "new"} /\ ~Probed(v) /\ ~Waiting(v)
    BY <1>1, <1>3 DEF Out, NoRun, Listed, Probed, Waiting
  <2>2. StageOK(v)
    BY <2>1 DEF StageOK
  <2>3. StatusOK(v) /\ MaskOK(v)
    BY <2>1 DEF StatusOK, MaskOK
  <2>4. JobOK(v)
    BY <1>3 DEF JobOK, Running, Sides
  <2> QED
    BY <2>2, <2>3, <2>4 DEF InstanceOK
<1>8. SchedOK /\ PointersOK
  BY <1>1 DEF SchedOK, PointersOK
<1>9. PendingOK
  BY <1>4 DEF PendingOK
<1>10. IrqOK
  BY <1>4 DEF IrqOK
<1> QED
  BY <1>6, <1>7, <1>8, <1>9, <1>10 DEF Inv

\* A step that changes nothing
LEMMA StutterOK == Inv /\ UNCHANGED vars => Inv'
<1> SUFFICES ASSUME Inv, UNCHANGED vars PROVE Inv'
  OBVIOUS
<1> USE DEF vars, statusVars, maskVars, schedVars, dataVars, drvVars, thrVars
<1>1. TypeOK /\ PendingOK /\ SchedOK /\ PointersOK /\ IrqOK /\ \A w \in Vdecs : InstanceOK(w)
  BY DEF Inv
<1>2. TypeOK'
  BY <1>1 DEF TypeOK
<1>3. ASSUME NEW w \in Vdecs PROVE Untouched(w)
  BY DEF Untouched
<1>4. ASSUME NEW w \in Vdecs PROVE InstanceOK(w)'
  BY <1>1, <1>3, UntouchedOK
<1>5. SchedOK' /\ PointersOK'
  BY <1>1, CoreSame
<1>6. PendingOK'
  BY <1>1, <1>3, PendingUntouched
<1>7. IrqOK'
  BY <1>1, IrqSame
<1> QED
  BY <1>2, <1>4, <1>5, <1>6, <1>7 DEF Inv

\* Every step preserves the invariant, when the waits end only on instances that
\* hang.
LEMMA InvNext ==
    ASSUME TimeoutWhenHung, Inv, [Next]_vars
    PROVE  Inv'
<1>1. ASSUME NEW v \in Vdecs, User(v) PROVE Inv'
  <2>1. \/ Open(v) \/ \E why \in {"reset", "release"} : Disconnect(v, why)
        \/ DisconnectDone(v) \/ DisconnectTimeout(v) \/ Reset(v) \/ InactiveCoreReset(v)
        \/ Unregister(v) \/ ForceClear(v) \/ Write(v) \/ Put(v)
    BY <1>1 DEF User
  <2>2. CASE \E why \in {"reset", "release"} : Disconnect(v, why)
    BY <2>2, DisconnectOK
  <2> QED
    BY <2>1, <2>2, OpenOK, DisconnectDoneOK, DisconnectTimeoutOK, ResetOK, InactiveCoreResetOK, UnregisterOK,
       ForceClearOK, WriteOK, PutOK
<1>2. ASSUME NEW v \in Vdecs, Worker(v) PROVE Inv'
  BY <1>2, WorkOK, WorkBackOK, SetMmuOK, ClearMmuOK DEF Worker
<1>3. ASSUME NEW v \in Vdecs, NEW s \in Sides, Driver(v, s) PROVE Inv'
  BY <1>3, IsrOK, IrqThreadDoneOK, HangOK, CallbackOK DEF Driver
<1>4. ASSUME Thread PROVE Inv'
  <2>1. CASE Grant
    <3>1. t.v \in Vdecs
      BY <2>1 DEF Grant, Inv, PendingOK
    <3> QED
      BY <2>1, <3>1, GrantOK
  <2>2. CASE Run
    <3>1. t.v \in Vdecs /\ PendingSide \in Sides
      BY <2>2 DEF Run, Inv, PendingOK, PendingSide, Sides
    <3> QED
      BY <2>2, <3>1, RunOK
  <2>3. CASE \E v \in Vdecs : Reap(v)
    BY <2>3, ReapOK
  <2> QED
    BY <1>4, <2>1, <2>2, <2>3, PassOK, SearchAfterOK, SearchStartOK, EndPassOK DEF Thread
<1> QED
  BY <1>1, <1>2, <1>3, <1>4, StutterOK DEF Next

(* The invariant holds in every reachable state of every set of instances, *)
(* however long their inputs, however many disconnects, resets and         *)
(* releases, wherever the hardware hangs.                                  *)
THEOREM Invariance ==
    ASSUME TimeoutWhenHung
    PROVE  Spec => []Inv
BY InvInit, InvNext, PTL DEF Spec

(* vdec_core_s and vdec_s keep their types: a driver never makes more      *)
(* pictures than it has buffers.                                           *)
THEOREM TypeCorrect ==
    ASSUME TimeoutWhenHung
    PROVE  Spec => []TypeOK
<1>1. Inv => TypeOK
  BY DEF Inv
<1> QED
  BY <1>1, Invariance, PTL

(* Two instances never hold one core, core->sched_mask is exactly what the *)
(* listed instances hold, and hardware runs only on cores marked as taken, *)
(* active and owned by the instance (vdec_core_thread, vdec_core_finish_run*)
(* and vdec_connect_list_force_clear).                                     *)
THEOREM CoresAreOwned ==
    ASSUME TimeoutWhenHung
    PROVE  Spec => []CoresOwned
<1>1. Inv => CoresOwned
  <2> SUFFICES ASSUME Inv PROVE CoresOwned
    OBVIOUS
  <2>1. TypeOK /\ SchedOK /\ \A w \in Vdecs : InstanceOK(w)
    BY DEF Inv
  <2>2. Range(list) \subseteq Vdecs
    BY <2>1 DEF TypeOK, Range
  <2>3. ASSUME NEW v \in Range(list)
        PROVE  /\ active_mask[v] \subseteq sched_mask[v]
               /\ u[v] # "removed" => (status[v] = "active") = (active_mask[v] # {})
    <3>1. /\ active_mask[v] \subseteq sched_mask[v]
          /\ u[v] # "removed" => (status[v] = "active" <=> active_mask[v] # {})
      BY <2>1, <2>2 DEF InstanceOK, StatusOK, Listed
    <3> QED
      BY <3>1
  <2>4. ASSUME NEW v \in Vdecs, NEW s \in Sides, Running(job[v][s])
        PROVE  /\ job[v][s].cores \subseteq core_sched
               /\ job[v][s].cores \subseteq active_mask[v]
               /\ \A c \in job[v][s].cores : act[c] = v
    <3>1. /\ job[v][s].cores \subseteq active_mask[v] /\ active_mask[v] # {} /\ ~NoRun(v)
          /\ \A c \in job[v][s].cores : act[c] = v
      BY <2>1, <2>4 DEF InstanceOK, JobOK, Running, NoRun, Sides
    <3>2. Listed(v) /\ active_mask[v] \subseteq sched_mask[v]
      BY <2>1, <3>1 DEF InstanceOK, StageOK, StatusOK
    <3>3. sched_mask[v] \subseteq core_sched
      BY <2>1, <3>2 DEF SchedOK, Listed
    <3> QED
      BY <3>1, <3>2, <3>3
  <2> QED
    BY <2>1, <2>3, <2>4 DEF CoresOwned, SchedOK
<1> QED
  BY <1>1, Invariance, PTL

(* A run has its chunk, or its picture for the back core, until its work   *)
(* item takes it: vdec_core_thread's clean-up and vdec_reset never take it *)
(* away first.                                                             *)
THEOREM RunsHaveInput ==
    ASSUME TimeoutWhenHung
    PROVE  Spec => []RunHasInput
<1>1. Inv => RunHasInput
  BY DEF Inv, InstanceOK, JobOK, RunHasInput
<1> QED
  BY <1>1, Invariance, PTL

(* After vdec_release nothing of the core points to the instance, and the  *)
(* pointers the elections start from are null or in the list.              *)
THEOREM NothingDangles ==
    ASSUME TimeoutWhenHung
    PROVE  Spec => []NoDangling
<1>1. Inv => NoDangling
  <2> SUFFICES ASSUME Inv PROVE NoDangling
    OBVIOUS
  <2>1. TypeOK /\ PendingOK /\ PointersOK /\ \A w \in Vdecs : InstanceOK(w)
    BY DEF Inv
  <2>2. ASSUME NEW v \in Vdecs, u[v] = "gone"
        PROVE  /\ ~Listed(v) /\ v \notin disc /\ t.v # v /\ cbs[v] = {}
               /\ \A c \in Cores : act[c] # v
               /\ \A s \in Sides : job[v][s].st = "none"
    <3>1. ~Listed(v) /\ v \notin disc /\ NoRun(v) /\ cbs[v] = {}
      BY <2>1, <2>2 DEF InstanceOK, StageOK
    <3>2. t.v # v
      BY <2>1, <2>2, NotPending
    <3>3. \A c \in Cores : act[c] # v
      BY <2>1, <3>1, InstanceAssumption DEF PointersOK
    <3> QED
      BY <3>1, <3>2, <3>3 DEF NoRun
  <2> QED
    BY <2>1, <2>2 DEF NoDangling, PointersOK
<1> QED
  BY <1>1, Invariance, PTL

(* No run starts before the irq thread of the previous one has returned,   *)
(* where no instance asks for combined cores (vdec_ready_to_run).          *)
THEOREM IrqThreadIsFirst ==
    ASSUME TimeoutWhenHung
    PROVE  Spec => []IrqThreadFirst
<1>1. Inv => IrqThreadFirst
  BY DEF Inv, IrqOK, IrqThreadFirst
<1> QED
  BY <1>1, Invariance, PTL

-----------------------------------------------------------------------------
(* No wake-up is lost, where no instance combines cores *)

\* Nobody has cores combined.
LEMMA NoneCombined ==
    ASSUME Inv, NoCombining
    PROVE  combine = {}
BY DEF Inv, NoCombining, InstanceOK, MaskOK, TypeOK

\* A step that wakes the thread
LEMMA WokenOK ==
    ASSUME Inv, WakeInv, t' = t, sem' = Up(sem)
    PROVE  WakeInv'
<1>1. sem' # 0
  BY BoundAssumption DEF Inv, TypeOK, Up
<1> QED
  BY <1>1 DEF WakeInv, Unwoken

\* A step that leaves the thread alone and makes no instance ripe for a core
LEMMA QuietOK ==
    ASSUME WakeInv, UNCHANGED <<kind, t, list, last>>,
           NoCombining /\ Unwoken' =>
               /\ Unwoken
               /\ \A v \in Vdecs : Doomed(v)' => Doomed(v)
               /\ \A v \in Vdecs, c \in Cores : Ripe(v, c)' => Ripe(v, c)
    PROVE  WakeInv'
<1>1. \A v, c : Seen(v, c)' <=> Seen(v, c)
  BY DEF Seen, Behind, Pos
<1>2. NoCombining' <=> NoCombining
  BY DEF NoCombining
<1> QED
  BY <1>1, <1>2 DEF WakeInv, PassedOver

\* What waits for a core, or to be disconnected, is told from these.
LEMMA RipeSame ==
    ASSUME NEW v, NEW c, UNCHANGED <<kind, list, core_mask, core_sched>>,
           status'[v] = status[v], next_status'[v] = next_status[v],
           out'[v] = out[v], backq'[v] = backq[v], unread'[v] = unread[v],
           consumed'[v] = consumed[v], need_more[v] => need_more'[v]
    PROVE  (Doomed(v)' => Doomed(v)) /\ (Ripe(v, c)' => Ripe(v, c))
BY DEF Doomed, Ripe, Listed, CouldRun, RunReady

\* A step that wakes nobody up and releases nobody
LEMMA UnwokenSame ==
    ASSUME UNCHANGED <<sem, cbs, sched_mask>>, \A w \in Vdecs : u'[w] = "gone" <=> u[w] = "gone"
    PROVE  Unwoken' <=> Unwoken
BY DEF Unwoken, ForcedOut

\* What users do: each step wakes the thread or makes nothing ripe, or it is the
\* release of an instance that still holds cores.
LEMMA UserWakes ==
    ASSUME Inv, WakeInv, NEW v \in Vdecs, User(v)
    PROVE  WakeInv'
<1> USE DEF statusVars, maskVars, schedVars, dataVars, drvVars, thrVars
<1>1. TypeOK /\ InstanceOK(v)
  BY DEF Inv
<1>2. /\ u \in [Vdecs -> {"new", "idle", "wait_reset", "wait_release", "reset", "release",
                          "unregister", "removed", "gone"}]
      /\ status \in [Vdecs -> {"disconnected", "connected", "active"}]
      /\ need_more \in [Vdecs -> BOOLEAN] /\ unread \in [Vdecs -> 0..MaxFrames]
      /\ consumed \in [Vdecs -> 0..1]
  BY <1>1 DEF TypeOK
<1>3. CASE Open(v)
  <2>1. status[v] = "disconnected"
    BY <1>1, <1>3 DEF Open, InstanceOK, StageOK, Out
  <2> QED
    BY <1>3, <2>1, WokenOK DEF Open, Connected
<1>4. ASSUME NEW why \in {"reset", "release"}, Disconnect(v, why) PROVE WakeInv'
  <2>1. CASE status[v] \in {"connected", "active"}
    BY <1>4, <2>1, WokenOK DEF Disconnect
  <2>2. CASE status[v] \notin {"connected", "active"}
    <3>1. /\ u' = [u EXCEPT ![v] = why] /\ u[v] = "idle"
          /\ UNCHANGED <<kind, t, list, last, core_mask, core_sched, status, next_status, out, backq, unread,
                         consumed, need_more, sem, cbs, sched_mask>>
      BY <1>4, <2>2 DEF Disconnect
    <3>2. Unwoken' <=> Unwoken
      BY <1>2, <3>1, UnwokenSame
    <3> QED
      BY <3>1, <3>2, RipeSame, QuietOK
  <2> QED
    BY <2>1, <2>2
<1>5. CASE DisconnectDone(v) \/ DisconnectTimeout(v) \/ InactiveCoreReset(v)
  <2>1. /\ u' \in {[u EXCEPT ![v] = "reset"], [u EXCEPT ![v] = "release"], [u EXCEPT ![v] = "unregister"]}
        /\ u[v] # "gone"
        /\ UNCHANGED <<kind, t, list, last, core_mask, core_sched, status, next_status, out, backq, unread,
                       consumed, need_more, sem, cbs, sched_mask>>
    BY <1>2, <1>5 DEF DisconnectDone, DisconnectTimeout, InactiveCoreReset, Waiting, Proceed
  <2>2. Unwoken' <=> Unwoken
    BY <1>2, <2>1, UnwokenSame
  <2> QED
    BY <2>1, <2>2, RipeSame, QuietOK
<1>6. CASE Reset(v)
  <2>1. CASE status[v] = "disconnected"
    BY <1>6, <2>1, WokenOK DEF Reset, Connected
  <2>2. CASE status[v] # "disconnected"
    <3>1. /\ u' = [u EXCEPT ![v] = "idle"] /\ u[v] = "reset" /\ next_status[v] = "disconnected"
          /\ UNCHANGED <<kind, t, list, last, core_mask, core_sched, status, next_status, need_more, sem, cbs,
                         sched_mask>>
          /\ unread' = [unread EXCEPT ![v] = 0] /\ consumed' = [consumed EXCEPT ![v] = 0]
          /\ backq' = [backq EXCEPT ![v] = 0] /\ out' = [out EXCEPT ![v] = 0]
      BY <1>1, <1>6, <2>2 DEF Reset, Connected, InstanceOK, StageOK
    <3>2. Unwoken' <=> Unwoken
      BY <1>2, <3>1, UnwokenSame
    <3>3. ASSUME NEW w \in Vdecs, NEW c \in Cores
          PROVE  (Doomed(w)' => Doomed(w)) /\ (Ripe(w, c)' => Ripe(w, c))
      <4>1. CASE w = v
        BY <3>1, <4>1 DEF Doomed, Ripe, Listed
      <4>2. CASE w # v
        BY <3>1, <4>2, RipeSame
      <4> QED
        BY <4>1, <4>2
    <3> QED
      BY <3>1, <3>2, <3>3, QuietOK DEF Cores
  <2> QED
    BY <2>1, <2>2
<1>7. CASE Unregister(v)
  <2>1. /\ u' = [u EXCEPT ![v] = "removed"] /\ u[v] = "unregister"
        /\ status' = [status EXCEPT ![v] = "disconnected"] /\ core_mask' = [core_mask EXCEPT ![v] = {}]
        /\ UNCHANGED <<kind, t, list, last, core_sched, next_status, out, backq, unread,
                       consumed, need_more, sem, cbs, sched_mask>>
    BY <1>7 DEF Unregister
  <2>2. Unwoken' <=> Unwoken
    BY <1>2, <2>1, UnwokenSame
  <2>3. core_mask \in [Vdecs -> SUBSET Cores]
    BY <1>1 DEF TypeOK
  <2>4. ASSUME NEW w \in Vdecs, NEW c \in Cores
        PROVE  (Doomed(w)' => Doomed(w)) /\ (Ripe(w, c)' => Ripe(w, c))
    <3>1. CASE w = v
      BY <1>2, <2>1, <3>1 DEF Doomed, Ripe
    <3>2. CASE w # v
      BY <1>2, <2>1, <2>3, <3>2 DEF Doomed, Ripe, Listed, CouldRun, RunReady
    <3> QED
      BY <3>1, <3>2
  <2> QED
    BY <2>1, <2>2, <2>4, QuietOK DEF Cores
<1>8. CASE ForceClear(v)
  <2>1. u[v] = "removed" /\ u' = [u EXCEPT ![v] = "gone"] /\ status[v] = "disconnected" /\ (Out(v) \/ Stuck(v))
        /\ (Listed(v) => active_mask[v] \subseteq sched_mask[v])
        /\ UNCHANGED <<kind, t, core_mask, status, next_status, out, backq, unread, consumed, need_more,
                       sem, cbs, sched_mask>>
    BY <1>1, <1>8 DEF ForceClear, InstanceOK, StageOK, StatusOK
  <2>2. CASE Listed(v)
    <3>1. sched_mask[v] # {}
      BY <2>1, <2>2 DEF Out, Stuck
    <3>2. ~Unwoken'
      BY <1>2, <2>1, <3>1 DEF Unwoken, ForcedOut
    <3> QED
      BY <2>1, <3>2 DEF WakeInv
  <2>3. CASE ~Listed(v)
    <3>1. UNCHANGED <<list, last, core_sched>>
      BY <1>8, <2>3 DEF ForceClear
    <3>2. Unwoken' => Unwoken
      BY <1>2, <2>1 DEF Unwoken, ForcedOut
    <3> QED
      BY <2>1, <3>1, <3>2, RipeSame, QuietOK
  <2> QED
    BY <2>2, <2>3
<1>9. CASE Write(v)
  <2>1. /\ u[v] = "idle" /\ unread' = [unread EXCEPT ![v] = unread[v] + 1]
        /\ need_more' = [need_more EXCEPT ![v] = FALSE]
        /\ UNCHANGED <<kind, t, list, last, core_mask, core_sched, status, next_status, out, backq,
                       consumed, cbs, sched_mask, u>>
    BY <1>9 DEF Write
  <2>2. CASE IF kind[v].stream THEN need_more[v] ELSE unread[v] + consumed[v] = 0
    BY <1>9, <2>2, WokenOK DEF Write
  <2>3. CASE ~IF kind[v].stream THEN need_more[v] ELSE unread[v] + consumed[v] = 0
    <3>1. sem' = sem
      BY <1>9, <2>3 DEF Write
    <3>2. Unwoken' <=> Unwoken
      BY <2>1, <3>1, UnwokenSame
    <3>3. ASSUME NEW w \in Vdecs, NEW c \in Cores
          PROVE  (Doomed(w)' => Doomed(w)) /\ (Ripe(w, c)' => Ripe(w, c))
      <4>1. CASE w = v
        <5>1. unread[v] + consumed[v] > 0 \/ kind[v].stream
          BY <1>2, <2>3, BoundAssumption
        <5>2. kind[v].stream => ~need_more[v]
          BY <2>3
        <5> QED
          BY <2>1, <4>1, <5>1, <5>2 DEF Doomed, Ripe, Listed, CouldRun, RunReady
      <4>2. CASE w # v
        BY <1>2, <2>1, <4>2, RipeSame
      <4> QED
        BY <4>1, <4>2
    <3> QED
      BY <2>1, <3>1, <3>2, <3>3, QuietOK DEF Cores
  <2> QED
    BY <2>2, <2>3
<1>10. CASE Put(v)
  BY <1>10, WokenOK DEF Put
<1> QED
  BY <1>3, <1>4, <1>5, <1>6, <1>7, <1>8, <1>9, <1>10 DEF User

\* What drivers do: a work item ends with vdec_callback.
LEMMA DriverWakes ==
    ASSUME Inv, WakeInv, NEW v \in Vdecs, Worker(v) \/ \E s \in Sides : Driver(v, s)
    PROVE  WakeInv'
<1> USE DEF statusVars, maskVars, schedVars, dataVars, drvVars, thrVars
<1>1. cbs \in [Vdecs -> SUBSET Sides]
  BY DEF Inv, TypeOK
<1>2. CASE Work(v) \/ WorkBack(v)
  <2>1. cbs'[v] # {} /\ t' = t
    BY <1>1, <1>2 DEF Work, WorkBack, Finished, Sides
  <2> QED
    BY <2>1 DEF WakeInv, Unwoken
<1>3. CASE SetMmu(v) \/ ClearMmu(v)
  <2>1. ~NoCombining' /\ t' = t
    BY <1>3 DEF SetMmu, ClearMmu, NoCombining
  <2> QED
    BY <2>1 DEF WakeInv
<1>4. ASSUME NEW s \in Sides, Isr(v, s) \/ IrqThreadDone(v, s) \/ Hang(v, s) PROVE WakeInv'
  <2>1. UNCHANGED <<kind, t, list, last, core_mask, core_sched, status, next_status, out, backq, unread,
                    consumed, need_more, sem, cbs, sched_mask, u>>
    BY <1>4 DEF Isr, IrqThreadDone, Hang
  <2>2. Unwoken' <=> Unwoken
    BY <2>1, UnwokenSame
  <2> QED
    BY <2>1, <2>2, RipeSame, QuietOK
<1>5. ASSUME NEW s \in Sides, Callback(v, s) PROVE WakeInv'
  BY <1>5, WokenOK DEF Callback
<1> QED
  BY <1>2, <1>3, <1>4, <1>5 DEF Worker, Driver

\* The loop goes from core to core and leaves out the ones that are taken.
LEMMA LoopSeen ==
    ASSUME NEW k \in 1..4, NEW taken, NEW v, NEW c \in Cores,
           t'.i = FreeFrom(k, taken),
           t'.pc = IF t'.i > 3 THEN "reap" ELSE IF last'[CoreOrder[t'.i]] = Null THEN "start" ELSE "after",
           Seen(v, c)'
    PROVE  c \in taken \/ \E j \in 1..(k - 1) : CoreOrder[j] = c
<1>1. t'.i \in 1..4 /\ \A j \in k..(t'.i - 1) : CoreOrder[j] \in taken
  BY FreeFromOK
<1>2. \E j \in 1..3 : CoreOrder[j] = c
  <2>1. CoreOrder[1] = "hevcb" /\ CoreOrder[2] = "hevc" /\ CoreOrder[3] = "vdec1"
    BY DEF CoreOrder
  <2> QED
    BY <2>1 DEF Cores
<1>3. PICK j \in 1..3 : CoreOrder[j] = c /\ j < t'.i
  <2>1. CASE t'.i > 3
    BY <1>1, <1>2, <2>1
  <2>2. CASE ~(t'.i > 3)
    <3>1. t'.pc \in {"start", "after"} /\ t'.i \in 1..3
          /\ (t'.pc = "start" => last'[CoreOrder[t'.i]] = Null)
      BY <1>1, <2>2
    <3>2. \E j \in 1..(t'.i - 1) : CoreOrder[j] = c
      BY <3>1 DEF Seen
    <3> QED
      BY <3>1, <3>2
  <2> QED
    BY <2>1, <2>2
<1> QED
  BY <1>1, <1>3

\* x is the thread th at index i of the loop
LoopAt(x, th, i, lastOf) ==
    /\ x \in ThreadStates /\ x.i = i /\ x.worker = th.worker /\ x.run_flag = th.run_flag
    /\ x.pc = IF i > 3 THEN "reap" ELSE IF lastOf[CoreOrder[i]] = Null THEN "start" ELSE "after"

LEMMA AtCoreIs ==
    ASSUME NEW th \in ThreadStates, NEW i \in 1..4, NEW lastOf
    PROVE  LoopAt(AtCore(th, i, lastOf), th, i, lastOf)
<1>1. Len(CoreOrder) = 3
  BY DEF CoreOrder
<1> DEFINE p == IF i > 3 THEN "reap" ELSE IF lastOf[CoreOrder[i]] = Null THEN "start" ELSE "after"
<1>2. p \in {"after", "start", "reap"}
  OBVIOUS
<1> DEFINE x == [th EXCEPT !.i = i, !.pc = p]
<1>3. AtCore(th, i, lastOf) = x
  BY <1>1 DEF AtCore
<1> HIDE DEF p
<1>4. x \in ThreadStates /\ x.i = i /\ x.pc = p /\ x.worker = th.worker /\ x.run_flag = th.run_flag
  BY <1>2 DEF ThreadStates
<1> HIDE DEF x
<1>5. LoopAt(x, th, i, lastOf)
  BY <1>4 DEF LoopAt, p
<1> QED
  BY <1>3, <1>5

\* The first section of a pass: what it takes out of the list was doomed, and it
\* passes over cores that are taken only.
LEMMA PassWakes ==
    ASSUME Inv, WakeInv, Pass
    PROVE  WakeInv'
<1> USE DEF statusVars, maskVars, schedVars, dataVars, drvVars, thrVars
<1> DEFINE In == Range(list)
           D == {v \in In : status[v] = "connected" /\ next_status[v] = "disconnected"}
           S == {v \in In : kind[v].stream}
           th == [Thread0 EXCEPT !.stream = UNION {core_mask[v] : v \in S}, !.comb = S \cap combine # {}]
<1>1. /\ list' = Without(list, D) /\ status' = status /\ next_status' = next_status
      /\ last' = [c \in Cores |-> Forget(last[c], D)]
      /\ t' = AtCore(th, FreeFrom(1, core_sched'), LastOf(last', last_run'))
      /\ UNCHANGED <<kind, core_mask>>
  BY DEF Pass
<1>2. list \in Seq(Vdecs) /\ core_mask \in [Vdecs -> SUBSET Cores] /\ In \subseteq Vdecs
  <2>1. list \in Seq(Vdecs) /\ core_mask \in [Vdecs -> SUBSET Cores]
    BY DEF Inv, TypeOK
  <2> QED
    BY <2>1 DEF Range
<1>3. th \in ThreadStates /\ ~th.worker /\ ~th.run_flag
  <2>1. UNION {core_mask[v] : v \in S} \subseteq Cores
    BY <1>2
  <2>2. (S \cap combine # {}) \in BOOLEAN
    OBVIOUS
  <2> HIDE DEF S
  <2> QED
    BY <2>1, <2>2, ThreadType DEF ThreadStates, Thread0
<1>4. Range(list') = In \ D
  BY <1>1, <1>2, WithoutOK
<1>5. FreeFrom(1, core_sched') \in 1..4
  BY FreeFromOK
<1> HIDE DEF th
<1>6. /\ t'.i = FreeFrom(1, core_sched') /\ ~t'.worker /\ ~t'.run_flag
      /\ t'.pc = IF t'.i > 3 THEN "reap"
                 ELSE IF LastOf(last', last_run')[CoreOrder[t'.i]] = Null THEN "start" ELSE "after"
  <2> DEFINE i == FreeFrom(1, core_sched')
             lastOf == LastOf(last', last_run')
             x == t'
  <2>1. i \in 1..4 /\ x = AtCore(th, i, lastOf)
    BY <1>1, <1>5
  <2> HIDE DEF i, lastOf, x
  <2>2. LoopAt(AtCore(th, i, lastOf), th, i, lastOf)
    BY <1>3, <2>1, AtCoreIs
  <2>3. LoopAt(x, th, i, lastOf)
    BY <2>1, <2>2
  <2>4. /\ x.i = i /\ ~x.worker /\ ~x.run_flag
        /\ x.pc = IF i > 3 THEN "reap" ELSE IF lastOf[CoreOrder[i]] = Null THEN "start" ELSE "after"
    BY <1>3, <2>3 DEF LoopAt
  <2> QED
    BY <2>4 DEF i, lastOf, x
<1>7. \A v : ~Doomed(v)'
  BY <1>1, <1>4 DEF Doomed, Listed
<1>8. ASSUME NoCombining', NEW v \in Vdecs, NEW c \in Cores, Seen(v, c)' PROVE ~Ripe(v, c)'
  <2>1. combine = {}
    BY <1>1, <1>8, NoneCombined DEF NoCombining
  <2>2. t'.i <= 3 => LastOf(last', last_run')[CoreOrder[t'.i]] = last'[CoreOrder[t'.i]]
    <3>1. t'.i \in 1..3 => CoreOrder[t'.i] \in Cores
      BY DEF CoreOrder, Cores
    <3> QED
      BY <1>5, <1>6, <2>1, <3>1 DEF LastOf
  <2>3. t'.pc = IF t'.i > 3 THEN "reap" ELSE IF last'[CoreOrder[t'.i]] = Null THEN "start" ELSE "after"
    BY <1>5, <1>6, <2>2
  <2>4. c \in core_sched'
    <3>1. c \in core_sched' \/ \E j \in 1..(1 - 1) : CoreOrder[j] = c
      BY <1>6, <1>8, <2>3, LoopSeen
    <3> QED
      BY <3>1
  <2> QED
    BY <2>4 DEF Ripe
<1> QED
  BY <1>6, <1>7, <1>8 DEF WakeInv, PassedOver

\* With one core offered at a time, an instance the search came by was not ready,
\* or its irq thread was late.
LEMMA MissedOK ==
    ASSUME Inv, combine = {}, NEW v \in Vdecs, NEW c \in Cores, Ripe(v, c),
           ~(/\ Offer(v, c) # {} /\ next_status[v] # "disconnected"
             /\ status[v] \in {"connected", "active"} /\ IrqBlocks(v, Offer(v, c))),
           ReadyToRun(v, Offer(v, c)) = {}
    PROVE  kind[v].stream /\ Looks(v, Offer(v, c)) /\ unread[v] = 0 /\ Offer(v, c) \cap InputCores # {}
<1>1. TypeOK /\ SchedOK /\ InstanceOK(v)
  BY DEF Inv
<1>2. Listed(v) /\ c \in core_mask[v] /\ c \notin core_sched /\ CouldRun(v, c)
      /\ next_status[v] # "disconnected" /\ status[v] \in {"connected", "active"}
  BY DEF Ripe
<1>3. sched_mask[v] \subseteq core_sched
  BY <1>1, <1>2 DEF SchedOK, Listed
<1>4. Offer(v, c) = {c}
  BY <1>2, <1>3 DEF Offer, ScheduleMask
<1>5. Looks(v, {c})
  BY <1>2, <1>4 DEF Looks
<1>6. CASE c = "hevcb"
  <2>1. backq[v] > 0
    BY <1>2, <1>6 DEF CouldRun
  <2> QED
    BY <1>4, <1>5, <1>6, <2>1 DEF ReadyToRun
<1>7. CASE c # "hevcb"
  <2>1. c \in InputCores /\ {c} \cap InputCores = {c}
    BY <1>7 DEF Cores, InputCores
  <2>2. RunReady(v) /\ IF kind[v].stream THEN unread[v] > 0 \/ ~need_more[v] ELSE unread[v] + consumed[v] > 0
    BY <1>2, <1>7 DEF CouldRun
  <2>3. Underrun(v)
    BY <1>4, <1>5, <1>7, <2>1, <2>2 DEF ReadyToRun
  <2>4. unread[v] \in Nat /\ consumed[v] \in Nat
    <3>1. unread[v] \in 0..MaxFrames /\ consumed[v] \in 0..1
      BY <1>1 DEF TypeOK
    <3> QED
      BY <3>1, BoundAssumption
  <2>5. kind[v].stream /\ unread[v] = 0
    BY <2>2, <2>3, <2>4 DEF Underrun
  <2> QED
    BY <1>4, <1>5, <2>1, <2>5
<1> QED
  BY <1>6, <1>7

\* One search: an instance is elected, or the ones it came by are not ripe, or the
\* thread noted that it must come back.
LEMMA SearchLeaves ==
    ASSUME Inv, NEW q \in Seq(Vdecs), NEW th \in ThreadStates, t.i \in 1..3, Search(q, th)
    PROVE  /\ UNCHANGED <<kind, core_mask, core_sched, status, next_status, out, backq, unread, consumed,
                          sem, cbs, sched_mask, u, list, last, combine>>
           /\ \A v \in Vdecs : need_more[v] => need_more'[v]
           /\ \/ t'.pc = "grant" /\ ~t'.worker
              \/ /\ t'.pc = th.pc /\ t'.i = th.i /\ t'.worker = th.worker /\ (th.run_flag => t'.run_flag)
                 /\ combine = {} => \/ t'.run_flag
                                    \/ \A v \in Range(q), c \in Cores : c = CoreOrder[t.i] => ~Ripe(v, c)'
<1> USE DEF statusVars, maskVars, schedVars, dataVars, drvVars, thrVars
<1>0. PICK c \in Cores : c = CoreOrder[t.i]
  <2>1. CoreOrder[t.i] \in Cores
    BY DEF CoreOrder, Cores
  <2> QED
    BY <2>1
<1> DEFINE ready == {k \in DOMAIN q : ReadyToRun(q[k], Offer(q[k], c)) # {}}
           hit == IF ready = {} THEN Len(q) + 1 ELSE CHOOSE k \in ready : \A l \in ready : k <= l
           seen == {q[k] : k \in {l \in DOMAIN q : l <= hit}}
           late(v) == /\ Offer(v, c) # {} /\ next_status[v] # "disconnected"
                      /\ status[v] \in {"connected", "active"}
                      /\ IrqBlocks(v, Offer(v, c))
           blocked == \E v \in seen : late(v)
           elected == [Thread0 EXCEPT !.pc = "grant", !.v = q[hit], !.m = ReadyToRun(q[hit], Offer(q[hit], c))]
           more(v) == v \in seen /\ kind[v].stream /\ Looks(v, Offer(v, c)) /\ unread[v] = 0
                        /\ Offer(v, c) \cap InputCores # {}
<1>1. /\ need_more' = [v \in Vdecs |-> need_more[v] \/ more(v)]
      /\ t' = IF ready = {} THEN [th EXCEPT !.run_flag = @ \/ blocked] ELSE elected
      /\ UNCHANGED <<kind, core_mask, core_sched, status, next_status, out, backq, unread, consumed,
                     sem, cbs, sched_mask, u, list, last, combine>>
  BY <1>0 DEF Search
<1>2. \A v \in Vdecs : need_more[v] => need_more'[v]
  <2> HIDE DEF more
  <2> QED
    BY <1>1
<1> HIDE DEF late
<1>3. CASE ready # {}
  <2> HIDE DEF ready, hit
  <2>1. t' = elected
    BY <1>1, <1>3
  <2>2. t'.pc = "grant" /\ ~t'.worker
    BY <2>1 DEF Thread0
  <2> QED
    BY <1>1, <1>2, <2>2
<1>4. CASE ready = {}
  <2>1. Range(q) \subseteq seen
    BY <1>4 DEF Range
  <2>2. \A v \in Range(q) : v \in Vdecs /\ ReadyToRun(v, Offer(v, c)) = {}
    <3>1. \A k \in DOMAIN q : ReadyToRun(q[k], Offer(q[k], c)) = {}
      <4> HIDE DEF hit, seen
      <4> QED
        BY <1>4 DEF ready
    <3>2. \A k \in DOMAIN q : q[k] \in Vdecs
      OBVIOUS
    <3> QED
      BY <3>1, <3>2 DEF Range
  <2> HIDE DEF ready, seen, hit
  <2>3. /\ t'.pc = th.pc /\ t'.i = th.i /\ t'.worker = th.worker /\ (th.run_flag => t'.run_flag)
        /\ blocked => t'.run_flag
    <3>1. (th.run_flag \/ blocked) \in BOOLEAN
      OBVIOUS
    <3>2. t' = [th EXCEPT !.run_flag = th.run_flag \/ blocked]
      BY <1>1, <1>4
    <3> HIDE DEF blocked
    <3> QED
      BY <3>1, <3>2 DEF ThreadStates
  <2>4. ASSUME combine = {}, ~blocked, NEW v \in Range(q) PROVE ~Ripe(v, c)'
    <3>1. v \in Vdecs /\ ~late(v) /\ ReadyToRun(v, Offer(v, c)) = {}
      BY <2>1, <2>2, <2>4
    <3>2. SUFFICES ASSUME Ripe(v, c)' PROVE FALSE
      OBVIOUS
    <3>3. Ripe(v, c)
      BY <1>1, <1>2, <3>1, <3>2, RipeSame
    <3>4. kind[v].stream /\ Looks(v, Offer(v, c)) /\ unread[v] = 0 /\ Offer(v, c) \cap InputCores # {}
      BY <2>4, <3>1, <3>3, MissedOK DEF late
    <3>5. need_more'[v]
      BY <1>1, <2>1, <3>1, <3>4
    <3>6. c # "hevcb"
      BY <2>4, <3>4 DEF Offer, InputCores
    <3>7. ~(unread'[v] > 0) /\ kind'[v].stream
      BY <1>1, <3>4
    <3> QED
      BY <3>2, <3>5, <3>6, <3>7 DEF Ripe, CouldRun
  <2> QED
    BY <1>0, <1>1, <1>2, <2>3, <2>4
<1> QED
  BY <1>3, <1>4

\* A search, if all that the pass has come by then it came by before, or the
\* search did, or it has no free core.
LEMMA SearchWakes ==
    ASSUME Inv, WakeInv, NEW q \in Seq(Vdecs), NEW th \in ThreadStates, t.i \in 1..3, Search(q, th),
           ~th.worker, th.run_flag = t.run_flag, th.pc \in {"after", "start", "reap"},
           ASSUME combine = {}, t'.pc = th.pc, t'.i = th.i, NEW v \in Vdecs, NEW c \in Cores,
                  Seen(v, c)', Listed(v)
           PROVE  Seen(v, c) \/ c \in core_sched \/ (c = CoreOrder[t.i] /\ v \in Range(q))
    PROVE  WakeInv'
<1>1. /\ UNCHANGED <<kind, core_mask, core_sched, status, next_status, out, backq, unread, consumed,
                     sem, cbs, sched_mask, u, list, last, combine>>
      /\ \A v \in Vdecs : need_more[v] => need_more'[v]
      /\ \/ t'.pc = "grant" /\ ~t'.worker
         \/ /\ t'.pc = th.pc /\ t'.i = th.i /\ t'.worker = th.worker /\ (th.run_flag => t'.run_flag)
            /\ combine = {} => \/ t'.run_flag
                               \/ \A v \in Range(q), c \in Cores : c = CoreOrder[t.i] => ~Ripe(v, c)'
  BY SearchLeaves
<1>2. t'.pc # "down" /\ ~t'.worker
  BY <1>1
<1>3. SUFFICES ASSUME NoCombining', Unwoken'
               PROVE  (\A v \in Vdecs : ~Doomed(v)') /\ (t'.run_flag \/ PassedOver')
  BY <1>2 DEF WakeInv
<1>4. NoCombining /\ Unwoken /\ combine = {}
  <2>1. NoCombining /\ Unwoken
    BY <1>1, <1>3 DEF NoCombining, Unwoken, ForcedOut
  <2> QED
    BY <2>1, NoneCombined
<1>5. (\A v \in Vdecs : ~Doomed(v)) /\ (t.run_flag \/ PassedOver)
  BY <1>4 DEF WakeInv
<1>6. \A v \in Vdecs : ~Doomed(v)'
  BY <1>1, <1>5 DEF Doomed, Listed
<1>7. CASE t'.pc = "grant"
  BY <1>6, <1>7 DEF PassedOver, Seen
<1>8. CASE t'.pc # "grant"
  <2>1. SUFFICES ASSUME ~t'.run_flag, NEW v \in Vdecs, NEW c \in Cores, Seen(v, c)', Ripe(v, c)' PROVE FALSE
    BY <1>6 DEF PassedOver
  <2>2. /\ t'.pc = th.pc /\ t'.i = th.i /\ ~t.run_flag
        /\ c = CoreOrder[t.i] => v \notin Range(q)
    BY <1>1, <1>4, <1>8, <2>1
  <2>3. Ripe(v, c) /\ Listed(v) /\ c \notin core_sched
    <3>1. Ripe(v, c)
      BY <1>1, <2>1, RipeSame
    <3> QED
      BY <3>1 DEF Ripe
  <2>4. Seen(v, c) \/ (c = CoreOrder[t.i] /\ v \in Range(q))
    BY <1>4, <2>1, <2>2, <2>3
  <2> QED
    BY <1>5, <2>1, <2>2, <2>3, <2>4 DEF PassedOver
<1> QED
  BY <1>7, <1>8

\* Members of a part of a list
LEMMA InPart ==
    ASSUME NEW l \in Seq(Vdecs), NEW a \in Nat, NEW b \in Nat, a >= 1, b <= Len(l), NEW p \in a..b
    PROVE  l[p] \in Range(SubSeq(l, a, b))
<1>1. Len(l) \in Nat
  OBVIOUS
<1>2. SubSeq(l, a, b) = [i \in 1..(1 + b - a) |-> l[i + a - 1]]
  OBVIOUS
<1>3. p - a + 1 \in 1..(1 + b - a) /\ (p - a + 1) + a - 1 = p
  OBVIOUS
<1> DEFINE q == SubSeq(l, a, b)
<1>4. p - a + 1 \in DOMAIN q /\ q[p - a + 1] = l[p]
  BY <1>2, <1>3
<1> HIDE DEF q
<1>5. l[p] \in Range(q)
  BY <1>4 DEF Range
<1> QED
  BY <1>5 DEF q

\* The first search comes by the instances behind the one that ran last.
LEMMA SearchAfterWakes ==
    ASSUME Inv, WakeInv, SearchAfter
    PROVE  WakeInv'
<1>1. TypeOK /\ PendingOK /\ PointersOK
  BY DEF Inv
<1>2. t.pc = "after" /\ t.i \in 1..3 /\ t \in ThreadStates /\ ~t.worker
  BY <1>1 DEF SearchAfter, PendingOK, TypeOK, WakeInv
<1> DEFINE l == LastVdec[CoreOrder[t.i]]
           q == IF l = Null THEN <<>> ELSE SubSeq(list, Pos(l) + 1, Len(list))
           th == [t EXCEPT !.pc = "start"]
<1>3. Search(q, th) /\ CoreOrder[t.i] \in Cores
  BY <1>2 DEF SearchAfter, CoreOrder, Cores
<1>4. th \in ThreadStates /\ th.pc = "start" /\ th.i = t.i /\ ~th.worker /\ th.run_flag = t.run_flag
  BY <1>2 DEF ThreadStates
<1>5. l # Null => Listed(l)
  BY <1>1, <1>3, LastOK
<1>6. list \in Seq(Vdecs) /\ Len(list) \in Nat
  BY <1>1 DEF TypeOK
<1>7. list' = list /\ last' = last
  BY <1>3 DEF Search, schedVars
<1>8. combine = {} => l = last[CoreOrder[t.i]]
  BY <1>3 DEF LastVdec, LastOf
<1> HIDE DEF l, th
<1>9. q \in Seq(Vdecs)
  <2>1. CASE l = Null
    BY <2>1
  <2>2. CASE l # Null
    <3>1. Pos(l) \in 1..Len(list)
      BY <1>1, <1>5, <2>2, PosOK
    <3>2. Pos(l) + 1 \in Nat /\ Pos(l) + 1 >= 1 /\ Len(list) <= Len(list)
      BY <1>6, <3>1
    <3> QED
      BY <1>6, <2>2, <3>2, PartOfList
  <2> QED
    BY <2>1, <2>2
<1>10. l # Null => Range(q) = Behind(l)
  BY DEF Behind
<1> HIDE DEF q
<1>11. ASSUME combine = {}, t'.pc = th.pc, t'.i = th.i, NEW v \in Vdecs, NEW c \in Cores,
              Seen(v, c)', Listed(v)
       PROVE  Seen(v, c) \/ c \in core_sched \/ (c = CoreOrder[t.i] /\ v \in Range(q))
  <2>1. t'.pc = "start" /\ t'.i = t.i
    BY <1>4, <1>11
  <2>2. CASE \E k \in 1..(t.i - 1) : CoreOrder[k] = c
    BY <1>2, <2>2 DEF Seen
  <2>3. CASE ~\E k \in 1..(t.i - 1) : CoreOrder[k] = c
    <3>1. c = CoreOrder[t.i] /\ last'[c] # Null /\ v \in Behind(last[c])'
      BY <1>11, <2>1, <2>3 DEF Seen
    <3>2. Behind(last[c])' = Behind(last[c])
      BY <1>7 DEF Behind, Pos
    <3> QED
      BY <1>7, <1>8, <1>10, <1>11, <3>1, <3>2
  <2> QED
    BY <2>2, <2>3
<1> QED
  BY <1>2, <1>3, <1>4, <1>9, <1>11, SearchWakes

\* The second search comes by the others.
LEMMA SearchStartWakes ==
    ASSUME Inv, WakeInv, SearchStart
    PROVE  WakeInv'
<1>1. TypeOK /\ PendingOK /\ PointersOK
  BY DEF Inv
<1>2. t.pc = "start" /\ t.i \in 1..3 /\ t \in ThreadStates /\ ~t.worker
  BY <1>1 DEF SearchStart, PendingOK, TypeOK, WakeInv
<1> DEFINE l == LastVdec[CoreOrder[t.i]]
           q == IF l = Null THEN list ELSE SubSeq(list, 1, Pos(l))
           k == t.i + 1
           i == FreeFrom(k, core_sched)
           th == AtCore(t, i, LastVdec)
<1>3. Search(q, th) /\ CoreOrder[t.i] \in Cores
  BY <1>2 DEF SearchStart, CoreOrder, Cores
<1>4. k \in 1..4 /\ i \in 1..4
  <2>1. k \in 1..4
    BY <1>2
  <2> HIDE DEF k
  <2> QED
    BY <2>1, FreeFromOK
<1>5. LoopAt(th, t, i, LastVdec)
  <2> HIDE DEF i
  <2> QED
    BY <1>2, <1>4, AtCoreIs
<1> HIDE DEF th
<1>6. th \in ThreadStates /\ th.pc \in {"after", "start", "reap"} /\ ~th.worker /\ th.run_flag = t.run_flag
  BY <1>2, <1>5 DEF LoopAt
<1>7. l # Null => Listed(l)
  BY <1>1, <1>3, LastOK
<1>8. list \in Seq(Vdecs) /\ Len(list) \in Nat
  BY <1>1 DEF TypeOK
<1>9. list' = list /\ last' = last
  BY <1>3 DEF Search, schedVars
<1>10. combine = {} => \A c \in Cores : LastVdec[c] = last[c]
  BY DEF LastVdec, LastOf
<1> HIDE DEF l
<1>11. l # Null => Pos(l) \in 1..Len(list)
  BY <1>1, <1>7, PosOK
<1>12. q \in Seq(Vdecs)
  <2>1. CASE l = Null
    BY <1>8, <2>1
  <2>2. CASE l # Null
    <3>1. Pos(l) \in Nat /\ Pos(l) <= Len(list)
      BY <1>8, <1>11, <2>2
    <3> QED
      BY <1>8, <2>2, <3>1, PartOfList
  <2> QED
    BY <2>1, <2>2
<1>13. ASSUME NEW v, Listed(v) PROVE v \in Range(q) \/ (l # Null /\ v \in Behind(l))
  <2>1. CASE l = Null
    BY <1>13, <2>1 DEF Listed
  <2>2. CASE l # Null
    <3>1. PICK p \in 1..Len(list) : list[p] = v
      BY <1>8, <1>13 DEF Listed, Range
    <3>2. CASE p <= Pos(l)
      BY <1>8, <1>11, <2>2, <3>1, <3>2, InPart
    <3>3. CASE p > Pos(l)
      <4>1. Pos(l) + 1 \in 1..p
        BY <1>11, <2>2, <3>1, <3>3
      <4> QED
        BY <1>8, <2>2, <3>1, <4>1, InPart DEF Behind
    <3> QED
      BY <1>11, <2>2, <3>1, <3>2, <3>3
  <2> QED
    BY <2>1, <2>2
<1> HIDE DEF q
<1>14. ASSUME combine = {}, t'.pc = th.pc, t'.i = th.i, NEW v \in Vdecs, NEW c \in Cores,
              Seen(v, c)', Listed(v)
       PROVE  Seen(v, c) \/ c \in core_sched \/ (c = CoreOrder[t.i] /\ v \in Range(q))
  <2>1. t'.i = FreeFrom(k, core_sched)
        /\ t'.pc = IF t'.i > 3 THEN "reap" ELSE IF last'[CoreOrder[t'.i]] = Null THEN "start" ELSE "after"
    <3>1. t'.i = i /\ t'.pc = IF i > 3 THEN "reap" ELSE IF LastVdec[CoreOrder[i]] = Null THEN "start" ELSE "after"
      BY <1>5, <1>14 DEF LoopAt
    <3>2. ~(i > 3) => CoreOrder[i] \in Cores
      BY <1>4 DEF CoreOrder, Cores
    <3> HIDE DEF i
    <3>3. t'.pc = IF t'.i > 3 THEN "reap" ELSE IF last'[CoreOrder[t'.i]] = Null THEN "start" ELSE "after"
      BY <1>9, <1>10, <1>14, <3>1, <3>2
    <3> QED
      BY <3>1, <3>3 DEF i
  <2>2. c \in core_sched \/ \E j \in 1..(k - 1) : CoreOrder[j] = c
    <3> HIDE DEF k
    <3> QED
      BY <1>4, <1>14, <2>1, LoopSeen
  <2>3. CASE \E j \in 1..(t.i - 1) : CoreOrder[j] = c
    BY <1>2, <2>3 DEF Seen
  <2>4. CASE c = CoreOrder[t.i]
    <3>1. l # Null => l = last[c]
      BY <1>3, <1>10, <1>14, <2>4 DEF l
    <3> QED
      BY <1>2, <1>13, <1>14, <2>4, <3>1 DEF Seen
  <2>5. (\E j \in 1..(k - 1) : CoreOrder[j] = c) => \/ c = CoreOrder[t.i]
                                                    \/ \E j \in 1..(t.i - 1) : CoreOrder[j] = c
    BY <1>2
  <2> QED
    BY <2>2, <2>3, <2>4, <2>5
<1> HIDE DEF i
<1> QED
  BY <1>2, <1>3, <1>6, <1>12, <1>14, SearchWakes

\* The other sections of the thread: a run wakes it, and it goes to sleep after a
\* pass that found nothing only if nothing was doomed or ripe.
LEMMA ThreadWakes ==
    ASSUME Inv, WakeInv, Thread
    PROVE  WakeInv'
<1> USE DEF statusVars, maskVars, schedVars, dataVars, drvVars, thrVars
<1>1. /\ status \in [Vdecs -> {"disconnected", "connected", "active"}] /\ t \in ThreadStates
      /\ sched_mask \in [Vdecs -> SUBSET Cores] /\ PendingOK
  BY DEF Inv, TypeOK
<1>2. CASE Grant
  <2>1. /\ t.pc = "grant" /\ t' = [t EXCEPT !.pc = "run"] /\ status' = [status EXCEPT ![t.v] = "active"]
        /\ sched_mask' = [sched_mask EXCEPT ![t.v] = @ \cup t.m]
        /\ UNCHANGED <<kind, list, next_status, sem, cbs, u>>
    BY <1>2 DEF Grant
  <2>2. t'.pc = "run" /\ ~t'.worker /\ t'.run_flag = t.run_flag
    BY <1>1, <2>1 DEF ThreadStates, WakeInv
  <2>3. u[t.v] # "gone" /\ t.v \in Vdecs
    BY <1>1, <2>1 DEF PendingOK
  <2>4. Unwoken' => Unwoken
    BY <1>1, <2>1, <2>3 DEF Unwoken, ForcedOut
  <2>5. \A v \in Vdecs : Doomed(v)' => Doomed(v)
    BY <1>1, <2>1 DEF Doomed, Listed
  <2>6. NoCombining' => NoCombining
    BY <2>1 DEF NoCombining
  <2>7. PassedOver'
    BY <2>2 DEF PassedOver, Seen
  <2> QED
    BY <2>2, <2>4, <2>5, <2>6, <2>7 DEF WakeInv
<1>3. CASE Run
  <2>1. t'.pc = "reap"
    BY <1>3 DEF Run, Thread0
  <2>2. NoCombining' => sem' # 0
    <3>1. SUFFICES ASSUME NoCombining' PROVE sem' # 0
      OBVIOUS
    <3>2. combine = {}
      BY <1>3, <3>1, NoneCombined DEF Run, NoCombining
    <3> QED
      BY <1>3, <3>2, BoundAssumption DEF Run, Up, Inv, TypeOK
  <2> QED
    BY <2>1, <2>2 DEF WakeInv, Unwoken
<1>4. ASSUME NEW v \in Vdecs, Reap(v) PROVE WakeInv'
  <2>1. /\ status' = [status EXCEPT ![v] = "disconnected"]
        /\ UNCHANGED <<kind, t, list, last, core_mask, core_sched, next_status, out, backq, unread,
                       consumed, need_more, sem, cbs, sched_mask, u>>
    BY <1>4 DEF Reap
  <2>2. Unwoken' <=> Unwoken
    BY <2>1, UnwokenSame
  <2>3. ASSUME NEW w \in Vdecs, NEW c \in Cores
        PROVE  (Doomed(w)' => Doomed(w)) /\ (Ripe(w, c)' => Ripe(w, c))
    <3>1. CASE w = v
      BY <1>1, <2>1, <3>1 DEF Doomed, Ripe
    <3>2. CASE w # v
      BY <1>1, <2>1, <3>2, RipeSame
    <3> QED
      BY <3>1, <3>2
  <2> QED
    BY <2>1, <2>2, <2>3, QuietOK DEF Cores
<1>5. CASE EndPass
  <2>1. /\ t.pc = "reap" /\ t' = Thread0
        /\ sem' = LET s1 == IF ~t.worker /\ Polls THEN Up(sem) ELSE sem
                  IN  IF ~t.worker /\ t.run_flag THEN Up(s1) ELSE s1
        /\ UNCHANGED <<kind, core_mask, core_sched, status, next_status, out, backq, unread, consumed,
                       need_more, cbs, sched_mask, u, list, last>>
    BY <1>5 DEF EndPass
  <2>2. t'.pc = "down" /\ ~t'.run_flag /\ ~t'.worker
    BY <2>1 DEF Thread0
  <2>3. SUFFICES ASSUME NoCombining', Unwoken'
                 PROVE  (\A v \in Vdecs : ~Doomed(v)') /\ PassedOver'
    BY <2>2 DEF WakeInv
  <2>4. sem = 0 /\ (t.worker \/ ~t.run_flag)
    <3>1. sem \in Nat /\ SemMax \in Nat \ {0} /\ sem' = 0
      BY <2>3, BoundAssumption DEF Inv, TypeOK, Unwoken
    <3>2. \A s \in Nat : Up(s) # 0 /\ Up(s) \in Nat
      BY <3>1 DEF Up
    <3> DEFINE s1 == IF ~t.worker /\ Polls THEN Up(sem) ELSE sem
    <3>3. s1 \in Nat /\ (s1 = 0 => sem = 0)
      BY <3>1, <3>2
    <3>4. sem' = IF ~t.worker /\ t.run_flag THEN Up(s1) ELSE s1
      BY <2>1
    <3> HIDE DEF s1
    <3> QED
      BY <3>1, <3>2, <3>3, <3>4
  <2>5. NoCombining /\ Unwoken
    BY <2>1, <2>3, <2>4 DEF NoCombining, Unwoken, ForcedOut
  <2>6. (\A v \in Vdecs : ~Doomed(v)) /\ PassedOver
    BY <2>1, <2>4, <2>5 DEF WakeInv
  <2>7. \A v \in Vdecs : ~Doomed(v)'
    BY <2>1, <2>6 DEF Doomed, Listed
  <2>8. \A v \in Vdecs, c \in Cores : ~Ripe(v, c)'
    BY <2>1, <2>6, RipeSame DEF PassedOver, Seen
  <2> QED
    BY <2>7, <2>8 DEF PassedOver
<1> QED
  BY <1>2, <1>3, <1>4, <1>5, PassWakes, SearchAfterWakes, SearchStartWakes DEF Thread

\* Every step preserves what is known of the wake-ups.
LEMMA WakeNext ==
    ASSUME Inv, WakeInv, [Next]_vars
    PROVE  WakeInv'
<1>1. ASSUME UNCHANGED vars PROVE WakeInv'
  <2>1. UNCHANGED <<kind, t, list, last, core_mask, core_sched, status, next_status, out, backq, unread,
                    consumed, need_more, sem, cbs, sched_mask, u>>
    BY <1>1 DEF vars, statusVars, maskVars, schedVars, dataVars, drvVars, thrVars
  <2>2. Unwoken' <=> Unwoken
    BY <2>1, UnwokenSame
  <2> QED
    BY <2>1, <2>2, RipeSame, QuietOK
<1> QED
  BY <1>1, UserWakes, DriverWakes, ThreadWakes DEF Next

\* Initially the thread sleeps and there is nobody.
LEMMA WakeInit == Init => WakeInv
<1> SUFFICES ASSUME Init PROVE WakeInv
  OBVIOUS
<1>1. \A v : ~Listed(v)
  BY DEF Init, Listed, Range
<1>2. t.pc = "down" /\ ~t.run_flag /\ ~t.worker
  BY DEF Init, Thread0
<1> QED
  BY <1>1, <1>2 DEF WakeInv, Doomed, PassedOver, Ripe

\* An instance that is ready for a core is ripe for it.
LEMMA ReadyIsRipe ==
    ASSUME Inv, combine = {}, NEW v \in Vdecs, Listed(v), NEW c \in Cores, ReadyToRun(v, Offer(v, c)) # {}
    PROVE  Ripe(v, c)
<1> DEFINE m == ReadyToRun(v, Offer(v, c))
<1>1. Looks(v, Offer(v, c))
  BY DEF ReadyToRun
<1>2. m \subseteq {c}
  BY DEF ReadyToRun, Offer
<1>3. /\ m \subseteq core_mask[v] /\ m \cap core_sched = {}
      /\ \/ m = {"hevcb"} /\ backq[v] > 0
         \/ m # {"hevcb"} /\ unread[v] > 0 /\ out[v] + backq[v] < kind[v].bufs
  BY ReadyOK
<1>4. unread[v] + consumed[v] > 0 <=> unread[v] > 0 \/ consumed[v] > 0
  <2>1. unread[v] \in 0..MaxFrames /\ consumed[v] \in 0..1
    BY DEF Inv, TypeOK
  <2> QED
    BY <2>1, BoundAssumption
<1> HIDE DEF m
<1>5. m = {c} /\ c \in core_mask[v] /\ c \notin core_sched
  BY <1>2, <1>3 DEF m
<1>6. CouldRun(v, c)
  BY <1>3, <1>4, <1>5 DEF CouldRun, RunReady
<1> QED
  BY <1>1, <1>5, <1>6 DEF Ripe, Looks

(* No wake-up is lost (vdec_core_thread's down on core->sem): the thread   *)
(* sleeps on a semaphore at zero only when no instance could be given a    *)
(* core and none waits to be disconnected, or a run is under way, or an    *)
(* instance was released whose run never ended; wherever no instance       *)
(* combines cores.  Where one does, vdec_release may end the combination   *)
(* (vdec.c:4611) and wake nobody.                                          *)
THEOREM WakesAreNotLost ==
    ASSUME TimeoutWhenHung
    PROVE  Spec => [](NoCombining => WokenUnlessForced)
<1>1. Inv /\ WakeInv /\ [Next]_vars => WakeInv'
  BY WakeNext
<1>2. Inv /\ WakeInv => (NoCombining => WokenUnlessForced)
  <2> SUFFICES ASSUME Inv, WakeInv, NoCombining, \A v \in Vdecs : ~ForcedOut(v),
                      t.pc = "down", sem = 0, \A w \in Vdecs : cbs[w] = {}
               PROVE  \A v \in Range(list) :
                          /\ \A c \in Cores \ core_sched : ReadyToRun(v, Offer(v, c)) = {}
                          /\ ~(status[v] = "connected" /\ next_status[v] = "disconnected")
    BY DEF WokenUnlessForced, NoLostWakeup
  <2>1. combine = {}
    BY NoneCombined
  <2>2. Unwoken /\ ~t.run_flag
    BY DEF Unwoken, WakeInv
  <2>3. (\A v \in Vdecs : ~Doomed(v)) /\ \A v \in Vdecs, c \in Cores : ~Ripe(v, c)
    BY <2>2 DEF WakeInv, PassedOver, Seen
  <2>4. Range(list) \subseteq Vdecs
    BY DEF Inv, TypeOK, Range
  <2> QED
    BY <2>1, <2>3, <2>4, ReadyIsRipe DEF Doomed, Listed
<1> QED
  BY <1>1, <1>2, WakeInit, Invariance, PTL DEF Spec

=============================================================================
