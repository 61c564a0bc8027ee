------------------------------ MODULE VdecCore ------------------------------
(***************************************************************************)
(* The scheduler of the decoder cores (frame_provider/decoder/utils/vdec.c)*)
(* with parallel_decode = 1, its default: vdec_core_thread elects decoder  *)
(* instances for the hardware cores, drivers run and finish them from      *)
(* interrupts and work items, users connect, reset and release instances.  *)
(*                                                                         *)
(* A section under vdec_mutex is one action; between two of them the other *)
(* threads move.  A driver run is one frame: it reads the input's first    *)
(* unread chunk and makes one picture.  Left out: dual-layer instances     *)
(* (slave, master), the debug modes (step_mode, the CRC block) and clocks. *)
(***************************************************************************)
EXTENDS Integers, Sequences, FiniteSets, Functions, Lists

CONSTANTS
    Vdecs,          \* the instances
    Null,           \* the null pointer
    Setups,         \* functions from Vdecs to KindRecords
    MaxFrames,      \* bound on the unread frames of an input
    SemMax,         \* the semaphore's count saturates here
    TimeoutWhenHung \* do the 2 s waits end only on instances that hang?

(* An instance: its driver ("none": it was released long ago), whether it  *)
(* is fed from a stream buffer, how many output buffers it has, whether    *)
(* users reset and release it (a bound), and whether its hardware may hang.*)
Drivers == {"none", "hevc", "h264", "fb"}
KindRecords == [drv : Drivers, stream : BOOLEAN, bufs : Nat, closes : BOOLEAN, hangs : BOOLEAN]

ASSUME InstanceAssumption == Setups \subseteq [Vdecs -> KindRecords] /\ Null \notin Vdecs
ASSUME BoundAssumption ==
    /\ MaxFrames \in Nat \ {0} /\ SemMax \in Nat \ {0} /\ TimeoutWhenHung \in BOOLEAN

(* The used cores (cores_used), in the order vdec_core_thread scans them,  *)
(* and those with an input side (cores_with_input).                        *)
CoreOrder == <<"hevcb", "hevc", "vdec1">>
Cores == {"hevcb", "hevc", "vdec1"}
InputCores == {"hevc", "vdec1"}
Sides == {"front", "back"}

VARIABLES
    (* struct vdec_s *)
    kind,           \* its driver and what may happen to it
    status, next_status,
    core_mask,      \* without CORE_MASK_COMBINE
    active_mask, sched_mask,
    done,           \* the completion inactive_done
    irqpend,        \* sides with irq_cnt > irq_thread_cnt
    need_more,      \* VDEC_NEED_MORE_DATA
    unread, consumed, \* chunks of the input, by VFRAME_CHUNK_FLAG_CONSUMED
    backq,          \* pictures that wait for the back core
    out,            \* pictures not yet given back by the display
    job,            \* per side: where the driver's run is, on which cores
    cbs,            \* sides whose work item still has to call vdec_callback
    (* struct vdec_core_s *)
    list,           \* connected_vdec_list
    core_sched,     \* core->sched_mask
    combine,        \* the instances vdec_combine_flag counts
    last, last_run, \* last_vdec, last_hevc, last_hevc_back; last_run_vdec
    act,            \* active_vdec, active_hevc, active_hevc_back
    sem,            \* core->sem
    (* threads *)
    t,              \* vdec_core_thread
    disc,           \* its disconnecting_list
    u               \* the user's thread, per instance

statusVars == <<status, next_status, done>>
maskVars == <<core_mask, combine>>
schedVars == <<active_mask, sched_mask, core_sched, last, last_run, act>>
dataVars == <<unread, consumed, backq, out, need_more>>
drvVars == <<job, irqpend, cbs>>
thrVars == <<t, disc>>
vars == <<kind, statusVars, maskVars, schedVars, dataVars, drvVars, thrVars, list, sem, u>>

NoJob == [st |-> "none", cores |-> {}]
Thread0 == [pc |-> "down", i |-> 1, v |-> Null, m |-> {}, worker |-> FALSE,
            run_flag |-> FALSE, stream |-> {}, comb |-> FALSE]

Init ==
    /\ kind \in Setups
    /\ status = [v \in Vdecs |-> "disconnected"]
    /\ next_status = [v \in Vdecs |-> "disconnected"]
    /\ core_mask = [v \in Vdecs |-> {}]
    /\ active_mask = [v \in Vdecs |-> {}] /\ sched_mask = [v \in Vdecs |-> {}]
    /\ done = [v \in Vdecs |-> FALSE] /\ irqpend = [v \in Vdecs |-> {}]
    /\ need_more = [v \in Vdecs |-> FALSE]
    /\ unread = [v \in Vdecs |-> 0] /\ consumed = [v \in Vdecs |-> 0]
    /\ backq = [v \in Vdecs |-> 0] /\ out = [v \in Vdecs |-> 0]
    /\ job = [v \in Vdecs |-> [s \in Sides |-> NoJob]] /\ cbs = [v \in Vdecs |-> {}]
    /\ list = <<>> /\ core_sched = {} /\ combine = {}
    /\ last = [c \in Cores |-> Null] /\ last_run = Null /\ act = [c \in Cores |-> Null]
    /\ sem = 0 /\ t = Thread0 /\ disc = {}
    /\ u = [v \in Vdecs |-> IF kind[v].drv = "none" THEN "gone" ELSE "new"]

-----------------------------------------------------------------------------
(* Helpers. *)

\* up(&core->sem)
Up(s) == IF s < SemMax THEN s + 1 ELSE s

\* vdec_core_request of the drivers' probe
Requested(k) == CASE k = "hevc" -> {"hevc"}
                  [] k = "fb"   -> {"hevc", "hevcb"}
                  [] OTHER      -> {"vdec1"}

\* core->power_ref_mask: the cores some instance asked for
PowerRef == UNION Range(core_mask)

Listed(v) == v \in Range(list)
Running(j) == j.st \in {"run", "hung"}

\* The pointer p, cleared if it is to one of S
Forget(p, S) == IF p \in S THEN Null ELSE p

-----------------------------------------------------------------------------
(* Users. *)

\* What vdec_connect does
Connected(v) ==
    IF status[v] # "disconnected"
    THEN UNCHANGED <<statusVars, list, sem>>
    ELSE /\ status' = [status EXCEPT ![v] = "connected"]
         /\ next_status' = [next_status EXCEPT ![v] = "connected"]
         /\ done' = [done EXCEPT ![v] = FALSE]
         /\ list' = Append(list, v)
         /\ sem' = Up(sem)

\* vdec_init, that is the driver's probe (vdec_core_request), then vdec_connect
Open(v) ==
    /\ u[v] = "new"
    /\ u' = [u EXCEPT ![v] = "idle"]
    /\ core_mask' = [core_mask EXCEPT ![v] = Requested(kind[v].drv)]
    /\ Connected(v)
    /\ UNCHANGED <<kind, combine, schedVars, dataVars, drvVars, thrVars>>

\* vdec_disconnect up to its wait, called from vdec_reset or vdec_release
Disconnect(v, why) ==
    /\ u[v] = "idle" /\ kind[v].closes
    /\ IF status[v] \in {"connected", "active"}
       THEN /\ u' = [u EXCEPT ![v] = IF why = "reset" THEN "wait_reset" ELSE "wait_release"]
            /\ next_status' = [next_status EXCEPT ![v] = "disconnected"]
            /\ sem' = Up(sem)
       ELSE /\ u' = [u EXCEPT ![v] = why]
            /\ UNCHANGED <<next_status, sem>>
    /\ UNCHANGED <<kind, status, done, maskVars, schedVars, dataVars, drvVars, thrVars, list>>

Waiting(v) == u[v] \in {"wait_reset", "wait_release"}
Proceed(v) == u' = [u EXCEPT ![v] = IF @ = "wait_reset" THEN "reset" ELSE "release"]

\* wait_for_completion_timeout returns in time
DisconnectDone(v) ==
    /\ Waiting(v) /\ done[v]
    /\ Proceed(v)
    /\ done' = [done EXCEPT ![v] = FALSE]
    /\ UNCHANGED <<kind, status, next_status, maskVars, schedVars, dataVars, drvVars, thrVars, list, sem>>

\* No thread is going to finish the instance's run
Dead(v) == /\ active_mask[v] # {} /\ t.v # v
           /\ \A s \in Sides : job[v][s].st \in {"none", "hung"}

\* The cores discon_timeout stops: both HEVC cores for a front/back instance
StoppedBy(v) == IF "hevcb" \in core_mask[v] THEN {"hevc", "hevcb"}
                ELSE core_mask[v] \cap IF kind[v].drv = "hevc" THEN {"hevc"} ELSE {"vdec1"}

\* A run whose hardware was stopped or reset under it never ends by itself
Stop(S) == job' = [w \in Vdecs |-> [s \in Sides |->
              IF job[w][s].st = "run" /\ job[w][s].cores \cap S # {}
              THEN [job[w][s] EXCEPT !.st = "hung"] ELSE job[w][s]]]

\* vdec_disconnect: discon_timeout
DisconnectTimeout(v) ==
    /\ Waiting(v) /\ ~done[v]
    /\ TimeoutWhenHung => Dead(v)
    /\ Proceed(v)
    /\ IF status[v] = "active" THEN Stop(StoppedBy(v)) ELSE UNCHANGED job
    /\ UNCHANGED <<kind, statusVars, maskVars, schedVars, dataVars, irqpend, cbs, thrVars, list, sem>>

\* The driver's work items were cancelled or have ended
Joined(v) == cbs[v] = {}

\* vdec_reset after vdec_disconnect: the driver's reset, a new input, vdec_connect
Reset(v) ==
    /\ u[v] = "reset" /\ Joined(v)
    /\ u' = [u EXCEPT ![v] = "idle"]
    /\ job' = [job EXCEPT ![v] = [s \in Sides |-> NoJob]]
    /\ unread' = [unread EXCEPT ![v] = 0] /\ consumed' = [consumed EXCEPT ![v] = 0]
    /\ backq' = [backq EXCEPT ![v] = 0] /\ out' = [out EXCEPT ![v] = 0]
    /\ Connected(v)
    /\ UNCHANGED <<kind, maskVars, schedVars, need_more, irqpend, cbs, thrVars>>

\* vdec_release: the wait for the irq thread, vdec_inactive_core_reset
InactiveCoreReset(v) ==
    /\ u[v] = "release"
    /\ TimeoutWhenHung => irqpend[v] = {}
    /\ u' = [u EXCEPT ![v] = "unregister"]
    /\ Stop(core_mask[v] \ core_sched)
    /\ UNCHANGED <<kind, statusVars, maskVars, schedVars, dataVars, irqpend, cbs, thrVars, list, sem>>

\* vdec_release: platform_device_unregister, that is the driver's remove
Unregister(v) ==
    /\ u[v] = "unregister"
    /\ Joined(v) /\ \A s \in Sides : job[v][s].st \notin {"work", "work2"}
    /\ u' = [u EXCEPT ![v] = "removed"]
    /\ job' = [job EXCEPT ![v] = [s \in Sides |-> NoJob]]
    /\ core_mask' = [core_mask EXCEPT ![v] = {}] /\ combine' = combine \ {v}
    /\ status' = [status EXCEPT ![v] = "disconnected"]
    /\ UNCHANGED <<kind, next_status, done, schedVars, dataVars, irqpend, cbs, thrVars, list, sem>>

\* Fault: the election pointers are not cleared
ForceClear_KeepLast(v) ==
    /\ u[v] = "removed"
    /\ u' = [u EXCEPT ![v] = "gone"]
    /\ IF Listed(v)
       THEN /\ core_sched' = core_sched \ sched_mask[v]
            /\ list' = Without(list, {v})
       ELSE UNCHANGED <<core_sched, list>>
    /\ UNCHANGED <<kind, statusVars, maskVars, active_mask, sched_mask, last, last_run, act,
                   dataVars, drvVars, thrVars, sem>>

\* vdec_release: vdec_connect_list_force_clear, then vdec_destroy frees the instance
ForceClear(v) ==
    /\ u[v] = "removed"
    /\ u' = [u EXCEPT ![v] = "gone"]
    /\ IF Listed(v) /\ status[v] = "disconnected"
       THEN /\ core_sched' = core_sched \ sched_mask[v]
            /\ act' = [c \in Cores |-> Forget(act[c], {v})]
            /\ last' = [c \in Cores |-> Forget(last[c], {v})]
            /\ last_run' = Forget(last_run, {v})
            /\ list' = Without(list, {v})
       ELSE UNCHANGED <<core_sched, act, last, last_run, list>>
    /\ UNCHANGED <<kind, statusVars, maskVars, active_mask, sched_mask, dataVars, drvVars, thrVars, sem>>

\* A frame or stream data arrives: vdec_input_add_chunk, stream_buffer's write
Write(v) ==
    /\ u[v] = "idle" /\ unread[v] < MaxFrames
    /\ unread' = [unread EXCEPT ![v] = @ + 1]
    /\ sem' = IF IF kind[v].stream THEN need_more[v] ELSE unread[v] + consumed[v] = 0
              THEN Up(sem) ELSE sem
    /\ need_more' = [need_more EXCEPT ![v] = FALSE]
    /\ UNCHANGED <<kind, statusVars, maskVars, schedVars, consumed, backq, out, drvVars, thrVars, list, u>>

\* The display gives a picture back: the driver's vf_put
Put(v) ==
    /\ u[v] = "idle" /\ out[v] > 0
    /\ out' = [out EXCEPT ![v] = @ - 1]
    /\ sem' = Up(sem)
    /\ UNCHANGED <<kind, statusVars, maskVars, schedVars, unread, consumed, backq, need_more,
                   drvVars, thrVars, list, u>>

-----------------------------------------------------------------------------
(* Drivers. *)

SetJob(v, s, st) == job' = [job EXCEPT ![v][s].st = st]

\* vdec_isr and the driver's handler in vdec_thread_isr, which queues the work
\* item; the line is IRQF_ONESHOT, closed until the thread has returned
Isr(v, s) ==
    /\ job[v][s].st = "run" /\ s \notin irqpend[v]
    /\ SetJob(v, s, "work")
    /\ irqpend' = [irqpend EXCEPT ![v] = @ \cup {s}]
    /\ UNCHANGED <<kind, statusVars, maskVars, schedVars, dataVars, cbs, thrVars, list, sem, u>>

\* vdec_thread_isr: irq_thread_cnt is increased
IrqThreadDone(v, s) ==
    /\ s \in irqpend[v]
    /\ irqpend' = [irqpend EXCEPT ![v] = @ \ {s}]
    /\ UNCHANGED <<kind, statusVars, maskVars, schedVars, dataVars, job, cbs, thrVars, list, sem, u>>

\* The hardware hangs (on its front core)
Hang(v, s) ==
    /\ kind[v].hangs /\ s = "front" /\ job[v][s].st = "run"
    /\ SetJob(v, s, "hung")
    /\ UNCHANGED <<kind, statusVars, maskVars, schedVars, dataVars, irqpend, cbs, thrVars, list, sem, u>>

\* vdec_core_finish_run
FinishRun(v, m) ==
    /\ active_mask' = [active_mask EXCEPT ![v] = @ \ m]
    /\ status' = [status EXCEPT ![v] = IF active_mask'[v] = {} THEN "connected" ELSE @]

\* set_mmu_config: an H.264 stream wants the HEVC cores too, all together
SetMmu(v) ==
    /\ kind[v].drv = "h264" /\ job[v]["front"].st = "work" /\ "front" \notin cbs[v] /\ v \notin combine
    /\ SetJob(v, "front", "work2")
    /\ core_mask' = [core_mask EXCEPT ![v] = Cores] /\ combine' = combine \cup {v}
    /\ UNCHANGED <<kind, statusVars, schedVars, dataVars, irqpend, cbs, thrVars, list, sem, u>>

\* clear_mmu_config: back to VDEC_1 alone
ClearMmu(v) ==
    /\ kind[v].drv = "h264" /\ job[v]["front"].st = "work" /\ "front" \notin cbs[v] /\ v \in combine
    /\ SetJob(v, "front", "work2")
    /\ core_mask' = [core_mask EXCEPT ![v] = {"vdec1"}] /\ combine' = combine \ {v}
    /\ FinishRun(v, {"hevc", "hevcb"})
    /\ UNCHANGED <<kind, next_status, done, sched_mask, core_sched, last, last_run, act,
                   dataVars, irqpend, cbs, thrVars, list, sem, u>>

Finished(v, s) == /\ job' = [job EXCEPT ![v][s] = NoJob]
                  /\ cbs' = [cbs EXCEPT ![v] = @ \cup {s}]

\* The work item of a front or single core: the chunk is consumed, the run finished
Work(v) ==
    /\ job[v]["front"].st \in {"work", "work2"} /\ "front" \notin cbs[v]
    /\ Finished(v, "front")
    /\ unread' = [unread EXCEPT ![v] = @ - 1]
    /\ consumed' = [consumed EXCEPT ![v] = IF kind[v].stream THEN 0 ELSE @ + 1]
    /\ IF kind[v].drv = "fb" THEN backq' = [backq EXCEPT ![v] = @ + 1] /\ UNCHANGED out
                         ELSE out' = [out EXCEPT ![v] = @ + 1] /\ UNCHANGED backq
    /\ FinishRun(v, IF kind[v].drv = "fb" THEN {"hevc"} ELSE core_mask[v])
    /\ UNCHANGED <<kind, next_status, done, maskVars, sched_mask, core_sched, last, last_run, act,
                   need_more, irqpend, thrVars, list, sem, u>>

\* The work item of the back core
WorkBack(v) ==
    /\ job[v]["back"].st = "work" /\ "back" \notin cbs[v]
    /\ Finished(v, "back")
    /\ backq' = [backq EXCEPT ![v] = @ - 1] /\ out' = [out EXCEPT ![v] = @ + 1]
    /\ FinishRun(v, {"hevcb"})
    /\ UNCHANGED <<kind, next_status, done, maskVars, sched_mask, core_sched, last, last_run, act,
                   unread, consumed, need_more, irqpend, thrVars, list, sem, u>>

\* vdec_callback, the end of the work item
Callback(v, s) ==
    /\ s \in cbs[v]
    /\ cbs' = [cbs EXCEPT ![v] = @ \ {s}]
    /\ sem' = Up(sem)
    /\ UNCHANGED <<kind, statusVars, maskVars, schedVars, dataVars, job, irqpend, thrVars, list, u>>

-----------------------------------------------------------------------------
(* vdec_core_thread. *)

\* Cores instance v gave back since the last pass
Released(v) == sched_mask[v] \ active_mask[v]

\* vdec_schedule_mask
ScheduleMask(v) ==
    IF v \in combine
    THEN IF core_mask[v] \cap core_sched = {} THEN core_mask[v] ELSE {}
    ELSE IF combine # {} /\ core_sched # {} THEN {}
         ELSE core_mask[v] \ (sched_mask[v] \cup core_sched)

\* Fault: the irq threads are not waited for
IrqBlocks_Never(v, m) == FALSE

\* The part of vdec_ready_to_run that waits for the irq threads
IrqBlocks(v, m) ==
    CASE m \in {{"vdec1"}, {"hevc"}} -> "front" \in irqpend[v]
      [] m = {"hevcb"}               -> "back" \in irqpend[v]
      [] OTHER                       -> irqpend[v] = Sides

\* Fault: the input is not tested
Underrun_Untested(v) == FALSE

\* Its test of the input: no chunk in the list, no data in the stream buffer
Underrun(v) == IF kind[v].stream THEN unread[v] = 0 ELSE unread[v] + consumed[v] = 0

\* Fault: the output buffers are not counted
RunReady_Always(v) == TRUE

\* The driver's run_ready: there is a buffer for the picture
RunReady(v) == out[v] + backq[v] < kind[v].bufs

\* Is the input looked at by vdec_ready_to_run?
Looks(v, m) == /\ m # {} /\ next_status[v] # "disconnected" /\ status[v] \in {"connected", "active"}
               /\ ~IrqBlocks(v, m)

\* vdec_ready_to_run
ReadyToRun(v, m) ==
    LET back == IF "hevcb" \in m /\ v \notin combine /\ backq[v] > 0 THEN {"hevcb"} ELSE {}
        front == IF m \cap InputCores = {} \/ Underrun(v) \/ ~RunReady(v) THEN {}
                 ELSE IF v \in combine THEN m ELSE m \ {"hevcb"}
        ready == front \cup back
    IN  IF ~Looks(v, m) THEN {}
        ELSE IF v \notin combine /\ combine # {} /\ {"hevc", "hevcb"} \subseteq ready
             THEN {"hevcb"} ELSE ready

\* What the election on core c offers to v
Offer(v, c) == IF combine = {} THEN ScheduleMask(v) \cap {c} ELSE ScheduleMask(v)

\* Position of v in the list
Pos(v) == CHOOSE k \in DOMAIN list : list[k] = v

\* The core the loop comes to from index k: the next one that is not taken
FreeFrom(k, taken) ==
    CHOOSE i \in k..(Len(CoreOrder) + 1) :
        /\ i <= Len(CoreOrder) => CoreOrder[i] \notin taken
        /\ \A j \in k..(i - 1) : CoreOrder[j] \in taken

\* Where the loop is with index i: the search behind the instance that ran last
\* is left out when there is none; behind the last core there is no worker
AtCore(th, i, lastOf) ==
    [th EXCEPT !.i = i, !.pc = IF i > Len(CoreOrder) THEN "reap"
                               ELSE IF lastOf[CoreOrder[i]] = Null THEN "start" ELSE "after"]

\* The pointers the elections start from
LastOf(lasts, run) == [c \in Cores |-> IF combine # {} THEN run ELSE lasts[c]]
LastVdec == LastOf(last, last_run)

\* down(&core->sem) and the first section: clean up what was given back, note
\* the stream inputs, move the instances to disconnect out of the list
Pass ==
    LET In == Range(list)
        D == {v \in In : status[v] = "connected" /\ next_status[v] = "disconnected"}
        S == {v \in In : kind[v].stream}
    IN  /\ t.pc = "down" /\ sem > 0
        /\ sem' = sem - 1
        /\ consumed' = [v \in Vdecs |->
              IF v \in In /\ Released(v) \cap InputCores # {} THEN 0 ELSE consumed[v]]
        /\ sched_mask' = [v \in Vdecs |->
              IF v \in In THEN sched_mask[v] \ Released(v) ELSE sched_mask[v]]
        /\ core_sched' = core_sched \ UNION {Released(v) : v \in In}
        /\ act' = [c \in Cores |-> Forget(act[c], D)]
        /\ last' = [c \in Cores |-> Forget(last[c], D)] /\ last_run' = Forget(last_run, D)
        /\ list' = Without(list, D) /\ disc' = D
        /\ t' = AtCore([Thread0 EXCEPT !.stream = UNION {core_mask[v] : v \in S},
                                       !.comb = S \cap combine # {}],
                       FreeFrom(1, core_sched'), LastOf(last', last_run'))
        /\ UNCHANGED <<kind, statusVars, maskVars, active_mask, unread, backq, out, need_more,
                       drvVars, u>>

(* One search along the instances q, for the core the loop is at: t.v is   *)
(* the first that is ready, the ones before it leave their marks           *)
(* (run_flag, need_more_data).  Else the thread goes on at th.  What the   *)
(* end of the pass reads only without a worker is not kept with one.       *)
Search(q, th) ==
    LET c == CoreOrder[t.i]
        ready == {k \in DOMAIN q : ReadyToRun(q[k], Offer(q[k], c)) # {}}
        hit == IF ready = {} THEN Len(q) + 1 ELSE CHOOSE k \in ready : \A l \in ready : k <= l
        seen == {q[k] : k \in {l \in DOMAIN q : l <= hit}}
        blocked == \E v \in seen : /\ Offer(v, c) # {} /\ next_status[v] # "disconnected"
                                   /\ status[v] \in {"connected", "active"}
                                   /\ IrqBlocks(v, Offer(v, c))
        elected == [Thread0 EXCEPT !.pc = "grant", !.v = q[hit], !.m = ReadyToRun(q[hit], Offer(q[hit], c))]
    IN  /\ need_more' = [v \in Vdecs |-> need_more[v] \/
              (v \in seen /\ kind[v].stream /\ Looks(v, Offer(v, c)) /\ unread[v] = 0
                 /\ Offer(v, c) \cap InputCores # {})]
        /\ t' = IF ready = {} THEN [th EXCEPT !.run_flag = @ \/ blocked] ELSE elected
        /\ UNCHANGED <<kind, statusVars, maskVars, schedVars, unread, consumed, backq, out,
                       drvVars, disc, list, sem, u>>

\* Fault: the search starts at the head of the list
SearchAfter_FromHead == t.pc = "after" /\ Search(list, [t EXCEPT !.pc = "start"])

\* The first search: the instances behind the one that ran last
SearchAfter ==
    /\ t.pc = "after"
    /\ LET l == LastVdec[CoreOrder[t.i]]
       IN  Search(IF l = Null THEN <<>> ELSE SubSeq(list, Pos(l) + 1, Len(list)),
                  [t EXCEPT !.pc = "start"])

\* The second search: from the head of the list to the one that ran last
SearchStart ==
    /\ t.pc = "start"
    /\ LET l == LastVdec[CoreOrder[t.i]]
       IN  Search(IF l = Null THEN list ELSE SubSeq(list, 1, Pos(l)),
                  AtCore(t, FreeFrom(t.i + 1, core_sched), LastVdec))

\* The elected instance gets its cores (vdec_set_last_vdec)
Grant ==
    /\ t.pc = "grant"
    /\ active_mask' = [active_mask EXCEPT ![t.v] = @ \cup t.m]
    /\ sched_mask' = [sched_mask EXCEPT ![t.v] = @ \cup t.m]
    /\ core_sched' = core_sched \cup t.m
    /\ last' = [c \in Cores |-> IF c \in t.m THEN t.v ELSE last[c]]
    /\ last_run' = IF t.v \notin combine /\ combine # {} /\ "hevcb" \in t.m THEN last_run ELSE t.v
    /\ status' = [status EXCEPT ![t.v] = "active"]
    /\ t' = [t EXCEPT !.pc = "run"]
    /\ UNCHANGED <<kind, next_status, done, maskVars, act, dataVars, drvVars, disc, list, sem, u>>

\* Fault: vdec_save_active_hw is left out
Run_Unsaved ==
    LET s == IF t.m = {"hevcb"} THEN "back" ELSE "front"
    IN  /\ t.pc = "run"
        /\ job' = [job EXCEPT ![t.v][s] = [st |-> "run", cores |-> t.m]]
        /\ sem' = IF combine = {} THEN Up(sem) ELSE sem
        /\ t' = [Thread0 EXCEPT !.pc = "reap", !.worker = TRUE]
        /\ UNCHANGED <<kind, statusVars, maskVars, schedVars, dataVars, irqpend, cbs, disc, list, u>>

\* vdec_save_active_hw, vdec_prepare_run, the driver's run, up(&core->sem)
Run ==
    LET s == IF t.m = {"hevcb"} THEN "back" ELSE "front"
    IN  /\ t.pc = "run"
        /\ act' = [c \in Cores |-> IF c \in t.m THEN t.v ELSE act[c]]
        /\ job' = [job EXCEPT ![t.v][s] = [st |-> "run", cores |-> t.m]]
        /\ sem' = IF combine = {} THEN Up(sem) ELSE sem
        /\ t' = [Thread0 EXCEPT !.pc = "reap", !.worker = TRUE]
        /\ UNCHANGED <<kind, statusVars, maskVars, active_mask, sched_mask, core_sched, last, last_run,
                       dataVars, irqpend, cbs, disc, list, u>>

\* Fault: the waiting thread is not told
Reap_NoComplete(v) ==
    /\ t.pc = "reap" /\ v \in disc
    /\ disc' = disc \ {v}
    /\ status' = [status EXCEPT ![v] = "disconnected"]
    /\ UNCHANGED <<kind, next_status, done, maskVars, schedVars, dataVars, drvVars, t, list, sem, u>>

\* The instances of disconnecting_list, one by one
Reap(v) ==
    /\ t.pc = "reap" /\ v \in disc
    /\ disc' = disc \ {v}
    /\ status' = [status EXCEPT ![v] = "disconnected"]
    /\ done' = [done EXCEPT ![v] = TRUE]
    /\ UNCHANGED <<kind, next_status, maskVars, schedVars, dataVars, drvVars, t, list, sem, u>>

\* Sleep and poll while a stream waits for a free core
Polls == LET rem == (core_sched \ PowerRef) \cup (PowerRef \ core_sched)
         IN  /\ \E v \in Vdecs : u[v] # "gone"
             /\ rem # {"hevcb"}
             /\ IF t.comb THEN rem = t.stream ELSE t.stream \cap rem # {}

\* Fault: without check_core_run_flag
EndPass_NoRunFlag ==
    /\ t.pc = "reap" /\ disc = {}
    /\ t' = Thread0
    /\ sem' = IF ~t.worker /\ Polls THEN Up(sem) ELSE sem
    /\ UNCHANGED <<kind, statusVars, maskVars, schedVars, dataVars, drvVars, disc, list, u>>

\* The end of a pass: polling, check_core_run_flag
EndPass ==
    /\ t.pc = "reap" /\ disc = {}
    /\ t' = Thread0
    /\ sem' = LET s1 == IF ~t.worker /\ Polls THEN Up(sem) ELSE sem
              IN  IF ~t.worker /\ t.run_flag THEN Up(s1) ELSE s1
    /\ UNCHANGED <<kind, statusVars, maskVars, schedVars, dataVars, drvVars, disc, list, u>>

-----------------------------------------------------------------------------
User(v) == \/ Open(v) \/ \E why \in {"reset", "release"} : Disconnect(v, why)
           \/ DisconnectDone(v) \/ DisconnectTimeout(v) \/ Reset(v) \/ InactiveCoreReset(v)
           \/ Unregister(v) \/ ForceClear(v) \/ Write(v) \/ Put(v)
Driver(v, s) == \/ Isr(v, s) \/ IrqThreadDone(v, s) \/ Hang(v, s) \/ Callback(v, s)
Worker(v) == Work(v) \/ WorkBack(v) \/ SetMmu(v) \/ ClearMmu(v)
Thread == \/ Pass \/ SearchAfter \/ SearchStart \/ Grant \/ Run
          \/ (\E v \in Vdecs : Reap(v)) \/ EndPass

Next == \/ \E v \in Vdecs : User(v) \/ Worker(v) \/ \E s \in Sides : Driver(v, s)
        \/ Thread

(* What the threads around instance v owe it: the driver's threads and     *)
(* hardware that does not hang go on, the display gives pictures back, and *)
(* a wait ends by its completion or its timer.                             *)
Progress(v) == \/ Work(v) \/ WorkBack(v) \/ \E s \in Sides : Isr(v, s) \/ IrqThreadDone(v, s) \/ Callback(v, s)
               \/ Put(v) \/ DisconnectDone(v) \/ DisconnectTimeout(v)

(* The scheduler thread runs until it blocks on its semaphore.             *)
Fairness == WF_vars(Thread) /\ \A v \in Vdecs : WF_vars(Progress(v))

Spec == Init /\ [][Next]_vars /\ Fairness

-----------------------------------------------------------------------------
(* Properties. *)

JobRecords == [st : {"none", "run", "hung", "work", "work2"}, cores : SUBSET Cores]
Jobs == [Vdecs -> [Sides -> JobRecords]]
ThreadStates ==
    [pc : {"down", "after", "start", "grant", "run", "reap"}, i : 1..4, v : Vdecs \cup {Null},
     m : SUBSET Cores, worker : BOOLEAN, run_flag : BOOLEAN, stream : SUBSET Cores, comb : BOOLEAN]

TypeOK ==
    /\ kind \in Setups
    /\ status \in [Vdecs -> {"disconnected", "connected", "active"}]
    /\ next_status \in [Vdecs -> {"disconnected", "connected"}]
    /\ core_mask \in [Vdecs -> SUBSET Cores] /\ combine \subseteq Vdecs
    /\ active_mask \in [Vdecs -> SUBSET Cores] /\ sched_mask \in [Vdecs -> SUBSET Cores]
    /\ done \in [Vdecs -> BOOLEAN] /\ need_more \in [Vdecs -> BOOLEAN]
    /\ irqpend \in [Vdecs -> SUBSET Sides] /\ cbs \in [Vdecs -> SUBSET Sides]
    /\ unread \in [Vdecs -> 0..MaxFrames] /\ consumed \in [Vdecs -> 0..1]
    /\ backq \in [Vdecs -> Nat] /\ out \in [Vdecs -> Nat]
    /\ \A v \in Vdecs : out[v] + backq[v] <= kind[v].bufs
    /\ job \in Jobs
    /\ list \in Seq(Vdecs) /\ disc \subseteq Vdecs /\ core_sched \subseteq Cores
    /\ last \in [Cores -> Vdecs \cup {Null}] /\ last_run \in Vdecs \cup {Null}
    /\ act \in [Cores -> Vdecs \cup {Null}]
    /\ sem \in 0..SemMax
    /\ t \in ThreadStates
    /\ u \in [Vdecs -> {"new", "idle", "wait_reset", "wait_release", "reset", "release",
                       "unregister", "removed", "gone"}]

(* Every core that core->sched_mask calls taken is held by exactly one     *)
(* instance of the list, and an instance is active only on cores it holds: *)
(* the masks of vdec.c:5238-5272 and 5425-5441 and of the forced clear     *)
(* never drift apart, whoever gives cores back and whoever is torn down.   *)
(* Hardware runs for an instance only on cores that are marked as taken    *)
(* and as active for it, so vdec_inactive_core_reset of another instance   *)
(* never resets a core that is running ("mutex with inactive core reset",  *)
(* vdec.c:5440), and vdec_isr (4719) finds the instance that runs.  An     *)
(* instance is ACTIVE as long as some core works for it and CONNECTED as   *)
(* soon as none does: a disconnect waits for every core of a front/back    *)
(* instance (vdec_core_finish_run, vdec.c:4656).                           *)
CoresOwned ==
    /\ core_sched = UNION {sched_mask[v] : v \in Range(list)}
    /\ \A v, w \in Range(list) : v # w => sched_mask[v] \cap sched_mask[w] = {}
    /\ \A v \in Range(list) :
          /\ active_mask[v] \subseteq sched_mask[v]
          /\ u[v] # "removed" => (status[v] = "active") = (active_mask[v] # {})
    /\ \A v \in Vdecs, s \in Sides : Running(job[v][s]) =>
          /\ job[v][s].cores \subseteq core_sched
          /\ job[v][s].cores \subseteq active_mask[v]
          /\ \A c \in job[v][s].cores : act[c] = v

(* A run started with a chunk to decode, and the chunk is there until the  *)
(* work item consumes it: neither another pass nor a reset takes it away.  *)
RunHasInput ==
    \A v \in Vdecs : /\ job[v]["front"].st # "none" => unread[v] > 0
                     /\ job[v]["back"].st # "none" => backq[v] > 0

(* Once an instance is freed nothing of the core points to it: "Then       *)
(* after, we can release the vdec" (vdec.c:4178).  Already while it is     *)
(* being torn down the pointers the round robin starts from are null or in *)
(* the list: the thread takes list.next of them (vdec.c:5344) unseen.      *)
NoDangling ==
    /\ \A v \in Vdecs : u[v] = "gone" =>
          /\ ~Listed(v) /\ v \notin disc /\ t.v # v /\ cbs[v] = {}
          /\ \A c \in Cores : act[c] # v
          /\ \A s \in Sides : job[v][s].st = "none"
    /\ \A c \in Cores : last[c] # Null => Listed(last[c])
    /\ last_run # Null => Listed(last_run)

(* No lost wake-up: the thread sleeps on a semaphore at zero only when no  *)
(* instance could be given a core and none waits to be disconnected, or a  *)
(* run is still under way whose callback will wake it.  vdec_up is called  *)
(* for the first frame of an input only (vdec_input.c:991), stream data    *)
(* wakes only after need_more_data, and a grant ends the scan of the       *)
(* cores, so this rests on every path that wakes the thread.               *)
NoLostWakeup ==
    (t.pc = "down" /\ sem = 0) =>
        \/ \E w \in Vdecs : cbs[w] # {} \/ \E s \in Sides : job[w][s].st # "none"
        \/ \A v \in Range(list) :
              /\ \A c \in Cores \ core_sched : ReadyToRun(v, Offer(v, c)) = {}
              /\ ~(status[v] = "connected" /\ next_status[v] = "disconnected")

(* An instance was freed while it still held cores: its run never ended.   *)
ForcedOut(v) == u[v] = "gone" /\ sched_mask[v] # {}

(* NoLostWakeup up to the release of an instance whose run never ended:    *)
(* vdec_connect_list_force_clear (vdec.c:4180) gives its cores back, and   *)
(* nobody tells the thread.  With three instances one of which combines    *)
(* cores there is a second gap: while it is released its combine flag      *)
(* keeps the others from being offered cores, and vdec_release lowers the  *)
(* flag (4611) without telling the thread either.                          *)
WokenUnlessForced == (\E v \in Vdecs : ForcedOut(v)) \/ NoLostWakeup

(* "Wait the matching irq_thread finished" (vdec.c:4881): no run starts    *)
(* before the irq thread of the previous one has returned.  Only where no  *)
(* instance asks for combined cores: a mask of several cores waits only    *)
(* when both irq threads are late (4890), and an H.264 instance that runs  *)
(* on all cores has only one.                                              *)
IrqThreadFirst ==
    (\A v \in Vdecs : kind[v].drv # "h264") =>
        \A v \in Vdecs, s \in Sides : s \in irqpend[v] => job[v][s].st # "run"

HasWork(v) == Listed(v) /\ unread[v] + backq[v] > 0

(* No starvation: an instance with a frame to decode or, on the back core, *)
(* to finish gets to run, whatever the others do, unless it is             *)
(* disconnected or some hardware hangs.  vdec_up is called only for the    *)
(* first frame of an input (vdec_input.c:991) and a grant ends the scan,   *)
(* so this rests on the round robin and on every path that wakes the       *)
(* thread again.                                                           *)
Served ==
    \A v \in Vdecs :
        HasWork(v) ~> \/ \E s \in Sides : job[v][s].st # "none"
                      \/ next_status[v] = "disconnected"
                      \/ \E w \in Vdecs : Dead(w)

(* vdec_disconnect returns, and not by its timeout unless the hardware     *)
(* hangs: the thread always reaches the instance and completes its wait.   *)
DisconnectReturns == \A v \in Vdecs : Waiting(v) ~> ~Waiting(v)
=============================================================================
