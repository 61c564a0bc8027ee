---------------------------- MODULE VdecCoreInv -----------------------------
(***************************************************************************)
(* The inductive invariant behind VdecCore's safety properties, for runs   *)
(* in which the 2 s waits end only on instances that hang.                 *)
(*                                                                         *)
(* CoresOwned alone is not inductive.  The thread elects an instance in    *)
(* one section, gives it cores in the next and runs it in a third, while   *)
(* users disconnect, reset and release instances and work items finish     *)
(* runs: what the election saw must still be true when it is used          *)
(* (PendingOK).  An instance whose hardware hangs stays in the list with   *)
(* cores that nobody gives back until it is torn down (Stuck), and every   *)
(* stage of the tear-down relies on it staying so (StageOK).               *)
(***************************************************************************)
EXTENDS VdecCore

\* The core the front of an instance runs on
MainCore(v) == IF kind[v].drv = "h264" THEN "vdec1" ELSE "hevc"

\* Between the driver's probe and its remove
Probed(v) == u[v] \notin {"new", "removed", "gone"}

\* Nothing runs, or nobody will end it
Idle(v) == \A s \in Sides : job[v][s].st \in {"none", "hung"}
NoRun(v) == \A s \in Sides : job[v][s].st = "none"

\* Not connected, no core, no run
Out(v) == /\ ~Listed(v) /\ v \notin disc /\ status[v] = "disconnected"
          /\ NoRun(v) /\ active_mask[v] = {} /\ sched_mask[v] = {}

\* In the list, to be disconnected, on cores that no run will give back
Stuck(v) == /\ Listed(v) /\ v \notin disc /\ next_status[v] = "disconnected"
            /\ active_mask[v] # {} /\ Idle(v) /\ t.v # v

\* What each stage of the user's calls can rely on
StageOK(v) ==
    /\ u[v] = "new" => Out(v) /\ kind[v].drv # "none"
    /\ u[v] = "idle" => Listed(v) /\ (next_status[v] = "connected" \/ Stuck(v))
    /\ Waiting(v) => /\ next_status[v] = "disconnected"
                     /\ Listed(v) \/ v \in disc \/ Out(v)
    /\ u[v] \in {"reset", "release", "unregister"} =>
          next_status[v] = "disconnected" /\ (Out(v) \/ Stuck(v))
    /\ u[v] = "removed" => status[v] = "disconnected" /\ NoRun(v) /\ (Out(v) \/ Stuck(v))
    /\ u[v] = "gone" => /\ ~Listed(v) /\ v \notin disc /\ NoRun(v)
                        /\ status[v] = "disconnected"
    /\ u[v] \in {"new", "removed", "gone"} => cbs[v] = {}
    /\ Probed(v) => kind[v].drv # "none"

\* The status, the lists and the masks of an instance
StatusOK(v) ==
    /\ status[v] = "disconnected" => next_status[v] = "disconnected"
    /\ v \in disc => ~Listed(v) /\ status[v] = "connected" /\ next_status[v] = "disconnected"
    /\ Listed(v) /\ u[v] # "removed" => status[v] # "disconnected"
    /\ Listed(v) => active_mask[v] \subseteq sched_mask[v]
    /\ Listed(v) /\ u[v] # "removed" => (status[v] = "active" <=> active_mask[v] # {})
    /\ ~Listed(v) /\ u[v] # "gone" => active_mask[v] = {} /\ sched_mask[v] = {}
    /\ done[v] => Out(v)

\* The cores an instance asked for
MaskOK(v) ==
    /\ v \in combine => kind[v].drv = "h264" /\ Probed(v)
    /\ Probed(v) => core_mask[v] = IF v \in combine THEN Cores ELSE Requested(kind[v].drv)
    /\ Probed(v) => active_mask[v] \subseteq core_mask[v]

\* A run is on active cores of its own, has its input and room for its picture
JobOK(v) ==
    /\ job[v]["front"].st # "none" =>
          /\ MainCore(v) \in active_mask[v] /\ unread[v] > 0
          /\ out[v] + backq[v] < kind[v].bufs
    /\ job[v]["back"].st # "none" =>
          kind[v].drv = "fb" /\ "hevcb" \in active_mask[v] /\ backq[v] > 0
    /\ \A s \in Sides : Running(job[v][s]) =>
          /\ job[v][s].cores \subseteq active_mask[v]
          /\ kind[v].drv = "fb" => job[v][s].cores = IF s = "front" THEN {"hevc"} ELSE {"hevcb"}
          /\ \A c \in job[v][s].cores : act[c] = v
    /\ consumed[v] > 0 => MainCore(v) \in sched_mask[v] \ active_mask[v]

\* core->sched_mask is what the instances of the list hold
SchedOK ==
    /\ core_sched = UNION {sched_mask[v] : v \in Range(list)}
    /\ \A v, w \in Range(list) : v # w => sched_mask[v] \cap sched_mask[w] = {}

\* The pointers of the core
PointersOK ==
    /\ \A c \in Cores : /\ last[c] # Null => Listed(last[c])
                        /\ act[c] # Null => Listed(act[c])
    /\ last_run # Null => Listed(last_run)

\* The side of the run that is about to start
PendingSide == IF t.m = {"hevcb"} THEN "back" ELSE "front"

\* What the election saw of the elected instance is still so
PendingOK ==
    /\ t.pc \notin {"grant", "run"} => t.v = Null
    /\ t.pc \in {"grant", "run"} =>
          /\ t.v \in Vdecs /\ Listed(t.v) /\ u[t.v] \in {"idle", "wait_reset", "wait_release"}
          /\ t.m \subseteq core_mask[t.v] /\ job[t.v][PendingSide].st = "none"
          /\ \/ t.m = {"hevcb"} /\ kind[t.v].drv = "fb" /\ backq[t.v] > 0
             \/ /\ MainCore(t.v) \in t.m /\ unread[t.v] > 0 /\ consumed[t.v] = 0
                /\ kind[t.v].drv = "fb" => t.m = {"hevc"}
                /\ out[t.v] + backq[t.v] < kind[t.v].bufs
    /\ t.pc = "grant" => t.m \cap core_sched = {}
    /\ t.pc = "run" => t.m \subseteq active_mask[t.v]
    /\ t.pc \in {"after", "start"} => t.i \in 1..3
    /\ t.pc = "down" => disc = {}

\* The irq thread of the side that is about to run has returned
IrqOK ==
    (\A v \in Vdecs : kind[v].drv # "h264") =>
        /\ \A v \in Vdecs, s \in Sides : s \in irqpend[v] => job[v][s].st # "run"
        /\ t.pc \in {"grant", "run"} => PendingSide \notin irqpend[t.v]

InstanceOK(v) == StageOK(v) /\ StatusOK(v) /\ MaskOK(v) /\ JobOK(v)

Inv ==
    /\ TypeOK
    /\ \A v \in Vdecs : InstanceOK(v)
    /\ SchedOK /\ PointersOK /\ PendingOK /\ IrqOK

-----------------------------------------------------------------------------
(* Why the thread sleeps only when there is nothing to do, where no        *)
(* instance combines cores.  What makes an instance ready wakes the        *)
(* thread, or is a work item whose vdec_callback will; and what the thread *)
(* passed over in this pass was not ready, or the thread noted (run_flag)  *)
(* that it must come back when an irq thread has returned.                 *)

NoCombining == \A v \in Vdecs : kind[v].drv # "h264"

\* What run_ready and the input say of core c, whatever the irq threads do
CouldRun(v, c) ==
    IF c = "hevcb" THEN backq[v] > 0
    ELSE /\ RunReady(v)
         /\ IF kind[v].stream THEN unread[v] > 0 \/ ~need_more[v] ELSE unread[v] + consumed[v] > 0

\* Instance v could be given core c
Ripe(v, c) == /\ Listed(v) /\ next_status[v] # "disconnected" /\ status[v] \in {"connected", "active"}
              /\ c \in core_mask[v] \ core_sched /\ CouldRun(v, c)

\* Instance v waits for the thread to disconnect it
Doomed(v) == Listed(v) /\ status[v] = "connected" /\ next_status[v] = "disconnected"

\* The instances behind l in the list
Behind(l) == Range(SubSeq(list, Pos(l) + 1, Len(list)))

\* The pass has come by v with core c
Seen(v, c) ==
    \/ t.pc \in {"down", "reap"}
    \/ t.pc \in {"after", "start"} /\ \E k \in 1..(t.i - 1) : CoreOrder[k] = c
    \/ t.pc = "start" /\ c = CoreOrder[t.i] /\ last[c] # Null /\ v \in Behind(last[c])

PassedOver == \A v \in Vdecs, c \in Cores : Seen(v, c) => ~Ripe(v, c)

\* Nobody has woken the thread or is about to
Unwoken == sem = 0 /\ \A v \in Vdecs : cbs[v] = {} /\ ~ForcedOut(v)

WakeInv ==
    /\ t.pc = "down" => ~t.run_flag
    /\ t.pc # "reap" => ~t.worker
    /\ NoCombining /\ Unwoken =>
          /\ \A v \in Vdecs : ~Doomed(v)
          /\ t.pc = "reap" => ~t.worker
          /\ t.run_flag \/ PassedOver
=============================================================================
