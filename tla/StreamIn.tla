------------------------------ MODULE StreamIn ------------------------------
(***************************************************************************)
(* Stream input: how an elementary stream gets from write(2) into the      *)
(* decoder's ring buffer.  The application's call copies the data into     *)
(* blocks of the write thread (thread_rw.c) and returns; the thread's work *)
(* hands the blocks on, either to a ring the driver fills itself           *)
(* (stream_buffer_interface.c, mode "ring") or to the parser hardware,     *)
(* which fetches them (esparser.c, mode "parser").  The decoder follows    *)
(* with its read pointer.  Time stamps are checked in with the offset of   *)
(* the next byte the application is going to write.                        *)
(*                                                                         *)
(* Data are units, numbered as the application offers them.  An offset, a  *)
(* level or a length counts units.                                         *)
(***************************************************************************)
EXTENDS Integers, Sequences, SequencesExt, FiniteSets, FiniteSetsExt

CONSTANTS
    Bufs,         \* blocks of the write thread: task->buf[0 .. max_bufs - 1]
    FirstBufs,    \* those allocated by threadrw_alloc
    BufSize,      \* buffer_size of a block
    Size,         \* buf_size of the stream buffer
    Reserve,      \* what stbuf_space keeps back: 6 KB, and the parser's hole
    MinWrite,     \* the 256 below which a write that does not block gives up
    Modes,        \* subset of {"ring", "parser"}
    WriteSizes,   \* the counts the application writes
    CopyFails,    \* subset of BOOLEAN: outcomes of copy_from_user to explore
    StampKinds,   \* pairs <<mode, ioctl>> of the check-ins to explore
    UserPtr,      \* an address of the application, not a block
    MaxUnits,     \* bound on the units written between open and close
    MaxFails,     \* bound on fetch timeouts and failed mappings
    MaxOpens      \* bound on the number of times the port is opened again

ASSUME SizesAssumption ==
    /\ BufSize \in Nat \ {0} /\ MinWrite \in Nat \ {0}
    /\ Reserve \in Nat \ {0} /\ Size \in Nat /\ Size - Reserve >= MinWrite
    /\ FirstBufs \in SUBSET Bufs /\ FirstBufs # {} /\ IsFiniteSet(Bufs) /\ UserPtr \notin Bufs
ASSUME BoundAssumption ==
    /\ WriteSizes \subseteq Nat \ {0} /\ CopyFails \subseteq BOOLEAN
    /\ MaxUnits \in Nat /\ MaxFails \in Nat /\ MaxOpens \in Nat
    /\ Modes \subseteq {"ring", "parser"}

VARIABLES
    mode,       \* which operations the port was opened with
    task,       \* struct threadrw_write_task
    stbuf,      \* struct stream_buf_s
    parser,     \* the variables of esparser.c and the hardware behind them
    app,        \* the application in threadrw_write: pc, units left, units put in
    work,       \* do_write_work: pc, the length it decided on, the write pointer it saw
    dec,        \* the decoder in set_rp: "idle", or "sub" before its atomic_sub
    sent,       \* ghost: units whose write has returned
    read,       \* ghost: units the decoder has read
    fails, opens

actors == <<app, work, dec>>
ghosts == <<sent, read>>
bounds == <<mode, fails, opens>>
vars == <<task, stbuf, parser, actors, ghosts, bounds>>

\* threadrw_alloc.  mem: the units in each block from write_off on; known: the
\* blocks allocated so far; mutex: who holds task->mutex
NewTask == [freefifo |-> SetToSeq(FirstBufs), datafifo |-> <<>>, mem |-> [b \in Bufs |-> <<>>],
            known |-> FirstBufs, buffered_data_size |-> 0, data_offset |-> 0,
            passed_data_len |-> 0, failed_onmore |-> FALSE, mutex |-> "none"]

\* stream_buffer_init; for the parser the pointers are its registers
NewStbuf == [ring |-> [i \in 0 .. Size - 1 |-> 0], buf_wp |-> 0, buf_rp |-> 0,
             payload |-> 0, stream_offset |-> 0]

\* esparser_init; hw: has the fetch command been given, and carried out?
NewParser == [video_data_parsed |-> 0, search_done |-> FALSE, hw |-> "idle"]

Rest == [pc |-> "idle", len |-> 0, wp |-> 0]

Init ==
    /\ mode \in Modes
    /\ task = NewTask /\ stbuf = NewStbuf /\ parser = NewParser
    /\ app = [pc |-> "idle", left |-> 0, off |-> 0] /\ work = Rest /\ dec = "idle"
    /\ sent = 0 /\ read = 0
    /\ fails = 0 /\ opens = 0

-----------------------------------------------------------------------------
(* The stream buffer. *)

\* stbuf_level: a full ring and an empty one look the same
Level == (stbuf.buf_wp - stbuf.buf_rp) % Size

stbuf_space == Max({0, Size - Level - Reserve})

\* get_free_space, which tells full from empty by the payload
get_free_space ==
    IF stbuf.buf_wp = stbuf.buf_rp THEN IF stbuf.payload = 0 THEN Size ELSE 0 ELSE Size - Level

\* The ring with the units of s written from buf_wp on
Put(s) == [i \in 0 .. Size - 1 |-> LET d == (i - stbuf.buf_wp) % Size
                                   IN  IF d < Len(s) THEN s[d + 1] ELSE stbuf.ring[i]]

\* Fault: a write pointer at the end of the ring stays there
Wrapped_Late(n) == IF stbuf.buf_wp + n > Size THEN 0 ELSE stbuf.buf_wp + n

\* stream_buffer_set_wp, from rb_push_data
Wrapped(n) == IF stbuf.buf_wp + n >= Size THEN 0 ELSE stbuf.buf_wp + n

\* rb_push_data copies up to the end of the ring and leaves the rest for another call
PushLen(len) == Min({len, Size - stbuf.buf_wp})

-----------------------------------------------------------------------------
(* The application: threadrw_write under task->mutex. *)

WriteBegin(n) ==
    /\ app.pc = "idle" /\ task.mutex = "none" /\ sent + n <= MaxUnits
    /\ task' = [task EXCEPT !.mutex = "app"]
    /\ app' = [pc |-> "write", left |-> n, off |-> 0]
    /\ UNCHANGED <<stbuf, parser, work, dec, ghosts, bounds>>

\* threadrw_write_onece: one block.  When the copy fails the address the data
\* should have come from is what is put back.
threadrw_write_onece(fault) ==
    LET b == Head(task.freefifo)
        n == Min({BufSize, app.left})
    IN  /\ app.pc = "write" /\ app.left > 0 /\ task.freefifo # <<>>
        /\ task' = IF fault THEN [task EXCEPT !.freefifo = Append(Tail(@), UserPtr)]
                   ELSE [task EXCEPT !.freefifo = Tail(@), !.datafifo = Append(@, b),
                                     !.mem[b] = [i \in 1 .. n |-> sent + app.off + i]]
        /\ app' = IF fault THEN [app EXCEPT !.left = 0]
                  ELSE [app EXCEPT !.left = @ - n, !.off = @ + n]
        /\ UNCHANGED <<stbuf, parser, work, dec, ghosts, bounds>>

\* Fault: the units of a call that was cut short are all counted
Counted_All == app.off + app.left

Counted == app.off

\* The end of threadrw_write_in.  Without a free block it waits first, but with
\* task->mutex held, so that no block can come back meanwhile.
WriteEnd ==
    /\ app.pc = "write" /\ (app.left = 0 \/ task.freefifo = <<>>)
    /\ task' = [task EXCEPT !.buffered_data_size = @ + Counted, !.data_offset = @ + Counted,
                            !.mutex = "none"]
    /\ sent' = sent + app.off
    /\ app' = [pc |-> IF app.off = 0 THEN "again" ELSE "idle", left |-> 0, off |-> 0]
    /\ UNCHANGED <<stbuf, parser, work, dec, read, bounds>>

\* esparser_write after -EAGAIN: the delays allow more blocks, of which B could be had
threadrw_alloc_more_buffer_size(B) ==
    /\ app.pc = "again" /\ mode = "parser" /\ task.mutex = "none"
    /\ ~task.failed_onmore /\ task.known # Bufs
    /\ task' = [task EXCEPT !.known = @ \cup B, !.freefifo = @ \o SetToSeq(B),
                            !.failed_onmore = (B = {})]
    /\ app' = [app EXCEPT !.pc = "idle"]
    /\ UNCHANGED <<stbuf, parser, work, dec, ghosts, bounds>>

\* -EAGAIN reaches the application
WriteAgain ==
    /\ app.pc = "again"
    /\ app' = [app EXCEPT !.pc = "idle"]
    /\ UNCHANGED <<task, stbuf, parser, work, dec, ghosts, bounds>>

-----------------------------------------------------------------------------
(* The write thread: do_write_work, which takes task->mutex for one call.  *)

Block == Head(task.datafifo)

WorkLock ==
    /\ work.pc = "idle" /\ task.mutex = "none" /\ task.datafifo # <<>>
    /\ task' = [task EXCEPT !.mutex = "work"]
    /\ work' = [work EXCEPT !.pc = "space"]
    /\ UNCHANGED <<stbuf, parser, app, dec, ghosts, bounds>>

\* Fault: the mutex is kept
GiveUp_Locked == task' = task /\ work' = Rest

\* The call was in vain: -EAGAIN, or an error; it is repeated a tenth of a second later
GiveUp ==
    /\ task' = [task EXCEPT !.mutex = "none"]
    /\ work' = Rest

\* stream_buffer_write_ex and esparser_write_ex with the flag "noblock"
write_ex ==
    LET count == Len(task.mem[Block])
    IN  /\ work.pc = "space"
        /\ IF stbuf_space < count /\ stbuf_space < MinWrite
           THEN GiveUp
           ELSE /\ work' = [pc |-> IF mode = "ring" THEN "push" ELSE "start",
                            len |-> Min({stbuf_space, count}), wp |-> stbuf.buf_wp]
                /\ UNCHANGED task
        /\ UNCHANGED <<stbuf, parser, app, dec, ghosts, bounds>>

\* do_write_work_in after n units of its block were taken; the mutex is let go
Passed(t, b, n) ==
    [IF n >= Len(t.mem[b])
     THEN [t EXCEPT !.passed_data_len = @ + Len(t.mem[b]), !.mem[b] = <<>>,
                    !.datafifo = Tail(@), !.freefifo = Append(@, b)]
     ELSE [t EXCEPT !.passed_data_len = @ + n, !.mem[b] = SubSeq(@, n + 1, Len(@))]
     EXCEPT !.mutex = "none"]

\* stream_buffer_write_inner; buf_rp may have moved since the length was decided
stream_buffer_write_inner ==
    LET n == PushLen(work.len)
    IN  /\ work.pc = "push"
        /\ IF get_free_space < work.len
           THEN GiveUp /\ UNCHANGED stbuf
           ELSE /\ stbuf' = [stbuf EXCEPT !.ring = Put(SubSeq(task.mem[Block], 1, n)),
                                          !.buf_wp = Wrapped(n),
                                          !.payload = @ + n, !.stream_offset = @ + n]
                /\ task' = Passed(task, Block, n)
                /\ work' = Rest
        /\ UNCHANGED <<parser, app, dec, ghosts, bounds>>

\* stream_buffer_copy cannot map the block or the ring
CopyUnmapped ==
    /\ work.pc = "push" /\ fails < MaxFails
    /\ GiveUp
    /\ fails' = fails + 1
    /\ UNCHANGED <<stbuf, parser, app, dec, ghosts, mode, opens>>

-----------------------------------------------------------------------------
(* esparser_stbuf_write, under esparser_mutex.                             *)

esparser_mutex == work.pc \in {"fetch", "level"}

\* The command to fetch the block
FetchStart ==
    /\ work.pc = "start"
    /\ parser' = [parser EXCEPT !.search_done = FALSE, !.hw = "fetching"]
    /\ work' = [work EXCEPT !.pc = "fetch", !.wp = stbuf.buf_wp]
    /\ UNCHANGED <<task, stbuf, app, dec, ghosts, bounds>>

\* The hardware copies the block into the ring, wrapping by itself
HwFetch ==
    /\ parser.hw = "fetching"
    /\ stbuf' = [stbuf EXCEPT !.ring = Put(SubSeq(task.mem[Block], 1, work.len)),
                              !.buf_wp = (@ + work.len) % Size]
    /\ parser' = [parser EXCEPT !.hw = "fetched"]
    /\ UNCHANGED <<task, actors, ghosts, bounds>>

\* The pattern behind the block is found
esparser_isr ==
    /\ parser.hw = "fetched"
    /\ parser' = [parser EXCEPT !.search_done = TRUE, !.hw = "idle"]
    /\ UNCHANGED <<task, stbuf, actors, ghosts, bounds>>

\* What counts as parsed once the wait is over
Parsed(p) ==
    /\ parser' = [p EXCEPT !.video_data_parsed = @ + work.len, !.hw = "idle"]
    /\ work' = [work EXCEPT !.pc = "level"]

FetchEnd ==
    /\ work.pc = "fetch" /\ parser.search_done
    /\ Parsed(parser)
    /\ UNCHANGED <<task, stbuf, app, dec, ghosts, bounds>>

\* Fault: a fetch that timed out is repeated whatever was fetched
Fetched_Never == FALSE

Fetched == stbuf.buf_wp # work.wp

\* wait_event_interruptible_timeout returned 0: the fetch is stopped
FetchTimeout ==
    /\ work.pc = "fetch" /\ ~parser.search_done /\ fails < MaxFails
    /\ IF Fetched THEN Parsed(parser) /\ UNCHANGED task
       ELSE GiveUp /\ parser' = [parser EXCEPT !.hw = "idle"]
    /\ fails' = fails + 1
    /\ UNCHANGED <<stbuf, app, dec, ghosts, mode, opens>>

\* threadrw_update_buffer_level, and back in do_write_work_in
LevelDown ==
    /\ work.pc = "level"
    /\ task' = Passed([task EXCEPT !.buffered_data_size = @ - work.len], Block, work.len)
    /\ work' = Rest
    /\ UNCHANGED <<stbuf, parser, app, dec, ghosts, bounds>>

-----------------------------------------------------------------------------
(* The decoder, time stamps, and the port. *)

\* stream_buffer_set_rp after the decoder has read a unit ...
SetRp ==
    /\ dec = "idle" /\ stbuf.buf_wp # stbuf.buf_rp
    /\ stbuf' = [stbuf EXCEPT !.buf_rp = (@ + 1) % Size]
    /\ read' = read + 1
    /\ dec' = IF mode = "ring" THEN "sub" ELSE "idle"
    /\ UNCHANGED <<task, parser, app, work, sent, bounds>>

\* ... and its last line
SubPayload ==
    /\ dec = "sub"
    /\ stbuf' = [stbuf EXCEPT !.payload = @ - 1]
    /\ dec' = "idle"
    /\ UNCHANGED <<task, parser, app, work, ghosts, bounds>>

\* Fault: es_vpts_checkin does not wait for the parser
MayCheckin_Any(ioctl) == app.pc = "idle" /\ <<mode, ioctl>> \in StampKinds

\* A check-in comes from the thread that writes; es_vpts_checkin takes esparser_mutex
MayCheckin(ioctl) ==
    /\ app.pc = "idle" /\ <<mode, ioctl>> \in StampKinds
    /\ ioctl = "tstamp" /\ mode = "parser" => ~esparser_mutex

\* The offset AMSTREAM_SET_TSTAMP or AMSTREAM_SET_TSTAMP_US64 checks a time stamp in with
Offset(ioctl) ==
    CASE ioctl = "us64" -> task.data_offset
      [] ioctl = "tstamp" /\ mode = "parser" -> parser.video_data_parsed + task.buffered_data_size
      [] OTHER -> stbuf.stream_offset

\* The port is closed (threadrw_release, which waits for the work) and opened again
Reopen(m) ==
    /\ app.pc = "idle" /\ work.pc = "idle" /\ opens < MaxOpens
    /\ mode' = m /\ task' = NewTask /\ stbuf' = NewStbuf /\ parser' = NewParser
    /\ dec' = "idle" /\ sent' = 0 /\ read' = 0
    /\ opens' = opens + 1
    /\ UNCHANGED <<app, work, fails>>

-----------------------------------------------------------------------------

WorkStep == \/ write_ex \/ stream_buffer_write_inner \/ CopyUnmapped \/ FetchStart \/ FetchEnd
            \/ FetchTimeout \/ LevelDown
HwStep == HwFetch \/ esparser_isr
DecStep == SetRp \/ SubPayload
CallStep == (\E fault \in CopyFails : threadrw_write_onece(fault)) \/ WriteEnd

Next ==
    \/ \E n \in WriteSizes : WriteBegin(n)
    \/ CallStep
    \/ \E B \in SUBSET (Bufs \ task.known) : threadrw_alloc_more_buffer_size(B)
    \/ WriteAgain
    \/ WorkLock
    \/ WorkStep
    \/ HwStep
    \/ DecStep
    \/ \E m \in Modes : Reopen(m)

(* A call inside the kernel goes on; the work is queued again whenever it  *)
(* ends, and a mutex is handed to a waiter in the end, although the        *)
(* application may take it any number of times before; the hardware works; *)
(* the decoder reads what is there.  Nothing is assumed of the application.*)
Fairness ==
    /\ WF_vars(CallStep) /\ SF_vars(WorkLock) /\ WF_vars(WorkStep)
    /\ WF_vars(HwStep) /\ WF_vars(DecStep)

Spec == Init /\ [][Next]_vars /\ Fairness

-----------------------------------------------------------------------------
(* Properties. *)

TaskRecords ==
    [freefifo : Seq(Bufs \cup {UserPtr}), datafifo : Seq(Bufs), mem : [Bufs -> Seq(1 .. MaxUnits)],
     known : SUBSET Bufs, buffered_data_size : Int, data_offset : Nat, passed_data_len : Nat,
     failed_onmore : BOOLEAN, mutex : {"none", "app", "work"}]
StbufRecords ==
    [ring : [0 .. Size - 1 -> 0 .. MaxUnits], buf_wp : 0 .. Size - 1, buf_rp : 0 .. Size - 1,
     payload : Int, stream_offset : Nat]
ParserRecords ==
    [video_data_parsed : Nat, search_done : BOOLEAN, hw : {"idle", "fetching", "fetched"}]

TypeOK ==
    /\ mode \in Modes
    /\ task \in TaskRecords /\ stbuf \in StbufRecords /\ parser \in ParserRecords
    /\ app \in [pc : {"idle", "write", "again"}, left : Nat, off : Nat]
    /\ work \in [pc : {"idle", "space", "push", "start", "fetch", "level"},
                 len : 0 .. BufSize, wp : 0 .. Size - 1]
    /\ dec \in {"idle", "sub"}

\* The units of its block that the parser has copied and the thread not yet accounted for
Copied == IF work.pc = "level" \/ (work.pc = "fetch" /\ parser.hw # "fetching") THEN work.len ELSE 0

\* The k-th block in the queue, and its first unit; behind the last one the unit
\* the application puts in next
Queued(k) == task.mem[task.datafifo[k]]
FirstUnit(k) == IF k > Len(task.datafifo) THEN sent + app.off + 1 ELSE Queued(k)[1]

(* What the decoder is going to read, from the ring and from the blocks    *)
(* behind it, is what the application has written, each unit once and in   *)
(* order: over wrapping stores, blocks written by half, fetches that timed *)
(* out and blocks that are filled again (do_write_work_in, rb_push_data,   *)
(* esparser_stbuf_write).  The ring holds the units behind the last one    *)
(* read, the first block goes on where the ring ends, and every block      *)
(* where the one before it ends.                                           *)
InOrder ==
    /\ \A i \in 1 .. Level : stbuf.ring[(stbuf.buf_rp + i - 1) % Size] = read + i
    /\ FirstUnit(1) + Copied = read + Level + 1
    /\ \A k \in DOMAIN task.datafifo :
          /\ Queued(k) # <<>>
          /\ \A i \in DOMAIN Queued(k) : Queued(k)[i] = FirstUnit(k) + i - 1
          /\ FirstUnit(k + 1) = FirstUnit(k) + Len(Queued(k))

(* Every block is either free or queued, once (the two fifos of            *)
(* thread_rw.c); the levels and offsets kept by the thread, the ring and   *)
(* the parser are what was really written, passed on and read.             *)
AccountsExact ==
    /\ IsInjective(task.freefifo \o task.datafifo)
    /\ ToSet(task.freefifo \o task.datafifo) = task.known
    /\ task.passed_data_len + Copied = read + Level
    /\ task.data_offset = sent
    /\ IF mode = "ring"
       THEN /\ stbuf.payload = Level + (IF dec = "sub" THEN 1 ELSE 0)
            /\ stbuf.stream_offset = read + Level
       ELSE /\ task.buffered_data_size + task.passed_data_len = sent
            /\ parser.video_data_parsed + (IF work.pc = "fetch" THEN Copied ELSE 0) = read + Level

(* A time stamp is checked in with the offset of the next unit the         *)
(* application writes, however far the thread and the parser have come     *)
(* (es_vpts_checkin adds two counters that the parser changes one after    *)
(* the other).                                                             *)
TstampExact == \A ioctl \in {"tstamp", "us64"} : MayCheckin(ioctl) => Offset(ioctl) = sent

(* What write calls have returned for reaches the decoder, whenever the    *)
(* application stops writing (do_write_work queues itself again; the       *)
(* application competes for task->mutex).  The application writes at most  *)
(* MaxUnits, and may stop after any of them.                               *)
Drains == []<>(read = sent)
=============================================================================
