--------------------------- MODULE StreamInProofs ---------------------------
(***************************************************************************)
(* Proofs about StreamIn for blocks and rings of any size, any number of   *)
(* blocks, any counts the application writes and any number of timeouts,   *)
(* as long as copy_from_user does not fail.                                *)
(***************************************************************************)
EXTENDS StreamIn, ListsProofs

(* The inductive invariant.  InOrder and AccountsExact are not inductive:  *)
(* the write thread decides on a length in one step and moves the data in  *)
(* a later one, so they need that the ring still has the room (LengthOK),  *)
(* that nobody else touches the block (LockOK), and that the write pointer *)
(* tells whether the parser has fetched it (ParserOK).                     *)

\* The types, and those of the counters that are only there for the properties
TypeInv == /\ TypeOK /\ task.freefifo \in Seq(Bufs)
           /\ sent \in Nat /\ read \in Nat /\ fails \in Nat /\ opens \in Nat

\* Who holds task->mutex
LockOK ==
    /\ (task.mutex = "app") <=> (app.pc = "write")
    /\ (task.mutex = "work") <=> (work.pc # "idle")
    /\ app.pc # "write" => app.left = 0 /\ app.off = 0
    /\ sent + app.off + app.left <= MaxUnits
    /\ work.pc # "idle" => task.datafifo # <<>>

\* Every block is free or queued, once
FifosOK ==
    /\ \A j, k \in DOMAIN task.datafifo : task.datafifo[j] = task.datafifo[k] => j = k
    /\ \A j, k \in DOMAIN task.freefifo : task.freefifo[j] = task.freefifo[k] => j = k
    /\ \A j \in DOMAIN task.freefifo, k \in DOMAIN task.datafifo : task.freefifo[j] # task.datafifo[k]
    /\ Range(task.freefifo) \cup Range(task.datafifo) = task.known

\* The length the thread decided on fits the block, and the ring
Takes == work.pc \in {"push", "start"} \/ (work.pc = "fetch" /\ parser.hw = "fetching")
LengthOK ==
    /\ \A k \in DOMAIN task.datafifo : Len(Queued(k)) <= BufSize
    /\ work.pc \in {"push", "start", "fetch", "level"} => work.len \in 1 .. Len(Queued(1))
    /\ Takes => work.len + Level + Reserve <= Size

\* What the parser's hardware is at
ParserOK ==
    /\ mode = "ring" => work.pc \notin {"start", "fetch", "level"}
    /\ mode = "parser" => work.pc # "push" /\ dec = "idle"
    /\ parser.hw # "idle" => work.pc = "fetch"
    /\ work.pc = "fetch" => /\ parser.search_done <=> parser.hw = "idle"
                            /\ (stbuf.buf_wp = work.wp) <=> parser.hw = "fetching"

\* The counters
CountsOK ==
    /\ task.passed_data_len + Copied = read + Level
    /\ task.data_offset = sent
    /\ mode = "ring" => /\ stbuf.payload = Level + (IF dec = "sub" THEN 1 ELSE 0)
                        /\ stbuf.stream_offset = read + Level
    /\ mode = "parser" => /\ task.buffered_data_size + task.passed_data_len = sent
                          /\ parser.video_data_parsed = task.passed_data_len
                                                        + (IF work.pc = "level" THEN work.len ELSE 0)

Inv == TypeInv /\ LockOK /\ FifosOK /\ LengthOK /\ ParserOK /\ CountsOK /\ InOrder

-----------------------------------------------------------------------------
(* Arithmetic of the ring *)

\* The sizes
LEMMA SizeType == /\ Size \in Nat \ {0} /\ Reserve \in Nat \ {0} /\ Reserve < Size
                  /\ BufSize \in Nat \ {0} /\ MinWrite \in Nat \ {0}
BY SizesAssumption

\* x % Size for x around 0 .. Size - 1
LEMMA ModBelow == ASSUME NEW d \in Int, -Size <= d, d < Size
                  PROVE  d % Size = IF d >= 0 THEN d ELSE d + Size
BY SizeType

\* Distances around the ring
LEMMA ModAbove == ASSUME NEW d \in Int, 0 <= d, d < 2 * Size
                  PROVE  d % Size = IF d < Size THEN d ELSE d - Size
BY SizeType

\* The parts of the stream buffer
LEMMA StbufType == TypeOK => /\ stbuf.buf_wp \in 0 .. Size - 1 /\ stbuf.buf_rp \in 0 .. Size - 1
                             /\ stbuf.payload \in Int /\ stbuf.stream_offset \in Nat
                             /\ stbuf.ring \in [0 .. Size - 1 -> 0 .. MaxUnits]
BY DEF TypeOK, StbufRecords

\* stbuf_level, without the remainder
LEMMA LevelIs ==
    ASSUME TypeOK
    PROVE  /\ Level = IF stbuf.buf_wp >= stbuf.buf_rp THEN stbuf.buf_wp - stbuf.buf_rp
                      ELSE stbuf.buf_wp - stbuf.buf_rp + Size
           /\ Level \in 0 .. Size - 1
           /\ Level = 0 <=> stbuf.buf_wp = stbuf.buf_rp
<1>1. Size \in Nat \ {0} /\ stbuf.buf_wp \in 0 .. Size - 1 /\ stbuf.buf_rp \in 0 .. Size - 1
  BY SizeType, StbufType
<1> DEFINE d == stbuf.buf_wp - stbuf.buf_rp
<1>2. d \in Int /\ -Size <= d /\ d < Size
  BY <1>1
<1> HIDE DEF d
<1>3. d % Size = IF d >= 0 THEN d ELSE d + Size
  BY <1>2, ModBelow
<1>4. Level = d % Size
  BY DEF Level, d
<1> QED
  BY <1>1, <1>3, <1>4 DEF d

\* The i-th place from p on
LEMMA PlaceIs ==
    ASSUME NEW p \in 0 .. Size - 1, NEW i \in 1 .. Size
    PROVE  /\ (p + i - 1) % Size = IF p + i - 1 < Size THEN p + i - 1 ELSE p + i - 1 - Size
           /\ (p + i - 1) % Size \in 0 .. Size - 1
<1>1. Size \in Nat \ {0} /\ p + i - 1 \in Int /\ 0 <= p + i - 1 /\ p + i - 1 < 2 * Size
  BY SizeType
<1>2. (p + i - 1) % Size = IF p + i - 1 < Size THEN p + i - 1 ELSE p + i - 1 - Size
  BY <1>1, ModAbove
<1> QED
  BY <1>1, <1>2

-----------------------------------------------------------------------------
(* The parts of InOrder *)

RingOK == \A i \in 1 .. Level : stbuf.ring[(stbuf.buf_rp + i - 1) % Size] = read + i
JointOK == FirstUnit(1) + Copied = read + Level + 1
QueueOK == \A k \in DOMAIN task.datafifo :
              /\ Queued(k) # <<>>
              /\ \A i \in DOMAIN Queued(k) : Queued(k)[i] = FirstUnit(k) + i - 1
              /\ FirstUnit(k + 1) = FirstUnit(k) + Len(Queued(k))

\* InOrder in three parts
LEMMA InOrderParts == InOrder <=> RingOK /\ JointOK /\ QueueOK
BY DEF InOrder, RingOK, JointOK, QueueOK

\* The ring is left alone.
LEMMA RingSame ==
    ASSUME RingOK, stbuf'.ring = stbuf.ring, stbuf'.buf_wp = stbuf.buf_wp, stbuf'.buf_rp = stbuf.buf_rp,
           read' = read
    PROVE  RingOK' /\ Level' = Level
BY DEF RingOK, Level

\* The queue is left alone.
LEMMA QueueSame ==
    ASSUME task'.datafifo = task.datafifo, task'.mem = task.mem, sent' + app'.off = sent + app.off
    PROVE  /\ QueueOK => QueueOK'
           /\ \A k : Queued(k)' = Queued(k) /\ FirstUnit(k)' = FirstUnit(k)
<1>1. \A k : Queued(k)' = Queued(k) /\ FirstUnit(k)' = FirstUnit(k)
  BY DEF Queued, FirstUnit
<1> QED
  BY <1>1 DEF QueueOK

\* The parts of the task
LEMMA TaskType ==
    TypeInv => /\ task.freefifo \in Seq(Bufs) /\ task.datafifo \in Seq(Bufs)
               /\ task.mem \in [Bufs -> Seq(1 .. MaxUnits)] /\ task.known \subseteq Bufs
               /\ task.buffered_data_size \in Int /\ task.data_offset \in Nat /\ task.passed_data_len \in Nat
               /\ task.mutex \in {"none", "app", "work"}
BY DEF TypeInv, TypeOK, TaskRecords

\* Only task->mutex changes.
MutexOnly == /\ task' \in TaskRecords
             /\ task'.freefifo = task.freefifo /\ task'.datafifo = task.datafifo /\ task'.mem = task.mem
             /\ task'.known = task.known /\ task'.buffered_data_size = task.buffered_data_size
             /\ task'.data_offset = task.data_offset /\ task'.passed_data_len = task.passed_data_len

\* A step that only takes or drops the mutex
LEMMA MutexStep ==
    ASSUME TypeInv, NEW x \in {"none", "app", "work"}, task' = [task EXCEPT !.mutex = x]
    PROVE  MutexOnly /\ task'.mutex = x
BY DEF TypeInv, TypeOK, TaskRecords, MutexOnly

\* The other parts
LEMMA ActorType ==
    TypeInv => /\ app.pc \in {"idle", "write", "again"} /\ app.left \in Nat /\ app.off \in Nat
               /\ work.pc \in {"idle", "space", "push", "start", "fetch", "level"}
               /\ work.len \in 0 .. BufSize /\ work.wp \in 0 .. Size - 1
               /\ parser.video_data_parsed \in Nat /\ parser.search_done \in BOOLEAN
               /\ parser.hw \in {"idle", "fetching", "fetched"}
               /\ sent \in Nat /\ read \in Nat
BY DEF TypeInv, TypeOK, ParserRecords
-----------------------------------------------------------------------------
(* Steps that leave the data where they are *)

\* The ring and the queued blocks are as before.
Still == /\ stbuf'.ring = stbuf.ring /\ stbuf'.buf_wp = stbuf.buf_wp /\ stbuf'.buf_rp = stbuf.buf_rp
         /\ task'.datafifo = task.datafifo /\ task'.mem = task.mem
         /\ read' = read /\ sent' + app'.off = sent + app.off

\* The length in work.len is good.
WorkLen == /\ work.pc \in {"push", "start", "fetch", "level"} => work.len \in 1 .. Len(Queued(1))
           /\ Takes => work.len + Level + Reserve <= Size

\* The parts of LengthOK
LEMMA LengthParts == LengthOK <=> WorkLen /\ \A k \in DOMAIN task.datafifo : Len(Queued(k)) <= BufSize
BY DEF LengthOK, WorkLen

\* What is left to show of such a step
LEMMA StillOK ==
    ASSUME Inv, Still, Copied' = Copied, TypeInv', LockOK', FifosOK', ParserOK', CountsOK', WorkLen'
    PROVE  Inv'
<1>1. RingOK /\ JointOK /\ QueueOK /\ LengthOK
  BY InOrderParts DEF Inv
<1>2. RingOK' /\ Level' = Level
  BY <1>1, RingSame DEF Still
<1>3. QueueOK' /\ \A k : Queued(k)' = Queued(k) /\ FirstUnit(k)' = FirstUnit(k)
  BY <1>1, QueueSame DEF Still
<1>4. LengthOK'
  BY <1>1, <1>3, LengthParts DEF LengthOK, WorkLen, Still
<1>5. JointOK'
  BY <1>1, <1>2, <1>3 DEF JointOK, Still
<1>6. InOrder'
  BY <1>2, <1>3, <1>5 DEF InOrder, RingOK, JointOK, QueueOK
<1> QED
  BY <1>4, <1>6 DEF Inv

\* The level and the blocks after such a step
LEMMA StillSame ==
    ASSUME Still
    PROVE  Level' = Level /\ Queued(1)' = Queued(1)
BY DEF Still, Level, Queued

\* The first block in the queue
LEMMA BlockIs ==
    ASSUME TypeInv, task.datafifo # <<>>
    PROVE  /\ Block = task.datafifo[1] /\ Block \in Bufs /\ 1 \in DOMAIN task.datafifo
           /\ Len(task.datafifo) \in Nat \ {0}
           /\ task.mem[Block] = Queued(1) /\ Queued(1) \in Seq(1 .. MaxUnits) /\ Len(Queued(1)) \in Nat
<1>1. task.datafifo \in Seq(Bufs) /\ task.mem \in [Bufs -> Seq(1 .. MaxUnits)]
  BY TaskType
<1>2. Block = task.datafifo[1] /\ Block \in Bufs /\ 1 \in DOMAIN task.datafifo /\ Len(task.datafifo) \in Nat \ {0}
  BY <1>1 DEF Block
<1> QED
  BY <1>1, <1>2 DEF Queued

\* Max and Min of two numbers
LEMMA MaxTwo == ASSUME NEW a \in Int, NEW b \in Int PROVE Max({a, b}) = IF a >= b THEN a ELSE b
<1>1. \A x \in {a, b} : (\A y \in {a, b} : x >= y) <=> x = IF a >= b THEN a ELSE b
  OBVIOUS
<1>2. (IF a >= b THEN a ELSE b) \in {a, b}
  OBVIOUS
<1> QED
  BY <1>1, <1>2 DEF Max

\* The smaller of two
LEMMA MinTwo == ASSUME NEW a \in Int, NEW b \in Int PROVE Min({a, b}) = IF a <= b THEN a ELSE b
<1>1. \A x \in {a, b} : (\A y \in {a, b} : x =< y) <=> x = IF a <= b THEN a ELSE b
  OBVIOUS
<1>2. (IF a <= b THEN a ELSE b) \in {a, b}
  OBVIOUS
<1> QED
  BY <1>1, <1>2 DEF Min

\* The mutex is taken for a write.
LEMMA WriteBeginOK ==
    ASSUME Inv, NEW n \in WriteSizes, WriteBegin(n)
    PROVE  Inv'
<1> USE DEF actors, ghosts, bounds
<1>1. TypeInv /\ LockOK /\ FifosOK /\ LengthOK /\ ParserOK /\ CountsOK /\ WorkLen
  BY LengthParts DEF Inv
<1>2. /\ app.pc = "idle" /\ task.mutex = "none" /\ sent + n <= MaxUnits /\ n \in Nat
      /\ app' = [pc |-> "write", left |-> n, off |-> 0]
      /\ UNCHANGED <<stbuf, parser, work, dec, sent, read, mode, fails, opens>>
  BY BoundAssumption DEF WriteBegin
<1>3. MutexOnly /\ task'.mutex = "app"
  BY <1>1, MutexStep DEF WriteBegin
<1>4. app.off = 0 /\ work.pc = "idle"
  BY <1>1, <1>2, ActorType DEF LockOK
<1>5. Still /\ Copied' = Copied /\ Level' = Level
  BY <1>2, <1>3, <1>4, StillSame DEF Still, MutexOnly, Copied
<1>6. TypeInv' /\ LockOK'
  <2>1. TypeInv'
    BY <1>1, <1>2, <1>3 DEF TypeInv, TypeOK, MutexOnly
  <2> QED
    BY <2>1, <1>1, <1>2, <1>3, <1>4, ActorType DEF LockOK
<1>7. FifosOK' /\ ParserOK'
  BY <1>1, <1>2, <1>3 DEF FifosOK, ParserOK, MutexOnly
<1>8. WorkLen'
  BY <1>2, <1>4 DEF WorkLen, Takes
<1>9. CountsOK'
  BY <1>1, <1>2, <1>3, <1>5 DEF CountsOK, MutexOnly
<1> QED
  BY <1>5, <1>6, <1>7, <1>8, <1>9, StillOK

\* The end of a write
LEMMA WriteEndOK ==
    ASSUME Inv, WriteEnd
    PROVE  Inv'
<1> USE DEF actors, ghosts, bounds
<1>1. TypeInv /\ LockOK /\ FifosOK /\ LengthOK /\ ParserOK /\ CountsOK /\ WorkLen
  BY LengthParts DEF Inv
<1>2. /\ app.pc = "write" /\ sent' = sent + app.off
      /\ app' = [pc |-> IF app.off = 0 THEN "again" ELSE "idle", left |-> 0, off |-> 0]
      /\ UNCHANGED <<stbuf, parser, work, dec, read, mode, fails, opens>>
  BY DEF WriteEnd
<1>3. /\ task' \in TaskRecords /\ task'.freefifo = task.freefifo /\ task'.datafifo = task.datafifo
      /\ task'.mem = task.mem /\ task'.known = task.known
      /\ task'.buffered_data_size = task.buffered_data_size + app.off
      /\ task'.data_offset = task.data_offset + app.off
      /\ task'.passed_data_len = task.passed_data_len /\ task'.mutex = "none"
  <2>1. app.off \in Nat /\ task \in TaskRecords
    BY <1>1, ActorType DEF TypeInv, TypeOK
  <2>2. task.buffered_data_size + app.off \in Int /\ task.data_offset + app.off \in Nat
    BY <1>1, <2>1, TaskType
  <2>3. task' = [task EXCEPT !.buffered_data_size = task.buffered_data_size + app.off,
                             !.data_offset = task.data_offset + app.off, !.mutex = "none"]
    BY DEF WriteEnd, Counted
  <2> QED
    BY <2>1, <2>2, <2>3 DEF TaskRecords
<1>4. work.pc = "idle"
  BY <1>1, <1>2, ActorType DEF LockOK
<1>5. Still /\ Copied' = Copied /\ Level' = Level
  <2>1. sent' + app'.off = sent + app.off
    BY <1>1, <1>2, ActorType
  <2> QED
    BY <1>2, <1>3, <1>4, <2>1, StillSame DEF Still, Copied
<1>6. TypeInv'
  BY <1>1, <1>2, <1>3, ActorType, TaskType DEF TypeInv, TypeOK
<1>7. LockOK'
  BY <1>1, <1>2, <1>3, <1>4, ActorType, BoundAssumption DEF LockOK
<1>8. FifosOK' /\ ParserOK'
  BY <1>1, <1>2, <1>3 DEF FifosOK, ParserOK
<1>9. WorkLen'
  BY <1>2, <1>4 DEF WorkLen, Takes
<1>10. CountsOK'
  BY <1>1, <1>2, <1>3, <1>5, ActorType, TaskType, SMTT(30) DEF CountsOK
<1> QED
  BY <1>5, <1>6, <1>7, <1>8, <1>9, <1>10, StillOK

\* -EAGAIN
LEMMA WriteAgainOK ==
    ASSUME Inv, WriteAgain
    PROVE  Inv'
<1> USE DEF actors, ghosts, bounds
<1>1. TypeInv /\ LockOK /\ FifosOK /\ LengthOK /\ ParserOK /\ CountsOK /\ WorkLen
  BY LengthParts DEF Inv
<1>2. /\ app.pc = "again"
      /\ app' = [app EXCEPT !.pc = "idle"]
      /\ UNCHANGED <<task, stbuf, parser, work, dec, sent, read, mode, fails, opens>>
  BY DEF WriteAgain
<1>3. app'.pc = "idle" /\ app'.left = app.left /\ app'.off = app.off
  BY <1>1, <1>2 DEF TypeInv, TypeOK
<1>4. Still /\ Copied' = Copied /\ Level' = Level /\ Queued(1)' = Queued(1)
  BY <1>2, <1>3, StillSame DEF Still, Copied
<1>5. TypeInv'
  BY <1>1, <1>2 DEF TypeInv, TypeOK
<1>6. LockOK'
  BY <1>1, <1>2, <1>3 DEF LockOK
<1>7. FifosOK' /\ ParserOK' /\ CountsOK'
  BY <1>1, <1>2, <1>4 DEF FifosOK, ParserOK, CountsOK
<1>8. WorkLen'
  BY <1>1, <1>2, <1>4 DEF WorkLen, Takes
<1> QED
  BY <1>4, <1>5, <1>6, <1>7, <1>8, StillOK

\* The sequence of a finite set
LEMMA SetToSeqIs ==
    ASSUME NEW B, IsFiniteSet(B)
    PROVE  /\ SetToSeq(B) \in Seq(B) /\ Len(SetToSeq(B)) \in Nat
           /\ \A j, k \in 1 .. Len(SetToSeq(B)) : SetToSeq(B)[j] = SetToSeq(B)[k] => j = k
           /\ \A b \in B : \E j \in 1 .. Len(SetToSeq(B)) : SetToSeq(B)[j] = b
<1>1. Cardinality(B) \in Nat /\ ExistsBijection(1 .. Cardinality(B), B)
  BY FS_CardinalityType
<1>2. PICK f : f \in Bijection(1 .. Cardinality(B), B)
  BY <1>1 DEF ExistsBijection
<1>3. f \in [1 .. Cardinality(B) -> B] /\ IsInjective(f)
  BY <1>2 DEF Bijection, Injection, IsInjective
<1>4. SetToSeq(B) \in [1 .. Cardinality(B) -> B] /\ IsInjective(SetToSeq(B))
  BY <1>3 DEF SetToSeq
<1> DEFINE s == SetToSeq(B)
<1> HIDE DEF s
<1>5. s \in [1 .. Cardinality(B) -> B] /\ IsInjective(s)
  BY <1>4 DEF s
<1>6. s \in Seq(B) /\ Len(s) = Cardinality(B) /\ Len(s) \in Nat
  BY <1>1, <1>5
<1>7. \A j, k \in 1 .. Len(s) : s[j] = s[k] => j = k
  BY <1>5, <1>6 DEF IsInjective
<1>8. \A b \in B : \E j \in 1 .. Len(s) : s[j] = b
  <2>1. s \in Injection(1 .. Cardinality(B), B)
    BY <1>5, <1>6, <1>7, Fun_IsInj
  <2>2. IsFiniteSet(1 .. Cardinality(B)) /\ Cardinality(1 .. Cardinality(B)) = Cardinality(B)
    BY <1>1, FS_Interval
  <2>3. s \in Surjection(1 .. Cardinality(B), B)
    BY <2>1, <2>2, FS_Injection
  <2> QED
    BY <1>6, <2>3, Fun_SurjectionProperties
<1> QED
  BY <1>6, <1>7, <1>8 DEF s

\* FifosOK of two fifos and the set of known blocks
Fifos(f, d, K) ==
    /\ \A j, k \in 1 .. Len(d) : d[j] = d[k] => j = k
    /\ \A j, k \in 1 .. Len(f) : f[j] = f[k] => j = k
    /\ \A j \in 1 .. Len(f), k \in 1 .. Len(d) : f[j] # d[k]
    /\ \A j \in 1 .. Len(f) : f[j] \in K
    /\ \A k \in 1 .. Len(d) : d[k] \in K
    /\ \A b \in K : (\E j \in 1 .. Len(f) : f[j] = b) \/ (\E k \in 1 .. Len(d) : d[k] = b)

\* The FIFOs, as a predicate of their values
LEMMA FifosIs == TypeInv => (FifosOK <=> Fifos(task.freefifo, task.datafifo, task.known))
<1> SUFFICES ASSUME NEW f \in Seq(Bufs), NEW d \in Seq(Bufs), NEW K \in SUBSET Bufs,
                    f = task.freefifo, d = task.datafifo, K = task.known
             PROVE  FifosOK <=> Fifos(f, d, K)
  BY TaskType
<1>1. DOMAIN f = 1 .. Len(f) /\ DOMAIN d = 1 .. Len(d)
  OBVIOUS
<1>2. \A b : b \in Range(f) <=> \E j \in 1 .. Len(f) : f[j] = b
  BY <1>1 DEF Range
<1>3. \A b : b \in Range(d) <=> \E j \in 1 .. Len(d) : d[j] = b
  BY <1>1 DEF Range
<1>4. Range(f) \cup Range(d) = K <=> /\ \A j \in 1 .. Len(f) : f[j] \in K
                                     /\ \A k \in 1 .. Len(d) : d[k] \in K
                                     /\ \A b \in K : \/ \E j \in 1 .. Len(f) : f[j] = b
                                                     \/ \E k \in 1 .. Len(d) : d[k] = b
  BY <1>2, <1>3
<1>5. FifosOK <=> /\ \A j, k \in DOMAIN d : d[j] = d[k] => j = k
                  /\ \A j, k \in DOMAIN f : f[j] = f[k] => j = k
                  /\ \A j \in DOMAIN f, k \in DOMAIN d : f[j] # d[k]
                  /\ Range(f) \cup Range(d) = K
  BY Zenon DEF FifosOK
<1>6. (\A j, k \in DOMAIN d : d[j] = d[k] => j = k) <=> (\A j, k \in 1 .. Len(d) : d[j] = d[k] => j = k)
  BY <1>1
<1>7. (\A j, k \in DOMAIN f : f[j] = f[k] => j = k) <=> (\A j, k \in 1 .. Len(f) : f[j] = f[k] => j = k)
  BY <1>1
<1>8. (\A j \in DOMAIN f, k \in DOMAIN d : f[j] # d[k])
      <=> (\A j \in 1 .. Len(f), k \in 1 .. Len(d) : f[j] # d[k])
  BY <1>1
<1> QED
  BY <1>4, <1>5, <1>6, <1>7, <1>8, Zenon DEF Fifos

\* New blocks are put behind the free ones.
LEMMA FifosMore ==
    ASSUME NEW f \in Seq(Bufs), NEW d \in Seq(Bufs), NEW K \in SUBSET Bufs, NEW B \in SUBSET Bufs,
           B \cap K = {}, Fifos(f, d, K), NEW s \in Seq(B),
           \A j, k \in 1 .. Len(s) : s[j] = s[k] => j = k,
           \A b \in B : \E j \in 1 .. Len(s) : s[j] = b
    PROVE  f \o s \in Seq(Bufs) /\ Fifos(f \o s, d, K \cup B)
<1>1. Len(f) \in Nat /\ Len(d) \in Nat /\ Len(s) \in Nat /\ s \in Seq(Bufs)
  OBVIOUS
<1>a. /\ \A j, k \in 1 .. Len(f) : f[j] = f[k] => j = k
      /\ \A j \in 1 .. Len(f) : f[j] \in K
  BY DEF Fifos
<1>b. \A j \in 1 .. Len(f), k \in 1 .. Len(d) : f[j] # d[k]
  BY DEF Fifos
<1> DEFINE g == f \o s
<1>2. g \in Seq(Bufs) /\ Len(g) = Len(f) + Len(s)
  BY <1>1
<1>3. \A j \in 1 .. Len(g) : g[j] = IF j <= Len(f) THEN f[j] ELSE s[j - Len(f)]
  BY <1>1
<1>4. \A j \in 1 .. Len(f) : g[j] = f[j] /\ j \in 1 .. Len(g)
  BY <1>1, <1>2, <1>3
<1>5. \A j \in 1 .. Len(s) : g[j + Len(f)] = s[j] /\ j + Len(f) \in 1 .. Len(g)
  BY <1>1, <1>2, <1>3
<1>6. \A j \in 1 .. Len(g) : j \in 1 .. Len(f) \/ j - Len(f) \in 1 .. Len(s)
  BY <1>1, <1>2
<1>14. \A j \in 1 .. Len(g) : j - Len(f) \in 1 .. Len(s) => g[j] = s[j - Len(f)]
  BY <1>1, <1>2, <1>3
<1> HIDE DEF g
<1>7. \A j \in 1 .. Len(s) : s[j] \in B
  OBVIOUS
<1>8. \A j, k \in 1 .. Len(g) : g[j] = g[k] => j = k
  <2> SUFFICES ASSUME NEW j \in 1 .. Len(g), NEW k \in 1 .. Len(g), g[j] = g[k] PROVE j = k
    OBVIOUS
  <2>1. CASE j <= Len(f) /\ k <= Len(f)
    <3>1. j \in 1 .. Len(f) /\ k \in 1 .. Len(f)
      BY <1>1, <1>2, <2>1
    <3> QED
      BY <1>4, <1>a, <3>1
  <2>2. CASE j > Len(f) /\ k > Len(f)
    <3>1. j - Len(f) \in 1 .. Len(s) /\ k - Len(f) \in 1 .. Len(s)
      BY <1>1, <1>2, <2>2
    <3>2. s[j - Len(f)] = s[k - Len(f)]
      BY <1>14, <3>1
    <3>3. j - Len(f) = k - Len(f)
      BY <3>1, <3>2
    <3> QED
      BY <3>3, <1>1, <1>2
  <2>3. CASE j <= Len(f) /\ k > Len(f)
    <3>0. j \in 1 .. Len(f)
      BY <1>1, <1>2, <2>3
    <3>1. g[j] \in K
      BY <1>4, <1>a, <3>0
    <3>2. g[k] = s[k - Len(f)] /\ k - Len(f) \in 1 .. Len(s)
      BY <1>1, <1>2, <1>3, <2>3, SMTT(30)
    <3> QED
      BY <3>1, <3>2, <1>7
  <2>4. CASE j > Len(f) /\ k <= Len(f)
    <3>0. k \in 1 .. Len(f)
      BY <1>1, <1>2, <2>4
    <3>1. g[k] \in K
      BY <1>4, <1>a, <3>0
    <3>2. g[j] = s[j - Len(f)] /\ j - Len(f) \in 1 .. Len(s)
      BY <1>1, <1>2, <1>3, <2>4
    <3> QED
      BY <3>1, <3>2, <1>7
  <2> QED
    BY <1>1, <1>2, <2>1, <2>2, <2>3, <2>4
<1>9. \A j \in 1 .. Len(g) : g[j] \in K \cup B /\ \A k \in 1 .. Len(d) : g[j] # d[k]
  <2> SUFFICES ASSUME NEW j \in 1 .. Len(g)
               PROVE  g[j] \in K \cup B /\ \A k \in 1 .. Len(d) : g[j] # d[k]
    OBVIOUS
  <2>1. CASE j \in 1 .. Len(f)
    BY <1>4, <1>a, <1>b, <2>1
  <2>2. CASE j - Len(f) \in 1 .. Len(s)
    <3>1. g[j] = s[j - Len(f)]
      BY <1>14, <2>2
    <3> QED
      BY <3>1, <1>7, <2>2 DEF Fifos
  <2> QED
    BY <1>6, <2>1, <2>2
<1>10. \A b \in K \cup B : (\E j \in 1 .. Len(g) : g[j] = b) \/ (\E k \in 1 .. Len(d) : d[k] = b)
  <2>1. \A b \in B : \E j \in 1 .. Len(g) : g[j] = b
    BY <1>5
  <2>2. \A b \in K : (\E j \in 1 .. Len(g) : g[j] = b) \/ (\E k \in 1 .. Len(d) : d[k] = b)
    BY <1>4 DEF Fifos
  <2> QED
    BY <2>1, <2>2
<1>11. \A j, k \in 1 .. Len(d) : d[j] = d[k] => j = k
  BY DEF Fifos
<1>12. \A k \in 1 .. Len(d) : d[k] \in K \cup B
  BY DEF Fifos
<1>13. Fifos(g, d, K \cup B)
  BY <1>8, <1>9, <1>10, <1>11, <1>12 DEF Fifos
<1> QED
  BY <1>2, <1>13 DEF g

\* More blocks
LEMMA AllocMoreOK ==
    ASSUME Inv, NEW B \in SUBSET (Bufs \ task.known), threadrw_alloc_more_buffer_size(B)
    PROVE  Inv'
<1> USE DEF actors, ghosts, bounds
<1>1. TypeInv /\ LockOK /\ FifosOK /\ LengthOK /\ ParserOK /\ CountsOK /\ WorkLen
  BY LengthParts DEF Inv
<1>2. /\ app.pc = "again" /\ mode = "parser" /\ task.mutex = "none"
      /\ task' = [task EXCEPT !.known = task.known \cup B, !.freefifo = task.freefifo \o SetToSeq(B),
                              !.failed_onmore = (B = {})]
      /\ app' = [app EXCEPT !.pc = "idle"]
      /\ UNCHANGED <<stbuf, parser, work, dec, sent, read, mode, fails, opens>>
  BY DEF threadrw_alloc_more_buffer_size
<1>3. app'.pc = "idle" /\ app'.left = app.left /\ app'.off = app.off /\ work.pc = "idle"
  BY <1>1, <1>2, ActorType DEF TypeInv, TypeOK, LockOK
<1>4. /\ task.freefifo \o SetToSeq(B) \in Seq(Bufs)
      /\ Fifos(task.freefifo \o SetToSeq(B), task.datafifo, task.known \cup B)
  <2>1. IsFiniteSet(B)
    BY SizesAssumption, FS_Subset
  <2>2. Fifos(task.freefifo, task.datafifo, task.known)
    BY <1>1, FifosIs
  <2>3. B \in SUBSET Bufs /\ B \cap task.known = {}
    OBVIOUS
  <2> QED
    BY <1>1, <2>1, <2>2, <2>3, TaskType, SetToSeqIs, FifosMore
<1>5. /\ task' \in TaskRecords /\ task'.freefifo = task.freefifo \o SetToSeq(B)
      /\ task'.datafifo = task.datafifo /\ task'.mem = task.mem /\ task'.known = task.known \cup B
      /\ task'.buffered_data_size = task.buffered_data_size /\ task'.data_offset = task.data_offset
      /\ task'.passed_data_len = task.passed_data_len /\ task'.mutex = "none"
  <2>1. task \in TaskRecords /\ task.freefifo \o SetToSeq(B) \in Seq(Bufs \cup {UserPtr})
    BY <1>1, <1>4 DEF TypeInv, TypeOK
  <2>2. task.known \cup B \in SUBSET Bufs /\ (B = {}) \in BOOLEAN
    BY <1>1, TaskType
  <2> QED
    BY <1>2, <2>1, <2>2 DEF TaskRecords
<1>6. Still /\ Copied' = Copied /\ Level' = Level /\ Queued(1)' = Queued(1)
  BY <1>2, <1>3, <1>5, StillSame DEF Still, Copied
<1>7. TypeInv'
  BY <1>1, <1>2, <1>4, <1>5 DEF TypeInv, TypeOK
<1>8. LockOK'
  BY <1>1, <1>2, <1>3, <1>5 DEF LockOK
<1>9. FifosOK'
  <2>1. TypeInv' => (FifosOK' <=> Fifos(task.freefifo, task.datafifo, task.known)')
    BY FifosIs, PTL
  <2> QED
    BY <1>4, <1>5, <1>7, <2>1
<1>10. ParserOK' /\ CountsOK'
  BY <1>1, <1>2, <1>5, <1>6 DEF ParserOK, CountsOK
<1>11. WorkLen'
  BY <1>1, <1>2, <1>3 DEF WorkLen, Takes
<1> QED
  BY <1>6, <1>7, <1>8, <1>9, <1>10, <1>11, StillOK

\* The thread takes the mutex for its block.
LEMMA WorkLockOK ==
    ASSUME Inv, WorkLock
    PROVE  Inv'
<1> USE DEF actors, ghosts, bounds
<1>1. TypeInv /\ LockOK /\ FifosOK /\ LengthOK /\ ParserOK /\ CountsOK /\ WorkLen
  BY LengthParts DEF Inv
<1>2. /\ work.pc = "idle" /\ task.mutex = "none" /\ task.datafifo # <<>>
      /\ work' = [work EXCEPT !.pc = "space"]
      /\ UNCHANGED <<stbuf, parser, app, dec, sent, read, mode, fails, opens>>
  BY DEF WorkLock
<1>3. MutexOnly /\ task'.mutex = "work"
  BY <1>1, MutexStep DEF WorkLock
<1>4. work'.pc = "space" /\ work'.len = work.len /\ work'.wp = work.wp /\ app.pc # "write"
  BY <1>1, <1>2 DEF TypeInv, TypeOK, LockOK
<1>5. Still /\ Copied' = Copied /\ Level' = Level
  BY <1>2, <1>3, <1>4, StillSame DEF Still, MutexOnly, Copied
<1>6. TypeInv'
  BY <1>1, <1>2, <1>3 DEF TypeInv, TypeOK, MutexOnly
<1>7. LockOK'
  BY <1>1, <1>2, <1>3, <1>4 DEF LockOK, MutexOnly
<1>8. FifosOK' /\ ParserOK'
  BY <1>1, <1>2, <1>3, <1>4 DEF FifosOK, ParserOK, MutexOnly
<1>9. WorkLen'
  BY <1>4 DEF WorkLen, Takes
<1>10. CountsOK'
  BY <1>1, <1>2, <1>3, <1>4, <1>5 DEF CountsOK, MutexOnly
<1> QED
  BY <1>5, <1>6, <1>7, <1>8, <1>9, <1>10, StillOK

\* The thread gives up, with nothing copied.
LEMMA GiveUpOK ==
    ASSUME Inv, GiveUp, work.pc # "idle", Copied = 0, work.pc # "level",
           parser' \in ParserRecords, parser'.hw = "idle",
           parser'.video_data_parsed = parser.video_data_parsed, fails' \in Nat,
           UNCHANGED <<stbuf, app, dec, sent, read, mode, opens>>
    PROVE  Inv'
<1>1. TypeInv /\ LockOK /\ FifosOK /\ LengthOK /\ ParserOK /\ CountsOK /\ WorkLen
  BY LengthParts DEF Inv
<1>2. MutexOnly /\ task'.mutex = "none"
  BY <1>1, MutexStep DEF GiveUp
<1>3. work' = Rest /\ work'.pc = "idle"
  BY DEF GiveUp, Rest
<1>4. task.mutex = "work" /\ app.pc # "write"
  BY <1>1 DEF LockOK
<1>5. Still /\ Copied' = Copied /\ Level' = Level
  BY <1>2, <1>3, StillSame DEF Still, MutexOnly, Copied
<1>6. TypeInv'
  <2>1. Rest \in [pc : {"idle", "space", "push", "start", "fetch", "level"},
                  len : 0 .. BufSize, wp : 0 .. Size - 1]
    BY SizeType DEF Rest
  <2> QED
    BY <1>1, <1>2, <1>3, <2>1 DEF TypeInv, TypeOK, MutexOnly
<1>7. LockOK'
  BY <1>1, <1>2, <1>3, <1>4 DEF LockOK, MutexOnly
<1>8. FifosOK' /\ ParserOK'
  BY <1>1, <1>2, <1>3, <1>4 DEF FifosOK, ParserOK, MutexOnly
<1>9. WorkLen'
  BY <1>3 DEF WorkLen, Takes
<1>10. CountsOK'
  BY <1>1, <1>2, <1>3, <1>5 DEF CountsOK, MutexOnly
<1> QED
  BY <1>5, <1>6, <1>7, <1>8, <1>9, <1>10, StillOK

\* The thread goes on; nothing that counts as copied changes.
LEMMA WorkStepOK ==
    ASSUME Inv, work.pc # "idle", work'.pc # "idle", Copied' = Copied,
           work' \in [pc : {"idle", "space", "push", "start", "fetch", "level"},
                      len : 0 .. BufSize, wp : 0 .. Size - 1],
           parser' \in ParserRecords, fails' \in Nat, ParserOK', WorkLen',
           mode = "parser" => parser'.video_data_parsed = task.passed_data_len
                                + (IF work'.pc = "level" THEN work'.len ELSE 0),
           UNCHANGED <<task, stbuf, app, dec, sent, read, mode, opens>>
    PROVE  Inv'
<1>1. TypeInv /\ LockOK /\ FifosOK /\ LengthOK /\ ParserOK /\ CountsOK /\ WorkLen
  BY LengthParts DEF Inv
<1>2. Still /\ Level' = Level
  BY StillSame DEF Still
<1>3. TypeInv'
  BY <1>1 DEF TypeInv, TypeOK
<1>4. LockOK' /\ FifosOK'
  BY <1>1 DEF LockOK, FifosOK
<1>5. CountsOK'
  BY <1>1, <1>2 DEF CountsOK
<1> QED
  BY <1>2, <1>3, <1>4, <1>5, StillOK

\* The length is decided on.
LEMMA WriteExOK ==
    ASSUME Inv, write_ex
    PROVE  Inv'
<1> USE DEF actors, ghosts, bounds
<1>1. TypeInv /\ LockOK /\ FifosOK /\ LengthOK /\ ParserOK /\ CountsOK /\ WorkLen /\ QueueOK /\ TypeOK
  BY LengthParts, InOrderParts DEF Inv, TypeInv
<1> DEFINE count == Len(task.mem[Block])
<1>2. /\ work.pc = "space"
      /\ UNCHANGED <<stbuf, parser, app, dec, sent, read, mode, fails, opens>>
      /\ Copied = 0 /\ parser.hw = "idle" /\ parser \in ParserRecords /\ fails \in Nat
  <2>1. work.pc = "space" /\ UNCHANGED <<stbuf, parser, app, dec, sent, read, mode, fails, opens>>
    BY DEF write_ex
  <2> QED
    BY <1>1, <2>1 DEF Copied, ParserOK, TypeInv, TypeOK
<1>3. CASE stbuf_space < count /\ stbuf_space < MinWrite
  <2>1. GiveUp
    BY <1>3 DEF write_ex
  <2> QED
    BY <1>2, <2>1, GiveUpOK
<1>4. CASE ~(stbuf_space < count /\ stbuf_space < MinWrite)
  <2>1. /\ work' = [pc |-> IF mode = "ring" THEN "push" ELSE "start",
                    len |-> Min({stbuf_space, count}), wp |-> stbuf.buf_wp]
        /\ task' = task
    BY <1>4 DEF write_ex
  <2>2. count = Len(Queued(1)) /\ count \in Nat /\ count <= BufSize /\ count # 0
    <3>1. /\ 1 \in DOMAIN task.datafifo /\ task.mem[Block] = Queued(1)
          /\ Queued(1) \in Seq(1 .. MaxUnits)
      BY <1>1, <1>2, BlockIs DEF LockOK
    <3>2. Queued(1) # <<>> /\ Len(Queued(1)) <= BufSize
      BY <1>1, <3>1 DEF QueueOK, LengthOK
    <3> QED
      BY <3>1, <3>2
  <2> HIDE DEF count
  <2>3. Level \in 0 .. Size - 1 /\ stbuf.buf_wp \in 0 .. Size - 1
    BY <1>1, LevelIs, StbufType
  <2>4. stbuf_space = IF 0 >= Size - Level - Reserve THEN 0 ELSE Size - Level - Reserve
    <3>1. Size - Level - Reserve \in Int
      BY <2>3, SizeType
    <3> QED
      BY <3>1, MaxTwo DEF stbuf_space
  <2>5. stbuf_space \in Int
    BY <2>3, <2>4, SizeType
  <2>6. Min({stbuf_space, count}) = IF stbuf_space <= count THEN stbuf_space ELSE count
    BY <2>2, <2>5, MinTwo
  <2>7. /\ work'.len \in 1 .. count /\ work'.len + Level + Reserve <= Size
        /\ work'.pc = (IF mode = "ring" THEN "push" ELSE "start")
        /\ work'.wp \in 0 .. Size - 1
    <3>1. /\ work'.len = Min({stbuf_space, count})
          /\ work'.pc = (IF mode = "ring" THEN "push" ELSE "start")
          /\ work'.wp = stbuf.buf_wp
      BY <2>1
    <3> QED
      BY <3>1, <1>4, <2>2, <2>3, <2>4, <2>6, SizeType
  <2>8. work' \in [pc : {"idle", "space", "push", "start", "fetch", "level"},
                   len : 0 .. BufSize, wp : 0 .. Size - 1]
    <3>1. work'.len \in 0 .. BufSize
      BY <2>2, <2>7, SizeType
    <3> QED
      BY <2>1, <2>7, <3>1
  <2>9. Queued(1)' = Queued(1) /\ Level' = Level
    BY <1>2, <2>1 DEF Queued, Level
  <2>10. WorkLen' /\ Copied' = 0
    BY <1>2, <2>2, <2>7, <2>9 DEF WorkLen, Takes, Copied
  <2>11. mode \in {"ring", "parser"}
    BY <1>1, BoundAssumption DEF TypeOK
  <2>12. ParserOK'
    BY <1>1, <1>2, <2>7, <2>11 DEF ParserOK
  <2>13. mode = "parser" => parser'.video_data_parsed = task.passed_data_len
                                + (IF work'.pc = "level" THEN work'.len ELSE 0)
    BY <1>1, <1>2, <2>7 DEF CountsOK
  <2> QED
    BY <1>2, <2>1, <2>7, <2>8, <2>10, <2>12, <2>13, WorkStepOK
<1> QED
  BY <1>3, <1>4

\* The ring or the block cannot be mapped.
LEMMA CopyUnmappedOK ==
    ASSUME Inv, CopyUnmapped
    PROVE  Inv'
<1> USE DEF ghosts
<1>1. TypeInv /\ ParserOK
  BY DEF Inv
<1>2. /\ work.pc = "push" /\ GiveUp /\ fails' = fails + 1
      /\ UNCHANGED <<stbuf, parser, app, dec, sent, read, mode, opens>>
  BY DEF CopyUnmapped
<1>3. /\ Copied = 0 /\ parser'.hw = "idle" /\ parser' \in ParserRecords /\ fails' \in Nat
      /\ parser'.video_data_parsed = parser.video_data_parsed
  BY <1>1, <1>2 DEF Copied, ParserOK, TypeInv, TypeOK
<1> QED
  BY <1>2, <1>3, GiveUpOK

\* The parser is told to fetch.
LEMMA FetchStartOK ==
    ASSUME Inv, FetchStart
    PROVE  Inv'
<1> USE DEF ghosts, bounds
<1>1. TypeInv /\ ParserOK /\ CountsOK /\ WorkLen /\ TypeOK
  BY LengthParts DEF Inv, TypeInv
<1>2. /\ work.pc = "start" /\ parser' = [parser EXCEPT !.search_done = FALSE, !.hw = "fetching"]
      /\ work' = [work EXCEPT !.pc = "fetch", !.wp = stbuf.buf_wp]
      /\ UNCHANGED <<task, stbuf, app, dec, sent, read, mode, fails, opens>>
  BY DEF FetchStart
<1>3. /\ parser' \in ParserRecords /\ parser'.search_done = FALSE /\ parser'.hw = "fetching"
      /\ parser'.video_data_parsed = parser.video_data_parsed
  BY <1>1, <1>2 DEF TypeOK, ParserRecords
<1>4. /\ work'.pc = "fetch" /\ work'.len = work.len /\ work'.wp = stbuf.buf_wp
      /\ work' \in [pc : {"idle", "space", "push", "start", "fetch", "level"},
                    len : 0 .. BufSize, wp : 0 .. Size - 1]
  BY <1>1, <1>2, StbufType DEF TypeOK
<1>5. Copied = 0 /\ Copied' = 0 /\ Queued(1)' = Queued(1) /\ Level' = Level
  BY <1>2, <1>3, <1>4 DEF Copied, Queued, Level
<1>6. WorkLen'
  BY <1>1, <1>2, <1>4, <1>5 DEF WorkLen, Takes
<1>7. ParserOK'
  BY <1>1, <1>2, <1>3, <1>4 DEF ParserOK
<1>8. mode = "parser" => parser'.video_data_parsed = task.passed_data_len
                           + (IF work'.pc = "level" THEN work'.len ELSE 0)
  BY <1>1, <1>2, <1>3, <1>4 DEF CountsOK
<1>9. fails' \in Nat
  BY <1>1, <1>2 DEF TypeInv
<1> QED
  BY <1>2, <1>3, <1>4, <1>5, <1>6, <1>7, <1>8, <1>9, WorkStepOK

\* The interrupt
LEMMA EsparserIsrOK ==
    ASSUME Inv, esparser_isr
    PROVE  Inv'
<1> USE DEF actors, ghosts, bounds
<1>1. TypeInv /\ ParserOK /\ CountsOK /\ WorkLen /\ TypeOK
  BY LengthParts DEF Inv, TypeInv
<1>2. /\ parser.hw = "fetched" /\ parser' = [parser EXCEPT !.search_done = TRUE, !.hw = "idle"]
      /\ UNCHANGED <<work, task, stbuf, app, dec, sent, read, mode, fails, opens>>
  BY DEF esparser_isr
<1>3. /\ parser' \in ParserRecords /\ parser'.search_done = TRUE /\ parser'.hw = "idle"
      /\ parser'.video_data_parsed = parser.video_data_parsed
  BY <1>1, <1>2 DEF TypeOK, ParserRecords
<1>4. work.pc = "fetch"
  BY <1>1, <1>2 DEF ParserOK
<1>5. Copied' = Copied /\ Queued(1)' = Queued(1) /\ Level' = Level
  BY <1>2, <1>3, <1>4 DEF Copied, Queued, Level
<1>6. WorkLen'
  BY <1>1, <1>2, <1>3, <1>4, <1>5 DEF WorkLen, Takes
<1>7. ParserOK'
  BY <1>1, <1>2, <1>3, <1>4 DEF ParserOK
<1>8. mode = "parser" => parser'.video_data_parsed = task.passed_data_len
                           + (IF work'.pc = "level" THEN work'.len ELSE 0)
  BY <1>1, <1>2, <1>3, <1>4 DEF CountsOK
<1>9. fails' \in Nat /\ work' \in [pc : {"idle", "space", "push", "start", "fetch", "level"},
                                   len : 0 .. BufSize, wp : 0 .. Size - 1]
  BY <1>1, <1>2 DEF TypeInv, TypeOK
<1> QED
  BY <1>2, <1>3, <1>4, <1>5, <1>6, <1>7, <1>8, <1>9, WorkStepOK

\* The block counts as parsed.
LEMMA ParsedOK ==
    ASSUME Inv, Parsed(parser), work.pc = "fetch", parser.hw # "fetching", fails' \in Nat,
           UNCHANGED <<task, stbuf, app, dec, sent, read, mode, opens>>
    PROVE  Inv'
<1>1. TypeInv /\ ParserOK /\ CountsOK /\ WorkLen /\ TypeOK
  BY LengthParts DEF Inv, TypeInv
<1>2. work.len \in Nat /\ parser.video_data_parsed \in Nat /\ parser \in ParserRecords
  BY <1>1, ActorType, SizeType DEF TypeOK
<1>3. /\ parser' \in ParserRecords /\ parser'.hw = "idle"
      /\ parser'.video_data_parsed = parser.video_data_parsed + work.len
  <2>1. parser' = [parser EXCEPT !.video_data_parsed = parser.video_data_parsed + work.len, !.hw = "idle"]
    BY DEF Parsed
  <2>2. parser.video_data_parsed + work.len \in Nat
    BY <1>2
  <2> QED
    BY <1>2, <2>1, <2>2 DEF ParserRecords
<1>4. /\ work'.pc = "level" /\ work'.len = work.len
      /\ work' \in [pc : {"idle", "space", "push", "start", "fetch", "level"},
                    len : 0 .. BufSize, wp : 0 .. Size - 1]
  BY <1>1 DEF TypeOK, Parsed
<1>5. Copied' = Copied /\ Queued(1)' = Queued(1) /\ Level' = Level
  BY <1>3, <1>4 DEF Copied, Queued, Level
<1>6. WorkLen'
  BY <1>1, <1>4, <1>5 DEF WorkLen, Takes
<1>7. ParserOK'
  BY <1>1, <1>3, <1>4 DEF ParserOK
<1>8. mode = "parser" => parser'.video_data_parsed = task.passed_data_len
                           + (IF work'.pc = "level" THEN work'.len ELSE 0)
  BY <1>1, <1>2, <1>3, <1>4, TaskType DEF CountsOK
<1> QED
  BY <1>3, <1>4, <1>5, <1>6, <1>7, <1>8, WorkStepOK

\* The end of a fetch
LEMMA FetchEndOK ==
    ASSUME Inv, FetchEnd
    PROVE  Inv'
<1> USE DEF ghosts, bounds
<1>1. TypeInv /\ ParserOK
  BY DEF Inv
<1>2. /\ work.pc = "fetch" /\ parser.search_done /\ Parsed(parser)
      /\ UNCHANGED <<task, stbuf, app, dec, sent, read, mode, opens, fails>>
  BY DEF FetchEnd
<1>3. parser.hw = "idle" /\ fails' \in Nat
  BY <1>1, <1>2 DEF ParserOK, TypeInv
<1> QED
  BY <1>2, <1>3, ParsedOK

\* The fetch took too long; the write pointer tells whether the data are there.
LEMMA FetchTimeoutOK ==
    ASSUME Inv, FetchTimeout
    PROVE  Inv'
<1> USE DEF ghosts
<1>1. TypeInv /\ ParserOK /\ TypeOK
  BY DEF Inv, TypeInv
<1>2. /\ work.pc = "fetch" /\ fails' = fails + 1
      /\ UNCHANGED <<stbuf, app, dec, sent, read, mode, opens>>
  BY DEF FetchTimeout
<1>3. fails' \in Nat
  BY <1>1, <1>2 DEF TypeInv
<1>4. CASE Fetched
  <2>1. Parsed(parser) /\ task' = task
    BY <1>4 DEF FetchTimeout
  <2>2. parser.hw # "fetching"
    BY <1>1, <1>2, <1>4 DEF ParserOK, Fetched
  <2> QED
    BY <1>2, <1>3, <2>1, <2>2, ParsedOK
<1>5. CASE ~Fetched
  <2>1. GiveUp /\ parser' = [parser EXCEPT !.hw = "idle"]
    BY <1>5 DEF FetchTimeout
  <2>2. parser.hw = "fetching"
    BY <1>1, <1>2, <1>5 DEF ParserOK, Fetched
  <2>3. /\ Copied = 0 /\ parser'.hw = "idle" /\ parser' \in ParserRecords
        /\ parser'.video_data_parsed = parser.video_data_parsed
    BY <1>1, <1>2, <2>1, <2>2 DEF Copied, TypeOK, ParserRecords
  <2> QED
    BY <1>2, <1>3, <2>1, <2>3, GiveUpOK
<1> QED
  BY <1>4, <1>5

\* The last line of stream_buffer_set_rp
LEMMA SubPayloadOK ==
    ASSUME Inv, SubPayload
    PROVE  Inv'
<1> USE DEF ghosts, bounds
<1>1. TypeInv /\ LockOK /\ FifosOK /\ ParserOK /\ CountsOK /\ WorkLen /\ TypeOK
  BY LengthParts DEF Inv, TypeInv
<1>2. /\ dec = "sub" /\ dec' = "idle" /\ stbuf' = [stbuf EXCEPT !.payload = @ - 1]
      /\ UNCHANGED <<task, parser, app, work, sent, read, mode, fails, opens>>
  BY DEF SubPayload
<1>3. /\ stbuf' \in StbufRecords /\ stbuf'.payload = stbuf.payload - 1
      /\ stbuf'.stream_offset = stbuf.stream_offset /\ stbuf'.ring = stbuf.ring
      /\ stbuf'.buf_wp = stbuf.buf_wp /\ stbuf'.buf_rp = stbuf.buf_rp
  <2>1. stbuf \in StbufRecords /\ stbuf.payload - 1 \in Int
    BY <1>1, StbufType DEF TypeOK
  <2> QED
    BY <1>2, <2>1 DEF StbufRecords
<1>4. Still /\ Copied' = Copied /\ Level' = Level /\ Queued(1)' = Queued(1)
  BY <1>2, <1>3, StillSame DEF Still, Copied
<1>5. TypeInv' /\ LockOK' /\ FifosOK'
  BY <1>1, <1>2, <1>3 DEF TypeInv, TypeOK, LockOK, FifosOK
<1>6. ParserOK' /\ WorkLen'
  BY <1>1, <1>2, <1>3, <1>4 DEF ParserOK, WorkLen, Takes
<1>7. CountsOK'
  <2>1. Level \in Nat
    BY <1>1, LevelIs, SizeType
  <2> QED
    BY <1>1, <1>2, <1>3, <1>4, <2>1, StbufType DEF CountsOK
<1> QED
  BY <1>4, <1>5, <1>6, <1>7, StillOK
-----------------------------------------------------------------------------
(* The queue of blocks *)

\* FirstUnit and QueueOK of a fifo, the blocks' units, and the unit that is put in next
First(d, mem, u, k) == IF k > Len(d) THEN u ELSE mem[d[k]][1]
Queue(d, mem, u) == \A k \in 1 .. Len(d) :
    /\ Len(mem[d[k]]) \in 1 .. BufSize
    /\ \A i \in 1 .. Len(mem[d[k]]) : mem[d[k]][i] = First(d, mem, u, k) + i - 1
    /\ First(d, mem, u, k + 1) = First(d, mem, u, k) + Len(mem[d[k]])

Units == [Bufs -> Seq(1 .. MaxUnits)]
Unit == sent + app.off + 1
Short == \A k \in DOMAIN task.datafifo : Len(Queued(k)) <= BufSize

\* The data FIFO, as a predicate of its values
LEMMA QueueIs ==
    TypeInv => /\ QueueOK /\ Short <=> Queue(task.datafifo, task.mem, Unit)
               /\ \A k : FirstUnit(k) = First(task.datafifo, task.mem, Unit, k)
<1> SUFFICES ASSUME NEW d \in Seq(Bufs), NEW mem \in Units, d = task.datafifo, mem = task.mem
             PROVE  /\ QueueOK /\ Short <=> Queue(d, mem, Unit)
                    /\ \A k : FirstUnit(k) = First(d, mem, Unit, k)
  BY TaskType DEF Units
<1>1. \A k : FirstUnit(k) = First(d, mem, Unit, k) /\ Queued(k) = mem[d[k]]
  BY DEF FirstUnit, First, Unit, Queued
<1>2. DOMAIN d = 1 .. Len(d) /\ \A k \in 1 .. Len(d) : mem[d[k]] \in Seq(1 .. MaxUnits)
  BY DEF Units
<1>3. \A s \in Seq(1 .. MaxUnits) : /\ DOMAIN s = 1 .. Len(s)
                                    /\ s # <<>> /\ Len(s) <= BufSize <=> Len(s) \in 1 .. BufSize
  BY SizeType
<1>4. QueueOK /\ Short <=>
        \A k \in 1 .. Len(d) : /\ mem[d[k]] # <<>> /\ Len(mem[d[k]]) <= BufSize
                               /\ \A i \in DOMAIN mem[d[k]] : mem[d[k]][i] = First(d, mem, Unit, k) + i - 1
                               /\ First(d, mem, Unit, k + 1) = First(d, mem, Unit, k) + Len(mem[d[k]])
  BY <1>1, <1>2, ZenonT(30) DEF QueueOK, Short
<1>5. \A k \in 1 .. Len(d) : /\ DOMAIN mem[d[k]] = 1 .. Len(mem[d[k]])
                             /\ mem[d[k]] # <<>> /\ Len(mem[d[k]]) <= BufSize
                                <=> Len(mem[d[k]]) \in 1 .. BufSize
  BY <1>2, <1>3, Zenon
<1>6. \A k \in 1 .. Len(d) :
        (\A i \in DOMAIN mem[d[k]] : mem[d[k]][i] = First(d, mem, Unit, k) + i - 1)
        <=> (\A i \in 1 .. Len(mem[d[k]]) : mem[d[k]][i] = First(d, mem, Unit, k) + i - 1)
  BY <1>5, Zenon
<1>7. QueueOK /\ Short <=> Queue(d, mem, Unit)
  BY <1>4, <1>5, <1>6, Zenon DEF Queue
<1> QED
  BY <1>1, <1>7

\* The first block has been taken.
LEMMA QueueTaken ==
    ASSUME NEW d \in Seq(Bufs), NEW mem \in Units, NEW u \in Nat, Queue(d, mem, u), d # <<>>,
           \A j, k \in 1 .. Len(d) : d[j] = d[k] => j = k,
           NEW mem2 \in Units, mem2 = [mem EXCEPT ![d[1]] = <<>>]
    PROVE  /\ Queue(Tail(d), mem2, u)
           /\ First(Tail(d), mem2, u, 1) = First(d, mem, u, 1) + Len(mem[d[1]])
<1>1. Len(d) \in Nat \ {0} /\ \A k \in 1 .. Len(d) : d[k] \in Bufs
  OBVIOUS
<1> DEFINE e == Tail(d)
<1>2. e \in Seq(Bufs) /\ Len(e) = Len(d) - 1 /\ \A k \in 1 .. Len(e) : e[k] = d[k + 1]
  BY <1>1
<1> HIDE DEF e
<1>3. \A k \in 1 .. Len(e) : mem2[e[k]] = mem[d[k + 1]]
  <2> SUFFICES ASSUME NEW k \in 1 .. Len(e) PROVE mem2[e[k]] = mem[d[k + 1]]
    OBVIOUS
  <2>1. k + 1 \in 1 .. Len(d) /\ k + 1 # 1 /\ 1 \in 1 .. Len(d)
    BY <1>1, <1>2
  <2>2. d[k + 1] # d[1] /\ d[k + 1] \in Bufs
    BY <1>1, <2>1
  <2> QED
    BY <1>2, <2>2 DEF Units
<1>4. \A k \in 1 .. Len(e) + 1 : First(e, mem2, u, k) = First(d, mem, u, k + 1)
  <2> SUFFICES ASSUME NEW k \in 1 .. Len(e) + 1 PROVE First(e, mem2, u, k) = First(d, mem, u, k + 1)
    OBVIOUS
  <2>1. k > Len(e) <=> k + 1 > Len(d)
    BY <1>1, <1>2
  <2>2. ~(k > Len(e)) => mem2[e[k]] = mem[d[k + 1]]
    BY <1>1, <1>2, <1>3
  <2> QED
    BY <2>1, <2>2 DEF First
<1>5. Queue(e, mem2, u)
  <2> SUFFICES ASSUME NEW k \in 1 .. Len(e)
               PROVE  /\ Len(mem2[e[k]]) \in 1 .. BufSize
                      /\ \A i \in 1 .. Len(mem2[e[k]]) : mem2[e[k]][i] = First(e, mem2, u, k) + i - 1
                      /\ First(e, mem2, u, k + 1) = First(e, mem2, u, k) + Len(mem2[e[k]])
    BY Zenon DEF Queue
  <2>1. k + 1 \in 1 .. Len(d) /\ k + 1 \in 1 .. Len(e) + 1 /\ k \in 1 .. Len(e) + 1
    BY <1>1, <1>2
  <2>2. /\ Len(mem[d[k + 1]]) \in 1 .. BufSize
        /\ \A i \in 1 .. Len(mem[d[k + 1]]) : mem[d[k + 1]][i] = First(d, mem, u, k + 1) + i - 1
        /\ First(d, mem, u, (k + 1) + 1) = First(d, mem, u, k + 1) + Len(mem[d[k + 1]])
    BY <2>1, Zenon DEF Queue
  <2>3. /\ mem2[e[k]] = mem[d[k + 1]] /\ First(e, mem2, u, k) = First(d, mem, u, k + 1)
        /\ First(e, mem2, u, k + 1) = First(d, mem, u, (k + 1) + 1)
    BY <1>3, <1>4, <2>1, Zenon
  <2> QED
    BY <2>2, <2>3, Zenon
<1>6. First(e, mem2, u, 1) = First(d, mem, u, 1) + Len(mem[d[1]])
  <2>1. 1 \in 1 .. Len(d) /\ 1 \in 1 .. Len(e) + 1 /\ 1 + 1 = 2
    BY <1>1, <1>2
  <2>2. First(d, mem, u, 1 + 1) = First(d, mem, u, 1) + Len(mem[d[1]])
    BY <2>1, Zenon DEF Queue
  <2>3. First(e, mem2, u, 1) = First(d, mem, u, 1 + 1)
    BY <1>4, <2>1, Zenon
  <2> QED
    BY <2>2, <2>3
<1> QED
  BY <1>5, <1>6 DEF e

\* What is left of a sequence
LEMMA RestType == ASSUME NEW S, NEW s \in Seq(S), NEW n \in Nat, n < Len(s)
                  PROVE  /\ SubSeq(s, n + 1, Len(s)) \in Seq(S)
                         /\ Len(SubSeq(s, n + 1, Len(s))) = Len(s) - n
                         /\ \A i \in 1 .. Len(s) - n : SubSeq(s, n + 1, Len(s))[i] = s[n + i]
OBVIOUS

\* Part of the first block has been taken.
LEMMA QueuePart ==
    ASSUME NEW d \in Seq(Bufs), NEW mem \in Units, NEW u \in Nat, Queue(d, mem, u), d # <<>>,
           \A j, k \in 1 .. Len(d) : d[j] = d[k] => j = k,
           NEW n \in Nat \ {0}, n < Len(mem[d[1]]),
           NEW mem2 \in Units, \A c \in Bufs : c # d[1] => mem2[c] = mem[c],
           mem2[d[1]] = SubSeq(mem[d[1]], n + 1, Len(mem[d[1]]))
    PROVE  /\ Queue(d, mem2, u)
           /\ First(d, mem2, u, 1) = First(d, mem, u, 1) + n
<1>1. /\ Len(d) \in Nat \ {0} /\ 1 \in 1 .. Len(d) /\ d[1] \in Bufs
      /\ mem[d[1]] \in Seq(1 .. MaxUnits) /\ Len(mem[d[1]]) \in Nat
      /\ \A k \in 1 .. Len(d) : d[k] \in Bufs
  BY DEF Units
<1> DEFINE s == mem[d[1]]
           t == mem2[d[1]]
<1>2. t = SubSeq(s, n + 1, Len(s))
  BY <1>1 DEF Units
<1>3. s \in Seq(1 .. MaxUnits) /\ Len(s) \in Nat /\ n < Len(s)
  BY <1>1
<1>4. /\ Len(s) <= BufSize /\ \A i \in 1 .. Len(s) : s[i] = First(d, mem, u, 1) + i - 1
      /\ First(d, mem, u, 2) = First(d, mem, u, 1) + Len(s)
  <2>1. 1 + 1 = 2 /\ \A x : x \in 1 .. BufSize => x <= BufSize
    BY SizeType
  <2> QED
    BY <1>1, <2>1, Zenon DEF Queue
<1>5. First(d, mem, u, 1) = s[1] /\ s[1] \in Nat
  <2>1. ~(1 > Len(d))
    BY <1>1
  <2> QED
    BY <1>3, <2>1, BoundAssumption DEF First
<1>6. First(d, mem2, u, 1) = t[1]
  BY <1>1 DEF First
<1> HIDE DEF s, t
<1>7. Len(t) = Len(s) - n /\ \A i \in 1 .. Len(t) : t[i] = s[n + i]
  BY <1>2, <1>3, RestType
<1>8. \A i \in 1 .. Len(t) : t[i] = First(d, mem, u, 1) + n + i - 1
  <2> SUFFICES ASSUME NEW i \in 1 .. Len(t) PROVE t[i] = First(d, mem, u, 1) + n + i - 1
    OBVIOUS
  <2>1. n + i \in 1 .. Len(s)
    BY <1>3, <1>7
  <2>2. s[n + i] = First(d, mem, u, 1) + (n + i) - 1
    BY <1>4, <2>1
  <2> QED
    BY <1>5, <1>7, <2>2
<1>9. t[1] = First(d, mem, u, 1) + n
  <2>1. 1 \in 1 .. Len(t)
    BY <1>3, <1>7
  <2> QED
    BY <1>5, <1>8, <2>1
<1>10. \A k \in 2 .. Len(d) : mem2[d[k]] = mem[d[k]]
  <2> SUFFICES ASSUME NEW k \in 2 .. Len(d) PROVE mem2[d[k]] = mem[d[k]]
    OBVIOUS
  <2>1. k \in 1 .. Len(d) /\ k # 1
    BY <1>1
  <2>2. d[k] # d[1] /\ d[k] \in Bufs
    BY <1>1, <2>1
  <2> QED
    BY <2>2 DEF Units
<1>11. \A k \in 2 .. Len(d) + 1 : First(d, mem2, u, k) = First(d, mem, u, k)
  BY <1>1, <1>10 DEF First
<1>12. Queue(d, mem2, u)
  <2> SUFFICES ASSUME NEW k \in 1 .. Len(d)
               PROVE  /\ Len(mem2[d[k]]) \in 1 .. BufSize
                      /\ \A i \in 1 .. Len(mem2[d[k]]) : mem2[d[k]][i] = First(d, mem2, u, k) + i - 1
                      /\ First(d, mem2, u, k + 1) = First(d, mem2, u, k) + Len(mem2[d[k]])
    BY Zenon DEF Queue
  <2>1. CASE k = 1
    <3>1. mem2[d[1]] = t
      BY DEF t
    <3>2. Len(t) \in 1 .. BufSize
      BY <1>3, <1>4, <1>7, SizeType
    <3>3. 2 \in 2 .. Len(d) + 1
      BY <1>1
    <3>4. First(d, mem2, u, 2) = First(d, mem, u, 1) + Len(s)
      BY <1>4, <1>11, <3>3
    <3>5. First(d, mem2, u, 2) = First(d, mem2, u, 1) + Len(t)
      BY <1>3, <1>5, <1>6, <1>7, <1>9, <3>4
    <3>6. First(d, mem2, u, 1) = First(d, mem, u, 1) + n
      BY <1>6, <1>9
    <3>7. \A i \in 1 .. Len(t) : t[i] = First(d, mem2, u, 1) + i - 1
      BY <1>8, <3>6
    <3>8. First(d, mem2, u, 1 + 1) = First(d, mem2, u, 1) + Len(t)
      BY <3>5
    <3> QED
      BY <2>1, <3>1, <3>2, <3>7, <3>8, Zenon
  <2>2. CASE k # 1
    <3>1. k \in 2 .. Len(d) /\ k \in 2 .. Len(d) + 1 /\ k + 1 \in 2 .. Len(d) + 1
      BY <1>1, <2>2
    <3>2. /\ mem2[d[k]] = mem[d[k]] /\ First(d, mem2, u, k) = First(d, mem, u, k)
          /\ First(d, mem2, u, k + 1) = First(d, mem, u, k + 1)
      BY <1>10, <1>11, <3>1, Zenon
    <3>3. /\ Len(mem[d[k]]) \in 1 .. BufSize
          /\ \A i \in 1 .. Len(mem[d[k]]) : mem[d[k]][i] = First(d, mem, u, k) + i - 1
          /\ First(d, mem, u, k + 1) = First(d, mem, u, k) + Len(mem[d[k]])
      BY DEF Queue
    <3> QED
      BY <3>2, <3>3, Zenon
  <2> QED
    BY <2>1, <2>2
<1> QED
  BY <1>6, <1>9, <1>12

\* A block is put in.
Filled(d, mem, u, b, mem2, v) ==
    /\ d \in Seq(Bufs) /\ mem \in Units /\ u \in Nat /\ b \in Bufs /\ mem2 \in Units /\ v \in Nat
    /\ Queue(d, mem, u) /\ \A k \in 1 .. Len(d) : d[k] # b
    /\ \A c \in Bufs : c # b => mem2[c] = mem[c]
    /\ Len(mem2[b]) \in 1 .. BufSize /\ \A i \in 1 .. Len(mem2[b]) : mem2[b][i] = u + i - 1
    /\ v = u + Len(mem2[b])

\* A filled block goes to the end of the data FIFO.
LEMMA QueueMore ==
    ASSUME NEW d, NEW mem, NEW u, NEW b, NEW mem2, NEW v, Filled(d, mem, u, b, mem2, v)
    PROVE  /\ Queue(Append(d, b), mem2, v)
           /\ First(Append(d, b), mem2, v, 1) = First(d, mem, u, 1)
<1> SUFFICES ASSUME d \in Seq(Bufs), mem \in Units, u \in Nat, Queue(d, mem, u),
                    b \in Bufs, \A k \in 1 .. Len(d) : d[k] # b,
                    mem2 \in Units, \A c \in Bufs : c # b => mem2[c] = mem[c],
                    Len(mem2[b]) \in 1 .. BufSize, \A i \in 1 .. Len(mem2[b]) : mem2[b][i] = u + i - 1,
                    v \in Nat, v = u + Len(mem2[b])
             PROVE  /\ Queue(Append(d, b), mem2, v)
                    /\ First(Append(d, b), mem2, v, 1) = First(d, mem, u, 1)
  BY DEF Filled
<1>1. Len(d) \in Nat /\ \A k \in 1 .. Len(d) : d[k] \in Bufs
  OBVIOUS
<1>a. PICK s \in Seq(1 .. MaxUnits) : s = mem2[b]
  BY DEF Units
<1>b. Len(s) \in 1 .. BufSize /\ (\A i \in 1 .. Len(s) : s[i] = u + i - 1) /\ v = u + Len(s)
  BY <1>a
<1> DEFINE e == Append(d, b)
<1>2. e \in Seq(Bufs) /\ Len(e) = Len(d) + 1 /\ e[Len(d) + 1] = b /\ \A k \in 1 .. Len(d) : e[k] = d[k]
  BY <1>1
<1> HIDE DEF e
<1>4. \A k \in 1 .. Len(d) : mem2[e[k]] = mem[d[k]]
  BY <1>1, <1>2 DEF Units
<1>5. mem2[e[Len(d) + 1]] = s
  BY <1>2, <1>a
<1>6. 1 \in 1 .. Len(s) /\ s[1] = u
  <2>1. 1 \in 1 .. Len(s)
    BY <1>b, SizeType
  <2> QED
    BY <1>b, <2>1
<1>7. \A k \in 1 .. Len(d) + 1 : First(e, mem2, v, k) = First(d, mem, u, k)
  <2> SUFFICES ASSUME NEW k \in 1 .. Len(d) + 1 PROVE First(e, mem2, v, k) = First(d, mem, u, k)
    OBVIOUS
  <2>1. CASE k \in 1 .. Len(d)
    <3>1. ~(k > Len(d)) /\ ~(k > Len(e))
      BY <1>1, <1>2, <2>1
    <3> QED
      BY <1>4, <2>1, <3>1 DEF First
  <2>2. CASE k = Len(d) + 1
    <3>1. k > Len(d) /\ ~(k > Len(e))
      BY <1>1, <1>2, <2>2
    <3> QED
      BY <1>5, <1>6, <2>2, <3>1 DEF First
  <2>3. k \in 1 .. Len(d) \/ k = Len(d) + 1
    BY <1>1
  <2> QED
    BY <2>1, <2>2, <2>3
<1>8. First(e, mem2, v, Len(d) + 2) = v /\ First(d, mem, u, Len(d) + 1) = u
  BY <1>1, <1>2 DEF First
<1>9. Queue(e, mem2, v)
  <2> SUFFICES ASSUME NEW k \in 1 .. Len(e)
               PROVE  /\ Len(mem2[e[k]]) \in 1 .. BufSize
                      /\ \A i \in 1 .. Len(mem2[e[k]]) : mem2[e[k]][i] = First(e, mem2, v, k) + i - 1
                      /\ First(e, mem2, v, k + 1) = First(e, mem2, v, k) + Len(mem2[e[k]])
    BY Zenon DEF Queue
  <2>1. CASE k = Len(d) + 1
    <3>1. k + 1 = Len(d) + 2 /\ k \in 1 .. Len(d) + 1
      BY <1>1, <2>1
    <3>2. mem2[e[k]] = s /\ First(e, mem2, v, k + 1) = v /\ First(e, mem2, v, k) = u
      BY <1>5, <1>7, <1>8, <2>1, <3>1
    <3> QED
      BY <1>b, <3>2, Zenon
  <2>2. CASE k # Len(d) + 1
    <3>1. k \in 1 .. Len(d) /\ k \in 1 .. Len(d) + 1 /\ k + 1 \in 1 .. Len(d) + 1
      BY <1>1, <1>2, <2>2
    <3>2. /\ mem2[e[k]] = mem[d[k]] /\ First(e, mem2, v, k) = First(d, mem, u, k)
          /\ First(e, mem2, v, k + 1) = First(d, mem, u, k + 1)
      BY <1>4, <1>7, <3>1, Zenon
    <3>3. /\ Len(mem[d[k]]) \in 1 .. BufSize
          /\ \A i \in 1 .. Len(mem[d[k]]) : mem[d[k]][i] = First(d, mem, u, k) + i - 1
          /\ First(d, mem, u, k + 1) = First(d, mem, u, k) + Len(mem[d[k]])
      BY <3>1 DEF Queue
    <3> QED
      BY <3>2, <3>3, Zenon
  <2> QED
    BY <2>1, <2>2
<1>10. First(e, mem2, v, 1) = First(d, mem, u, 1)
  <2>1. 1 \in 1 .. Len(d) + 1
    BY <1>1
  <2> QED
    BY <1>7, <2>1
<1> QED
  BY <1>9, <1>10 DEF e

\* The first block of one fifo goes behind the other.
LEMMA FifosMove ==
    ASSUME NEW f \in Seq(Bufs), NEW d \in Seq(Bufs), NEW K \in SUBSET Bufs, Fifos(f, d, K), f # <<>>
    PROVE  Fifos(Tail(f), Append(d, f[1]), K)
<1>1. Len(f) \in Nat \ {0} /\ Len(d) \in Nat
  OBVIOUS
<1> DEFINE g == Tail(f)
           e == Append(d, f[1])
<1>2. Len(g) = Len(f) - 1 /\ \A k \in 1 .. Len(g) : g[k] = f[k + 1] /\ k + 1 \in 1 .. Len(f)
  BY <1>1
<1>3. Len(e) = Len(d) + 1 /\ e[Len(d) + 1] = f[1] /\ \A k \in 1 .. Len(d) : e[k] = d[k]
  BY <1>1
<1> HIDE DEF g, e
<1>a. /\ \A j, k \in 1 .. Len(f) : f[j] = f[k] => j = k
      /\ \A j, k \in 1 .. Len(d) : d[j] = d[k] => j = k
      /\ \A j \in 1 .. Len(f), k \in 1 .. Len(d) : f[j] # d[k]
      /\ \A j \in 1 .. Len(f) : f[j] \in K
      /\ \A j \in 1 .. Len(d) : d[j] \in K
  BY DEF Fifos
<1>4. \A k \in 1 .. Len(e) : k = Len(d) + 1 \/ k \in 1 .. Len(d)
  BY <1>1, <1>3
<1>5. 1 \in 1 .. Len(f) /\ \A k \in 1 .. Len(g) : k + 1 # 1
  BY <1>1, <1>2
<1>6. \A j, k \in 1 .. Len(g) : g[j] = g[k] => j = k
  <2> SUFFICES ASSUME NEW j \in 1 .. Len(g), NEW k \in 1 .. Len(g), g[j] = g[k] PROVE j = k
    OBVIOUS
  <2>1. j + 1 = k + 1
    BY <1>2, <1>a
  <2> QED
    BY <1>1, <1>2, <2>1
<1>7. \A j, k \in 1 .. Len(e) : e[j] = e[k] => j = k
  BY <1>3, <1>4, <1>5, <1>a
<1>8. \A j \in 1 .. Len(g), k \in 1 .. Len(e) : g[j] # e[k]
  BY <1>2, <1>3, <1>4, <1>5, <1>a
<1>9. (\A j \in 1 .. Len(g) : g[j] \in K) /\ \A k \in 1 .. Len(e) : e[k] \in K
  BY <1>2, <1>3, <1>4, <1>5, <1>a, SMTT(30)
<1>10. \A b \in K : (\E j \in 1 .. Len(g) : g[j] = b) \/ (\E k \in 1 .. Len(e) : e[k] = b)
  <2> SUFFICES ASSUME NEW b \in K
               PROVE  (\E j \in 1 .. Len(g) : g[j] = b) \/ (\E k \in 1 .. Len(e) : e[k] = b)
    OBVIOUS
  <2>1. CASE \E j \in 1 .. Len(f) : f[j] = b
    <3>1. PICK j \in 1 .. Len(f) : f[j] = b
      BY <2>1
    <3>2. CASE j = 1
      <4>1. Len(d) + 1 \in 1 .. Len(e)
        BY <1>1, <1>3
      <4> QED
        BY <1>3, <3>1, <3>2, <4>1
    <3>3. CASE j # 1
      <4>1. j - 1 \in 1 .. Len(g) /\ (j - 1) + 1 = j
        BY <1>1, <1>2, <3>3
      <4> QED
        BY <1>2, <3>1, <4>1
    <3> QED
      BY <3>2, <3>3
  <2>2. CASE \E k \in 1 .. Len(d) : d[k] = b
    <3>1. PICK k \in 1 .. Len(d) : d[k] = b
      BY <2>2
    <3>2. k \in 1 .. Len(e)
      BY <1>1, <1>3
    <3> QED
      BY <1>3, <3>1, <3>2
  <2> QED
    BY <2>1, <2>2 DEF Fifos
<1>11. Fifos(g, e, K)
  BY <1>6, <1>7, <1>8, <1>9, <1>10 DEF Fifos
<1> QED
  BY <1>11 DEF g, e

\* Free and data FIFO are alike.
LEMMA FifosBoth == ASSUME NEW f, NEW d, NEW K PROVE Fifos(f, d, K) <=> Fifos(d, f, K)
BY DEF Fifos

\* The queue after n units of its first block were taken
LEMMA PassedIs ==
    ASSUME TypeInv, FifosOK, QueueOK, Short, task.datafifo # <<>>, NEW n \in 1 .. Len(Queued(1)),
           NEW t \in TaskRecords, t.mem = task.mem, t.datafifo = task.datafifo,
           t.freefifo = task.freefifo, t.known = task.known, t.passed_data_len = task.passed_data_len,
           task' = Passed(t, Block, n), Unit' = Unit, Unit \in Nat
    PROVE  /\ task' \in TaskRecords /\ task'.freefifo \in Seq(Bufs) /\ task'.known = task.known
           /\ Fifos(task'.freefifo, task'.datafifo, task'.known)
           /\ Queue(task'.datafifo, task'.mem, Unit)
           /\ First(task'.datafifo, task'.mem, Unit, 1) = FirstUnit(1) + n
           /\ task'.passed_data_len = task.passed_data_len + n
           /\ task'.buffered_data_size = t.buffered_data_size /\ task'.data_offset = t.data_offset
           /\ task'.mutex = "none"
<1>1. /\ Block = task.datafifo[1] /\ Block \in Bufs /\ 1 \in DOMAIN task.datafifo
      /\ task.mem[Block] = Queued(1) /\ Queued(1) \in Seq(1 .. MaxUnits) /\ Len(Queued(1)) \in Nat
  BY BlockIs
<1>2. PICK d \in Seq(Bufs) : d = task.datafifo
  BY TaskType
<1>3. PICK f \in Seq(Bufs) : f = task.freefifo
  BY TaskType
<1>4. PICK mem \in Units : mem = task.mem
  BY TaskType DEF Units
<1>5. PICK b \in Bufs : b = Block
  BY <1>1
<1>6. /\ d # <<>> /\ b = d[1] /\ mem[b] = Queued(1) /\ n \in Nat \ {0} /\ n <= Len(mem[b])
      /\ task.known \in SUBSET Bufs /\ task.passed_data_len \in Nat /\ n \in Nat
  BY <1>1, <1>2, <1>4, <1>5, TaskType
<1>7. Fifos(f, d, task.known) /\ \A j, k \in 1 .. Len(d) : d[j] = d[k] => j = k
  BY <1>2, <1>3, FifosIs DEF Fifos
<1>8. Queue(d, mem, Unit) /\ FirstUnit(1) = First(d, mem, Unit, 1)
  BY <1>2, <1>4, QueueIs
<1>9. CASE n >= Len(mem[b])
  <2>1. n = Len(mem[b])
    BY <1>1, <1>6, <1>9
  <2> DEFINE mem2 == [mem EXCEPT ![b] = <<>>]
  <2>2. mem2 \in Units
    BY DEF Units
  <2>3. task' = [[t EXCEPT !.passed_data_len = task.passed_data_len + n, !.mem = mem2,
                           !.datafifo = Tail(d), !.freefifo = Append(f, b)] EXCEPT !.mutex = "none"]
    <3>1. n >= Len(t.mem[Block]) /\ Len(t.mem[Block]) = n
      BY <1>4, <1>5, <1>9, <2>1
    <3> QED
      BY <1>2, <1>3, <1>4, <1>5, <3>1, Zenon DEF Passed
  <2> HIDE DEF mem2
  <2>4. Tail(d) \in Seq(Bufs) /\ Append(f, b) \in Seq(Bufs) /\ Append(f, b) \in Seq(Bufs \cup {UserPtr})
        /\ task.passed_data_len + n \in Nat
    BY <1>6
  <2>5. /\ task' \in TaskRecords /\ task'.freefifo = Append(f, b) /\ task'.known = task.known
        /\ task'.datafifo = Tail(d) /\ task'.mem = mem2
        /\ task'.passed_data_len = task.passed_data_len + n
        /\ task'.buffered_data_size = t.buffered_data_size /\ task'.data_offset = t.data_offset
        /\ task'.mutex = "none"
    BY <2>2, <2>3, <2>4, ZenonT(30) DEF TaskRecords, Units
  <2>6. Fifos(Append(f, b), Tail(d), task.known)
    BY <1>6, <1>7, FifosBoth, FifosMove
  <2>7. /\ Queue(Tail(d), mem2, Unit)
        /\ First(Tail(d), mem2, Unit, 1) = First(d, mem, Unit, 1) + Len(mem[d[1]])
    <3>1. mem2 = [mem EXCEPT ![d[1]] = <<>>]
      BY <1>6 DEF mem2
    <3> QED
      BY <1>6, <1>7, <1>8, <2>2, <3>1, QueueTaken
  <2> QED
    BY <1>6, <1>8, <2>1, <2>4, <2>5, <2>6, <2>7
<1>10. CASE ~(n >= Len(mem[b]))
  <2>1. n < Len(mem[b])
    BY <1>1, <1>6, <1>10
  <2> DEFINE mem2 == [mem EXCEPT ![b] = SubSeq(mem[b], n + 1, Len(mem[b]))]
  <2>2. mem2 \in Units
    <3>1. mem[b] \in Seq(1 .. MaxUnits) /\ n + 1 \in 1 .. Len(mem[b]) + 1 /\ Len(mem[b]) \in Nat
      BY <1>1, <1>6, <2>1
    <3>2. SubSeq(mem[b], n + 1, Len(mem[b])) \in Seq(1 .. MaxUnits)
      BY <1>6, <2>1, <3>1, RestType
    <3> QED
      BY <3>2 DEF Units
  <2>3. task' = [[t EXCEPT !.passed_data_len = task.passed_data_len + n, !.mem = mem2]
                 EXCEPT !.mutex = "none"]
    <3>1. ~(n >= Len(t.mem[Block]))
      BY <1>4, <1>5, <1>10
    <3> QED
      BY <1>4, <1>5, <3>1, Zenon DEF Passed
  <2> HIDE DEF mem2
  <2>4. task.passed_data_len + n \in Nat
    BY <1>6
  <2>5. /\ task' \in TaskRecords /\ task'.freefifo = f /\ task'.known = task.known
        /\ task'.datafifo = d /\ task'.mem = mem2
        /\ task'.passed_data_len = task.passed_data_len + n
        /\ task'.buffered_data_size = t.buffered_data_size /\ task'.data_offset = t.data_offset
        /\ task'.mutex = "none"
    BY <1>2, <1>3, <2>2, <2>3, <2>4 DEF TaskRecords, Units
  <2>6. /\ Queue(d, mem2, Unit)
        /\ First(d, mem2, Unit, 1) = First(d, mem, Unit, 1) + n
    <3>1. /\ \A c \in Bufs : c # d[1] => mem2[c] = mem[c]
          /\ mem2[d[1]] = SubSeq(mem[d[1]], n + 1, Len(mem[d[1]]))
      BY <1>6 DEF mem2, Units
    <3>2. n < Len(mem[d[1]]) /\ n \in Nat \ {0} /\ d # <<>>
      BY <1>6, <2>1
    <3>3. \A j, k \in 1 .. Len(d) : d[j] = d[k] => j = k
      BY <1>7
    <3> QED
      BY <1>8, <2>2, <3>1, <3>2, <3>3, QueuePart
  <2> QED
    BY <1>7, <1>8, <2>5, <2>6
<1> QED
  BY <1>9, <1>10

\* The invariant's parts about the queue and the fifos after a step, from those of the fifos
LEMMA QueueBack ==
    ASSUME TypeInv', Fifos(task'.freefifo, task'.datafifo, task'.known),
           Queue(task'.datafifo, task'.mem, Unit')
    PROVE  /\ FifosOK' /\ QueueOK' /\ Short'
           /\ FirstUnit(1)' = First(task'.datafifo, task'.mem, Unit', 1)
<1>1. TypeInv' => (FifosOK' <=> Fifos(task.freefifo, task.datafifo, task.known)')
  BY FifosIs, PTL
<1>2. TypeInv' => /\ (QueueOK /\ Short <=> Queue(task.datafifo, task.mem, Unit))'
                  /\ (\A k : FirstUnit(k) = First(task.datafifo, task.mem, Unit, k))'
  BY QueueIs, PTL
<1> QED
  BY <1>1, <1>2
-----------------------------------------------------------------------------
(* Steps that move data *)

\* The parts of the invariant after a step
LEMMA MoveOK ==
    ASSUME TypeInv', LockOK', ParserOK', CountsOK', WorkLen', RingOK',
           Fifos(task'.freefifo, task'.datafifo, task'.known),
           Queue(task'.datafifo, task'.mem, Unit'),
           First(task'.datafifo, task'.mem, Unit', 1) + Copied' = read' + Level' + 1
    PROVE  Inv'
<1>1. /\ FifosOK' /\ QueueOK' /\ Short'
      /\ FirstUnit(1)' = First(task'.datafifo, task'.mem, Unit', 1)
  BY QueueBack
<1>2. LengthOK'
  BY <1>1 DEF LengthOK, WorkLen, Short
<1>3. InOrder'
  <2>1. JointOK'
    BY <1>1 DEF JointOK
  <2> QED
    BY <1>1, <2>1 DEF InOrder, RingOK, JointOK, QueueOK
<1> QED
  BY <1>1, <1>2, <1>3 DEF Inv

\* A function that is a sequence
LEMMA FunSeq == ASSUME NEW S, NEW n \in Nat, NEW s \in [1 .. n -> S] PROVE s \in Seq(S) /\ Len(s) = n
OBVIOUS

\* One block is filled.
LEMMA WriteOneceOK ==
    ASSUME Inv, threadrw_write_onece(FALSE)
    PROVE  Inv'
<1> USE DEF actors, ghosts, bounds
<1>1. TypeInv /\ LockOK /\ FifosOK /\ ParserOK /\ CountsOK /\ RingOK /\ JointOK /\ QueueOK /\ Short /\ TypeOK
  BY LengthParts, InOrderParts DEF Inv, TypeInv, Short
<1>2. /\ app.pc = "write" /\ app.left > 0 /\ task.freefifo # <<>>
      /\ UNCHANGED <<stbuf, parser, work, dec, sent, read, mode, fails, opens>>
  BY DEF threadrw_write_onece
<1>3. PICK d \in Seq(Bufs) : d = task.datafifo
  BY <1>1, TaskType
<1>4. PICK f \in Seq(Bufs) : f = task.freefifo
  BY <1>1, TaskType
<1>5. PICK mem \in Units : mem = task.mem
  BY <1>1, TaskType DEF Units
<1>6. f # <<>> /\ f[1] \in Bufs /\ Head(f) = f[1] /\ Tail(f) \in Seq(Bufs)
      /\ 1 \in 1 .. Len(f) /\ task.known \in SUBSET Bufs
  BY <1>1, <1>2, <1>4, TaskType
<1>7. PICK b \in Bufs : b = f[1]
  BY <1>6
<1>8. PICK u \in Nat : u = Unit
  BY <1>1, ActorType DEF Unit
<1>9. PICK n \in Nat : n = Min({BufSize, app.left})
  <2>1. BufSize \in Int /\ app.left \in Int /\ BufSize \in Nat /\ app.left \in Nat
    BY <1>1, ActorType, SizeType
  <2> QED
    BY <2>1, MinTwo
<1>10. n \in Nat \ {0} /\ n \in 1 .. BufSize /\ n <= app.left
  <2>1. BufSize \in Nat \ {0} /\ app.left \in Nat
    BY <1>1, ActorType, SizeType
  <2>2. n = IF BufSize <= app.left THEN BufSize ELSE app.left
    BY <1>9, <2>1, MinTwo
  <2> QED
    BY <1>2, <2>1, <2>2
<1>11. PICK sn, off, left \in Nat : sn = sent /\ off = app.off /\ left = app.left
  BY <1>1, ActorType
<1>a. sn + off + left <= MaxUnits /\ u = sn + off + 1 /\ n <= left /\ MaxUnits \in Nat
  BY <1>1, <1>8, <1>10, <1>11, BoundAssumption DEF LockOK, Unit
<1>b. /\ left - n \in Nat /\ off + n \in Nat /\ sn + (off + n) + 1 = u + n
      /\ sn + (off + n) + (left - n) <= MaxUnits
  BY <1>10, <1>a
<1> DEFINE s == [i \in 1 .. n |-> sn + off + i]
<1>c. \A i \in 1 .. n : u + i - 1 \in 1 .. MaxUnits /\ u + i - 1 = sn + off + i
  BY <1>10, <1>a
<1>d. s \in [1 .. n -> 1 .. MaxUnits] /\ \A i \in 1 .. n : s[i] = u + i - 1
  BY <1>c
<1>12. /\ s \in Seq(1 .. MaxUnits) /\ Len(s) = n /\ \A i \in 1 .. Len(s) : s[i] = u + i - 1
       /\ s = [i \in 1 .. n |-> sent + app.off + i]
  <2>1. s = [i \in 1 .. n |-> sent + app.off + i]
    BY <1>11
  <2> HIDE DEF s
  <2>2. s \in Seq(1 .. MaxUnits) /\ Len(s) = n
    BY <1>10, <1>d, FunSeq
  <2> QED
    BY <1>d, <2>1, <2>2
<1> HIDE DEF s
<1>13. PICK mem2 : mem2 = [mem EXCEPT ![b] = s]
  OBVIOUS
<1>14. mem2 \in Units
  BY <1>12, <1>13 DEF Units
<1>15. task' = [task EXCEPT !.freefifo = Tail(f), !.datafifo = Append(d, b), !.mem = mem2]
  <2>1. /\ Head(task.freefifo) = b /\ s = [i \in 1 .. n |-> sent + app.off + i]
        /\ n = Min({BufSize, app.left}) /\ mem2 = [task.mem EXCEPT ![b] = s]
    BY <1>4, <1>5, <1>6, <1>7, <1>9, <1>12, <1>13
  <2> QED
    BY <1>3, <1>4, <2>1, Zenon DEF threadrw_write_onece
<1>16. /\ task' \in TaskRecords /\ task'.freefifo = Tail(f) /\ task'.datafifo = Append(d, b)
       /\ task'.mem = mem2 /\ task'.known = task.known
       /\ task'.buffered_data_size = task.buffered_data_size /\ task'.data_offset = task.data_offset
       /\ task'.passed_data_len = task.passed_data_len /\ task'.mutex = task.mutex
  <2>1. task \in TaskRecords /\ Tail(f) \in Seq(Bufs \cup {UserPtr}) /\ Append(d, b) \in Seq(Bufs)
    BY <1>1, <1>6 DEF TypeOK
  <2> QED
    BY <1>14, <1>15, <2>1 DEF TaskRecords, Units
<1>17. /\ app' \in [pc : {"idle", "write", "again"}, left : Nat, off : Nat]
       /\ app'.pc = "write" /\ app'.left = app.left - n /\ app'.off = app.off + n
  <2>1. app.left - n \in Nat /\ app.off + n \in Nat
    BY <1>11, <1>b
  <2>2. app' = [app EXCEPT !.left = app.left - n, !.off = app.off + n]
    BY <1>9, Zenon DEF threadrw_write_onece
  <2> QED
    BY <1>1, <1>2, <2>1, <2>2 DEF TypeOK
<1>18. TypeInv'
  BY <1>1, <1>2, <1>6, <1>16, <1>17 DEF TypeInv, TypeOK
<1>19. work.pc = "idle"
  BY <1>1, <1>2, ActorType DEF LockOK
<1>20. LockOK'
  BY <1>1, <1>2, <1>11, <1>b, <1>16, <1>17, <1>19 DEF LockOK
<1>21. RingOK' /\ Level' = Level /\ Copied' = Copied
  BY <1>1, <1>2, RingSame DEF Copied
<1>22. ParserOK' /\ CountsOK' /\ WorkLen'
  BY <1>1, <1>2, <1>16, <1>19, <1>21 DEF ParserOK, CountsOK, WorkLen, Takes
<1>23. PICK v \in Nat : v = u + Len(s) /\ v = Unit'
  BY <1>2, <1>11, <1>12, <1>17, <1>b DEF Unit
<1>24. Fifos(f, d, task.known) /\ Queue(d, mem, u) /\ FirstUnit(1) = First(d, mem, u, 1)
  BY <1>1, <1>3, <1>4, <1>5, <1>8, FifosIs, QueueIs
<1>25. Fifos(task'.freefifo, task'.datafifo, task'.known)
  BY <1>6, <1>7, <1>16, <1>24, FifosMove
<1>26. /\ Queue(task'.datafifo, task'.mem, Unit')
       /\ First(task'.datafifo, task'.mem, Unit', 1) = FirstUnit(1)
  <2>1. \A k \in 1 .. Len(d) : d[k] # b
    BY <1>6, <1>7, <1>24 DEF Fifos
  <2>2. Len(s) \in 1 .. BufSize
    BY <1>10, <1>12
  <2>3. /\ Queue(Append(d, b), mem2, v)
        /\ First(Append(d, b), mem2, v, 1) = First(d, mem, u, 1)
    <3>1. mem2[b] = s /\ \A c \in Bufs : c # b => mem2[c] = mem[c]
      BY <1>13 DEF Units
    <3>2. /\ Len(mem2[b]) \in 1 .. BufSize /\ \A i \in 1 .. Len(mem2[b]) : mem2[b][i] = u + i - 1
          /\ v = u + Len(mem2[b])
      BY <1>12, <1>23, <2>2, <3>1
    <3>3. Filled(d, mem, u, b, mem2, v)
      BY <1>14, <1>24, <2>1, <3>1, <3>2, Zenon DEF Filled
    <3> QED
      BY <3>3, QueueMore, ZenonT(30)
  <2> QED
    BY <1>16, <1>23, <1>24, <2>3
<1>27. First(task'.datafifo, task'.mem, Unit', 1) + Copied' = read' + Level' + 1
  BY <1>1, <1>2, <1>21, <1>26 DEF JointOK
<1> QED
  BY <1>18, <1>20, <1>21, <1>22, <1>25, <1>26, <1>27, MoveOK

\* The parser's thread takes note.
LEMMA LevelDownOK ==
    ASSUME Inv, LevelDown
    PROVE  Inv'
<1> USE DEF actors, ghosts, bounds
<1>1. TypeInv /\ LockOK /\ FifosOK /\ ParserOK /\ CountsOK /\ RingOK /\ JointOK /\ QueueOK /\ Short /\ TypeOK
      /\ WorkLen
  BY LengthParts, InOrderParts DEF Inv, TypeInv, Short
<1>2. /\ work.pc = "level" /\ work' = Rest
      /\ UNCHANGED <<stbuf, parser, app, dec, sent, read, mode, fails, opens>>
  BY DEF LevelDown
<1>3. PICK n \in 1 .. Len(Queued(1)) : n = work.len
  BY <1>1, <1>2 DEF WorkLen
<1>4. task.datafifo # <<>> /\ n \in Nat /\ app.pc # "write"
  <2>1. task.datafifo # <<>> /\ app.pc # "write"
    BY <1>1, <1>2 DEF LockOK
  <2> QED
    BY <1>1, <2>1, <1>3, BlockIs
<1> DEFINE t == [task EXCEPT !.buffered_data_size = task.buffered_data_size - n]
<1>5. /\ t \in TaskRecords /\ t.mem = task.mem /\ t.datafifo = task.datafifo
      /\ t.freefifo = task.freefifo /\ t.known = task.known /\ t.passed_data_len = task.passed_data_len
      /\ t.buffered_data_size = task.buffered_data_size - n /\ t.data_offset = task.data_offset
  <2>1. task \in TaskRecords /\ task.buffered_data_size - n \in Int
    BY <1>1, <1>4, TaskType DEF TypeOK
  <2> QED
    BY <2>1 DEF TaskRecords
<1>6. task' = Passed(t, Block, n)
  BY <1>3 DEF LevelDown
<1>7. Unit' = Unit /\ Unit \in Nat
  BY <1>1, <1>2, ActorType DEF Unit
<1>8. /\ task' \in TaskRecords /\ task'.freefifo \in Seq(Bufs) /\ task'.known = task.known
      /\ Fifos(task'.freefifo, task'.datafifo, task'.known)
      /\ Queue(task'.datafifo, task'.mem, Unit)
      /\ First(task'.datafifo, task'.mem, Unit, 1) = FirstUnit(1) + n
      /\ task'.passed_data_len = task.passed_data_len + n
      /\ task'.buffered_data_size = task.buffered_data_size - n /\ task'.data_offset = task.data_offset
      /\ task'.mutex = "none"
  <2> HIDE DEF t
  <2>1. /\ task' \in TaskRecords /\ task'.freefifo \in Seq(Bufs) /\ task'.known = task.known
        /\ Fifos(task'.freefifo, task'.datafifo, task'.known)
        /\ Queue(task'.datafifo, task'.mem, Unit)
        /\ First(task'.datafifo, task'.mem, Unit, 1) = FirstUnit(1) + n
        /\ task'.passed_data_len = task.passed_data_len + n
        /\ task'.buffered_data_size = t.buffered_data_size /\ task'.data_offset = t.data_offset
        /\ task'.mutex = "none"
    BY <1>1, <1>4, <1>5, <1>6, <1>7, PassedIs
  <2> QED
    BY <1>5, <2>1
<1>9. work'.pc = "idle" /\ work'.len = 0 /\ work' \in [pc : {"idle", "space", "push", "start", "fetch", "level"},
                                      len : 0 .. BufSize, wp : 0 .. Size - 1]
  BY <1>2, SizeType DEF Rest
<1>10. TypeInv'
  BY <1>1, <1>2, <1>8, <1>9 DEF TypeInv, TypeOK
<1>11. LockOK' /\ WorkLen'
  BY <1>1, <1>2, <1>4, <1>8, <1>9 DEF LockOK, WorkLen, Takes
<1>12. RingOK' /\ Level' = Level /\ Level \in Nat
  BY <1>1, <1>2, RingSame, LevelIs, SizeType
<1>13. Copied = n /\ Copied' = 0
  BY <1>2, <1>3, <1>9 DEF Copied
<1>14. ParserOK'
  BY <1>1, <1>2, <1>9 DEF ParserOK
<1>15. CountsOK'
  <2>1. mode # "ring" /\ mode' = mode
    BY <1>1, <1>2 DEF ParserOK
  <2>2. /\ task.passed_data_len \in Nat /\ task.buffered_data_size \in Int /\ read \in Nat
        /\ parser.video_data_parsed \in Nat
    BY <1>1, TaskType, ActorType
  <2>3. task'.passed_data_len + Copied' = read' + Level' /\ task'.data_offset = sent'
    BY <1>1, <1>2, <1>4, <1>8, <1>12, <1>13, <2>2 DEF CountsOK
  <2>4. mode = "parser" => /\ task'.buffered_data_size + task'.passed_data_len = sent'
                           /\ parser'.video_data_parsed = task'.passed_data_len + 0
    BY <1>1, <1>2, <1>3, <1>4, <1>8, <2>2 DEF CountsOK
  <2> QED
    BY <1>9, <2>1, <2>3, <2>4 DEF CountsOK
<1>16. First(task'.datafifo, task'.mem, Unit', 1) + Copied' = read' + Level' + 1
  <2>1. First(task'.datafifo, task'.mem, Unit', 1) = read' + Level' + 1
    BY <1>1, <1>2, <1>7, <1>8, <1>12, <1>13 DEF JointOK
  <2> QED
    BY <1>1, <1>2, <1>12, <1>13, <2>1, ActorType
<1> QED
  BY <1>7, <1>8, <1>10, <1>11, <1>12, <1>14, <1>15, <1>16, MoveOK

\* The places of a ring with n more units in it
Places(wp, rp, n, L) ==
    /\ (wp + n) % Size \in 0 .. Size - 1
    /\ (((wp + n) % Size) - rp) % Size = L + n
    /\ n # 0 => (wp + n) % Size # wp
    /\ \A i \in 1 .. L + n : /\ (rp + i - 1) % Size \in 0 .. Size - 1
                             /\ i <= L => (((rp + i - 1) % Size) - wp) % Size >= n
                             /\ i > L => (((rp + i - 1) % Size) - wp) % Size = i - L - 1

\* Level and pointers of the ring after a store
LEMMA RingArith ==
    ASSUME NEW wp \in 0 .. Size - 1, NEW rp \in 0 .. Size - 1, NEW n \in Nat, NEW L \in 0 .. Size - 1,
           L = (IF wp >= rp THEN wp - rp ELSE wp - rp + Size), L + n < Size
    PROVE  Places(wp, rp, n, L)
<1>1. Size \in Nat \ {0}
  BY SizeType
<1>a. PICK y \in Int : y = wp + n
  BY <1>1
<1>b. PICK x \in Int : x = y % Size
  BY <1>1
<1>c. 0 <= y /\ y < 2 * Size
  BY <1>1, <1>a
<1>d. y % Size = IF y < Size THEN y ELSE y - Size
  BY <1>c, ModAbove
<1>2. x = (wp + n) % Size
  BY <1>a, <1>b, Zenon
<1>3. x = IF wp + n < Size THEN wp + n ELSE wp + n - Size
  <2>1. x = IF y < Size THEN y ELSE y - Size
    BY <1>b, <1>d
  <2> QED
    BY <1>1, <1>a, <2>1
<1>4. x \in 0 .. Size - 1 /\ (n # 0 => x # wp)
  BY <1>1, <1>3
<1>5. (x - rp) % Size = L + n
  <2>1. x - rp \in Int /\ -Size <= x - rp /\ x - rp < Size
    BY <1>1, <1>4
  <2>2. (x - rp) % Size = IF x - rp >= 0 THEN x - rp ELSE x - rp + Size
    BY <2>1, ModBelow
  <2> QED
    BY <1>1, <1>3, <2>2
<1>6. ASSUME NEW i \in 1 .. L + n
      PROVE  /\ (rp + i - 1) % Size \in 0 .. Size - 1
             /\ i <= L => (((rp + i - 1) % Size) - wp) % Size >= n
             /\ i > L => (((rp + i - 1) % Size) - wp) % Size = i - L - 1
  <2>1. i \in 1 .. Size
    BY <1>1
  <2>2. PICK p \in 0 .. Size - 1 : p = (rp + i - 1) % Size
    BY <2>1, PlaceIs
  <2>3. p = IF rp + i - 1 < Size THEN rp + i - 1 ELSE rp + i - 1 - Size
    BY <2>1, <2>2, PlaceIs
  <2>4. p - wp \in Int /\ -Size <= p - wp /\ p - wp < Size
    BY <1>1
  <2>5. (p - wp) % Size = IF p - wp >= 0 THEN p - wp ELSE p - wp + Size
    BY <2>4, ModBelow
  <2>6. (i <= L => (p - wp) % Size >= n) /\ (i > L => (p - wp) % Size = i - L - 1)
    BY <1>1, <2>1, <2>3, <2>5
  <2> QED
    BY <2>2, <2>6
<1> QED
  BY <1>2, <1>4, <1>5, <1>6 DEF Places

\* A member of a sequence
LEMMA ElementType == ASSUME NEW S, NEW s \in Seq(S), NEW i \in 1 .. Len(s) PROVE s[i] \in S
OBVIOUS

\* The units of s are written behind those in the ring.
LEMMA RingPut ==
    ASSUME TypeInv, RingOK, NEW n \in Nat, Level + n < Size,
           NEW s \in Seq(1 .. MaxUnits), Len(s) = n, \A i \in 1 .. n : s[i] = read + Level + i,
           stbuf'.ring = Put(s), stbuf'.buf_wp = (stbuf.buf_wp + n) % Size,
           stbuf'.buf_rp = stbuf.buf_rp, read' = read
    PROVE  /\ RingOK' /\ Level' = Level + n
           /\ stbuf'.ring \in [0 .. Size - 1 -> 0 .. MaxUnits] /\ stbuf'.buf_wp \in 0 .. Size - 1
           /\ n # 0 => stbuf'.buf_wp # stbuf.buf_wp
<1>1. Size \in Nat \ {0} /\ TypeOK
  BY SizeType DEF TypeInv
<1>2. PICK wp \in 0 .. Size - 1 : wp = stbuf.buf_wp
  BY <1>1, StbufType
<1>3. PICK rp \in 0 .. Size - 1 : rp = stbuf.buf_rp
  BY <1>1, StbufType
<1>4. PICK ring \in [0 .. Size - 1 -> 0 .. MaxUnits] : ring = stbuf.ring
  BY <1>1, StbufType
<1>5. PICK L \in 0 .. Size - 1 : L = Level
  BY <1>1, LevelIs
<1>6. L = (IF wp >= rp THEN wp - rp ELSE wp - rp + Size) /\ L + n < Size
  BY <1>1, <1>2, <1>3, <1>5, LevelIs
<1>7. /\ (wp + n) % Size \in 0 .. Size - 1
      /\ (((wp + n) % Size) - rp) % Size = L + n
      /\ n # 0 => (wp + n) % Size # wp
      /\ \A i \in 1 .. L + n : /\ (rp + i - 1) % Size \in 0 .. Size - 1
                               /\ i <= L => (((rp + i - 1) % Size) - wp) % Size >= n
                               /\ i > L => (((rp + i - 1) % Size) - wp) % Size = i - L - 1
  <2>1. Places(wp, rp, n, L)
    BY <1>6, RingArith
  <2> QED
    BY <2>1 DEF Places
<1>8. Level' = L + n
  BY <1>2, <1>3, <1>7 DEF Level
<1>9. stbuf'.ring = [i \in 0 .. Size - 1 |-> IF (i - wp) % Size < n THEN s[((i - wp) % Size) + 1] ELSE ring[i]]
  BY <1>2, <1>4 DEF Put
<1>10. stbuf'.ring \in [0 .. Size - 1 -> 0 .. MaxUnits]
  <2>1. ASSUME NEW i \in 0 .. Size - 1
        PROVE  (IF (i - wp) % Size < n THEN s[((i - wp) % Size) + 1] ELSE ring[i]) \in 0 .. MaxUnits
    <3>1. (i - wp) % Size \in Nat
      BY <1>1
    <3>2. CASE (i - wp) % Size < n
      <4>1. ((i - wp) % Size) + 1 \in 1 .. Len(s)
        BY <3>1, <3>2
      <4>2. PICK q \in 1 .. Len(s) : q = ((i - wp) % Size) + 1
        BY <4>1
      <4>3. s[q] \in 1 .. MaxUnits
        BY ElementType, Zenon
      <4> QED
        BY <3>2, <4>2, <4>3, BoundAssumption
    <3>3. CASE ~((i - wp) % Size < n)
      BY <3>3
    <3> QED
      BY <3>2, <3>3
  <2> QED
    BY <1>9, <2>1
<1>11. ASSUME NEW i \in 1 .. L + n
       PROVE  stbuf'.ring[(rp + i - 1) % Size] = read + i
  <2>1. PICK p \in 0 .. Size - 1 : p = (rp + i - 1) % Size
    BY <1>7
  <2>2. stbuf'.ring[p] = IF (p - wp) % Size < n THEN s[((p - wp) % Size) + 1] ELSE ring[p]
    BY <1>9
  <2>3. (i <= L => (p - wp) % Size >= n) /\ (i > L => (p - wp) % Size = i - L - 1)
    BY <1>7, <2>1
  <2>4. read \in Nat /\ L \in Nat /\ i \in Nat /\ (p - wp) % Size \in Int
    BY <1>1, ActorType
  <2>5. CASE i <= L
    <3>1. stbuf'.ring[p] = ring[p]
      BY <2>2, <2>3, <2>4, <2>5
    <3>2. i \in 1 .. L
      BY <2>4, <2>5
    <3>3. ring[p] = read + i
      BY <1>3, <1>4, <1>5, <2>1, <3>2 DEF RingOK
    <3> QED
      BY <2>1, <3>1, <3>3
  <2>6. CASE i > L
    <3>1. i - L \in 1 .. n /\ (p - wp) % Size < n /\ ((p - wp) % Size) + 1 = i - L
      BY <2>3, <2>4, <2>6
    <3>2. stbuf'.ring[p] = s[i - L]
      BY <2>2, <3>1
    <3>3. s[i - L] = read + L + (i - L)
      BY <1>5, <3>1
    <3> QED
      BY <2>1, <2>4, <3>2, <3>3
  <2> QED
    BY <2>4, <2>5, <2>6
<1>12. RingOK'
  BY <1>3, <1>8, <1>11 DEF RingOK
<1> QED
  BY <1>2, <1>5, <1>7, <1>8, <1>10, <1>12

\* The beginning of a sequence
LEMMA PrefixIs == ASSUME NEW S, NEW s \in Seq(S), NEW n \in 1 .. Len(s)
                  PROVE  /\ SubSeq(s, 1, n) \in Seq(S) /\ Len(SubSeq(s, 1, n)) = n
                         /\ \A i \in 1 .. n : SubSeq(s, 1, n)[i] = s[i]
OBVIOUS

\* The units of the first block that are copied
LEMMA BlockUnits ==
    ASSUME TypeInv, QueueOK, JointOK, Copied = 0, task.datafifo # <<>>, NEW n \in 1 .. Len(Queued(1)),
           NEW s, s = SubSeq(task.mem[Block], 1, n)
    PROVE  s \in Seq(1 .. MaxUnits) /\ Len(s) = n /\ \A i \in 1 .. n : s[i] = read + Level + i
<1>1. 1 \in DOMAIN task.datafifo /\ task.mem[Block] = Queued(1) /\ Len(Queued(1)) \in Nat
  BY BlockIs
<1>2. PICK q \in Seq(1 .. MaxUnits) : q = Queued(1)
  BY BlockIs
<1>3. PICK u : u = FirstUnit(1)
  OBVIOUS
<1>4. \A i \in 1 .. Len(q) : q[i] = u + i - 1
  <2>1. \A i \in DOMAIN q : q[i] = u + i - 1
    BY <1>1, <1>2, <1>3 DEF QueueOK
  <2> QED
    BY <2>1
<1>5. PICK L \in Nat : L = Level
  BY LevelIs, SizeType DEF TypeInv
<1>6. PICK r \in Nat : r = read
  BY ActorType
<1>7. u = r + L + 1
  <2>1. u + 0 = r + L + 1
    BY <1>3, <1>5, <1>6 DEF JointOK
  <2>2. u \in Int
    <3>1. ~(1 > Len(task.datafifo))
      BY BlockIs
    <3>2. u = q[1] /\ 1 \in 1 .. Len(q)
      BY <1>2, <1>3, <3>1 DEF FirstUnit
    <3> QED
      BY <3>2, ElementType, BoundAssumption
  <2> QED
    BY <2>1, <2>2
<1>8. n \in 1 .. Len(q) /\ Len(q) \in Nat /\ s = SubSeq(q, 1, n)
  BY <1>1, <1>2
<1>9. s \in Seq(1 .. MaxUnits) /\ Len(s) = n /\ \A i \in 1 .. n : s[i] = q[i]
  BY <1>8, PrefixIs, ZenonT(30)
<1>10. \A i \in 1 .. n : s[i] = r + L + i
  BY <1>4, <1>7, <1>8, <1>9
<1> QED
  BY <1>5, <1>6, <1>9, <1>10

\* The parser fetches the block.
LEMMA HwFetchOK ==
    ASSUME Inv, HwFetch
    PROVE  Inv'
<1> USE DEF actors, ghosts, bounds
<1>1. TypeInv /\ LockOK /\ FifosOK /\ ParserOK /\ CountsOK /\ RingOK /\ JointOK /\ QueueOK /\ Short /\ TypeOK
      /\ WorkLen
  BY LengthParts, InOrderParts DEF Inv, TypeInv, Short
<1>2. /\ parser.hw = "fetching" /\ parser' = [parser EXCEPT !.hw = "fetched"]
      /\ UNCHANGED <<task, app, work, dec, sent, read, mode, fails, opens>>
  BY DEF HwFetch
<1>3. work.pc = "fetch" /\ Copied = 0 /\ task.datafifo # <<>> /\ Takes /\ mode # "ring"
  BY <1>1, <1>2 DEF ParserOK, LockOK, Copied, Takes
<1>4. PICK n \in 1 .. Len(Queued(1)) : n = work.len
  BY <1>1, <1>3 DEF WorkLen
<1>5. n \in Nat \ {0} /\ n \in Nat /\ Level \in Nat /\ Level + n < Size /\ read \in Nat
  <2>1. Len(Queued(1)) \in Nat /\ Level \in 0 .. Size - 1 /\ read \in Nat
    BY <1>1, <1>3, BlockIs, LevelIs, ActorType
  <2>2. n + Level + Reserve <= Size
    BY <1>1, <1>3, <1>4 DEF WorkLen
  <2> QED
    BY <2>1, <2>2, SizeType
<1> DEFINE s == SubSeq(task.mem[Block], 1, n)
<1>6. s \in Seq(1 .. MaxUnits) /\ Len(s) = n /\ \A i \in 1 .. n : s[i] = read + Level + i
  BY <1>1, <1>3, BlockUnits
<1>7. stbuf' = [stbuf EXCEPT !.ring = Put(s), !.buf_wp = (stbuf.buf_wp + n) % Size]
  BY <1>4 DEF HwFetch
<1> HIDE DEF s
<1>8. /\ stbuf'.ring = Put(s) /\ stbuf'.buf_wp = (stbuf.buf_wp + n) % Size /\ stbuf'.buf_rp = stbuf.buf_rp
      /\ stbuf'.payload = stbuf.payload /\ stbuf'.stream_offset = stbuf.stream_offset
  BY <1>1, <1>7 DEF TypeOK, StbufRecords
<1>9. /\ RingOK' /\ Level' = Level + n
      /\ stbuf'.ring \in [0 .. Size - 1 -> 0 .. MaxUnits] /\ stbuf'.buf_wp \in 0 .. Size - 1
      /\ stbuf'.buf_wp # stbuf.buf_wp
  BY <1>1, <1>2, <1>5, <1>6, <1>8, RingPut
<1>10. stbuf' \in StbufRecords
  <2>1. Put(s) \in [0 .. Size - 1 -> 0 .. MaxUnits] /\ (stbuf.buf_wp + n) % Size \in 0 .. Size - 1
    BY <1>8, <1>9
  <2> QED
    BY <1>1, <1>7, <2>1 DEF TypeOK, StbufRecords
<1>11. /\ parser' \in ParserRecords /\ parser'.hw = "fetched" /\ parser'.search_done = parser.search_done
       /\ parser'.video_data_parsed = parser.video_data_parsed
  BY <1>1, <1>2 DEF TypeOK, ParserRecords
<1>12. TypeInv' /\ LockOK'
  BY <1>1, <1>2, <1>10, <1>11 DEF TypeInv, TypeOK, LockOK
<1>13. ParserOK'
  BY <1>1, <1>2, <1>3, <1>9, <1>11 DEF ParserOK
<1>14. Copied' = n /\ Queued(1)' = Queued(1) /\ Unit' = Unit
  BY <1>2, <1>3, <1>4, <1>11 DEF Copied, Queued, Unit
<1>15. WorkLen'
  BY <1>1, <1>2, <1>3, <1>11, <1>14 DEF WorkLen, Takes
<1>16. CountsOK'
  <2>1. task.passed_data_len + 0 = read + Level /\ task.passed_data_len \in Nat
    BY <1>1, <1>3, TaskType DEF CountsOK
  <2>2. task'.passed_data_len + Copied' = read' + Level'
    BY <1>2, <1>5, <1>9, <1>14, <2>1
  <2> QED
    BY <1>1, <1>2, <1>3, <1>11, <2>2 DEF CountsOK
<1>17. /\ Fifos(task'.freefifo, task'.datafifo, task'.known)
       /\ Queue(task'.datafifo, task'.mem, Unit')
       /\ First(task'.datafifo, task'.mem, Unit', 1) = FirstUnit(1)
  BY <1>1, <1>2, <1>14, FifosIs, QueueIs
<1>18. First(task'.datafifo, task'.mem, Unit', 1) + Copied' = read' + Level' + 1
  <2>1. FirstUnit(1) + 0 = read + Level + 1
    BY <1>1, <1>3 DEF JointOK
  <2>2. FirstUnit(1) \in Int
    <3>1. 1 \in 1 .. Len(Queued(1)) /\ Queued(1) \in Seq(1 .. MaxUnits) /\ ~(1 > Len(task.datafifo))
      BY <1>1, <1>3, <1>4, BlockIs
    <3>2. Queued(1)[1] \in 1 .. MaxUnits
      BY <3>1, ElementType
    <3> QED
      BY <3>1, <3>2, BoundAssumption DEF FirstUnit
  <2> QED
    BY <1>2, <1>5, <1>9, <1>14, <1>17, <2>1, <2>2
<1> QED
  BY <1>9, <1>12, <1>13, <1>15, <1>16, <1>17, <1>18, MoveOK

\* rb_push_data wraps as the pointers do.
LEMMA PushIs ==
    ASSUME NEW wp \in 0 .. Size - 1, NEW len \in Nat \ {0}, wp = stbuf.buf_wp
    PROVE  /\ PushLen(len) \in Nat \ {0} /\ PushLen(len) <= len
           /\ Wrapped(PushLen(len)) = (wp + PushLen(len)) % Size
<1>1. Size \in Nat \ {0} /\ wp \in Int /\ Size - wp \in Int /\ len \in Int
  BY SizeType
<1>2. PushLen(len) = IF len <= Size - wp THEN len ELSE Size - wp
  BY <1>1, MinTwo DEF PushLen
<1>3. PICK n \in Nat \ {0} : n = PushLen(len)
  BY <1>1, <1>2
<1>4. n <= len /\ n <= Size - wp
  BY <1>1, <1>2, <1>3
<1>5. PICK y \in Int : y = wp + n
  BY <1>1
<1>6. 0 <= y /\ y < 2 * Size /\ y <= Size
  BY <1>1, <1>4, <1>5
<1>7. y % Size = IF y < Size THEN y ELSE y - Size
  BY <1>6, ModAbove
<1>8. Wrapped(n) = IF y >= Size THEN 0 ELSE y
  BY <1>5 DEF Wrapped
<1>9. Wrapped(n) = y % Size
  BY <1>1, <1>6, <1>7, <1>8
<1> QED
  BY <1>3, <1>4, <1>5, <1>9, Zenon

\* The driver fills the ring.
LEMMA WriteInnerOK ==
    ASSUME Inv, stream_buffer_write_inner
    PROVE  Inv'
<1> USE DEF actors, ghosts, bounds
<1>1. TypeInv /\ LockOK /\ FifosOK /\ ParserOK /\ CountsOK /\ RingOK /\ JointOK /\ QueueOK /\ Short /\ TypeOK
      /\ WorkLen
  BY LengthParts, InOrderParts DEF Inv, TypeInv, Short
<1>2. work.pc = "push" /\ UNCHANGED <<parser, app, dec, sent, read, mode, fails, opens>>
  BY DEF stream_buffer_write_inner
<1>3. /\ Copied = 0 /\ task.datafifo # <<>> /\ Takes /\ mode # "parser" /\ parser.hw = "idle"
      /\ app.pc # "write" /\ task.mutex = "work"
  BY <1>1, <1>2 DEF ParserOK, LockOK, Copied, Takes
<1>4. CASE get_free_space < work.len
  <2>1. GiveUp /\ stbuf' = stbuf
    BY <1>4 DEF stream_buffer_write_inner
  <2>2. parser' \in ParserRecords /\ fails' \in Nat
    BY <1>1, <1>2 DEF TypeInv, TypeOK
  <2> QED
    BY <1>2, <1>3, <2>1, <2>2, GiveUpOK
<1>5. CASE ~(get_free_space < work.len)
  <2>1. PICK wp \in 0 .. Size - 1 : wp = stbuf.buf_wp
    BY <1>1, StbufType
  <2>2. PICK len \in Nat \ {0} : len = work.len /\ len \in 1 .. Len(Queued(1))
    <3>1. work.len \in 1 .. Len(Queued(1)) /\ Len(Queued(1)) \in Nat
      BY <1>1, <1>2, <1>3, BlockIs DEF WorkLen
    <3> QED
      BY <3>1
  <2>3. PICK n \in Nat \ {0} : n = PushLen(len) /\ n <= len /\ Wrapped(n) = (wp + n) % Size
    BY <2>1, PushIs
  <2>4. /\ n \in 1 .. Len(Queued(1)) /\ n \in Nat /\ Level \in Nat /\ Level + n < Size /\ read \in Nat
        /\ n # 0
    <3>1. Len(Queued(1)) \in Nat /\ Level \in 0 .. Size - 1 /\ read \in Nat
      BY <1>1, <1>3, BlockIs, LevelIs, ActorType
    <3>2. len + Level + Reserve <= Size
      BY <1>1, <1>3, <2>2 DEF WorkLen
    <3>3. n <= len /\ len <= Len(Queued(1))
      BY <2>2, <2>3, <3>1
    <3> QED
      BY <3>1, <3>2, <3>3, SizeType
  <2> DEFINE s == SubSeq(task.mem[Block], 1, n)
  <2>5. s \in Seq(1 .. MaxUnits) /\ Len(s) = n /\ \A i \in 1 .. n : s[i] = read + Level + i
    BY <1>1, <1>3, <2>4, BlockUnits
  <2>6. /\ stbuf' = [stbuf EXCEPT !.ring = Put(s), !.buf_wp = Wrapped(n),
                                  !.payload = stbuf.payload + n, !.stream_offset = stbuf.stream_offset + n]
        /\ task' = Passed(task, Block, n) /\ work' = Rest
    <3>1. PushLen(work.len) = n
      BY <2>2, <2>3
    <3> QED
      BY <1>5, <3>1 DEF stream_buffer_write_inner
  <2> HIDE DEF s
  <2>7. /\ stbuf'.ring = Put(s) /\ stbuf'.buf_wp = (stbuf.buf_wp + n) % Size /\ stbuf'.buf_rp = stbuf.buf_rp
        /\ stbuf'.payload = stbuf.payload + n /\ stbuf'.stream_offset = stbuf.stream_offset + n
    <3>1. Wrapped(n) = (stbuf.buf_wp + n) % Size
      BY <2>1, <2>3
    <3>2. stbuf \in StbufRecords
      BY <1>1 DEF TypeOK
    <3> QED
      BY <2>6, <3>1, <3>2 DEF StbufRecords
  <2>8. /\ RingOK' /\ Level' = Level + n
        /\ stbuf'.ring \in [0 .. Size - 1 -> 0 .. MaxUnits] /\ stbuf'.buf_wp \in 0 .. Size - 1
    BY <1>1, <1>2, <2>4, <2>5, <2>7, RingPut
  <2>9. stbuf' \in StbufRecords
    <3>1. stbuf \in StbufRecords /\ stbuf.payload + n \in Int /\ stbuf.stream_offset + n \in Nat
      <4>1. stbuf.payload \in Int /\ stbuf.stream_offset \in Nat
        BY <1>1, StbufType
      <4> QED
        BY <1>1, <2>4, <4>1 DEF TypeOK
    <3>2. Put(s) \in [0 .. Size - 1 -> 0 .. MaxUnits]
      BY <2>7, <2>8
    <3>3. Wrapped(n) \in 0 .. Size - 1
      BY <2>1, <2>3, <2>7, <2>8
    <3> QED
      BY <2>6, <3>1, <3>2, <3>3 DEF StbufRecords
  <2>10. Unit' = Unit /\ Unit \in Nat
    BY <1>1, <1>2, ActorType DEF Unit
  <2>11. /\ task' \in TaskRecords /\ task'.freefifo \in Seq(Bufs) /\ task'.known = task.known
         /\ Fifos(task'.freefifo, task'.datafifo, task'.known)
         /\ Queue(task'.datafifo, task'.mem, Unit)
         /\ First(task'.datafifo, task'.mem, Unit, 1) = FirstUnit(1) + n
         /\ task'.passed_data_len = task.passed_data_len + n
         /\ task'.buffered_data_size = task.buffered_data_size /\ task'.data_offset = task.data_offset
         /\ task'.mutex = "none"
    <3>1. task \in TaskRecords
      BY <1>1 DEF TypeOK
    <3> QED
      BY <1>1, <1>3, <2>4, <2>6, <2>10, <3>1, PassedIs
  <2>12. work'.pc = "idle" /\ work' \in [pc : {"idle", "space", "push", "start", "fetch", "level"},
                                         len : 0 .. BufSize, wp : 0 .. Size - 1]
    BY <2>6, SizeType DEF Rest
  <2>13. TypeInv'
    BY <1>1, <1>2, <2>9, <2>11, <2>12 DEF TypeInv, TypeOK
  <2>14. LockOK' /\ WorkLen'
    BY <1>1, <1>2, <1>3, <2>11, <2>12 DEF LockOK, WorkLen, Takes
  <2>15. ParserOK' /\ Copied' = 0
    BY <1>1, <1>2, <1>3, <2>12 DEF ParserOK, Copied
  <2>16. CountsOK'
    <3>1. /\ task.passed_data_len + 0 = read + Level /\ task.passed_data_len \in Nat
          /\ task.data_offset = sent
      BY <1>1, <1>3, TaskType DEF CountsOK
    <3>2. task'.passed_data_len + Copied' = read' + Level' /\ task'.data_offset = sent'
      BY <1>2, <2>4, <2>8, <2>11, <2>15, <3>1
    <3>3. PICK x \in {0, 1} : x = IF dec = "sub" THEN 1 ELSE 0
      OBVIOUS
    <3>4. mode = "ring" => stbuf.payload = Level + x /\ stbuf.stream_offset = read + Level
      BY <1>1, <3>3 DEF CountsOK
    <3>5. mode = "ring" => stbuf'.payload = Level' + x /\ stbuf'.stream_offset = read' + Level'
      BY <1>2, <2>4, <2>7, <2>8, <3>4
    <3> QED
      BY <1>2, <1>3, <3>2, <3>3, <3>5 DEF CountsOK
  <2>17. First(task'.datafifo, task'.mem, Unit', 1) + Copied' = read' + Level' + 1
    <3>1. FirstUnit(1) + 0 = read + Level + 1
      BY <1>1, <1>3 DEF JointOK
    <3>2. FirstUnit(1) \in Int
      <4>1. 1 \in 1 .. Len(Queued(1)) /\ Queued(1) \in Seq(1 .. MaxUnits) /\ ~(1 > Len(task.datafifo))
        BY <1>1, <1>3, <2>4, BlockIs
      <4>2. Queued(1)[1] \in 1 .. MaxUnits
        BY <4>1, ElementType
      <4> QED
        BY <4>1, <4>2, BoundAssumption DEF FirstUnit
    <3> QED
      BY <1>2, <2>4, <2>8, <2>10, <2>11, <2>15, <3>1, <3>2
  <2> QED
    BY <2>8, <2>10, <2>11, <2>13, <2>14, <2>15, <2>16, <2>17, MoveOK
<1> QED
  BY <1>4, <1>5

\* The decoder has read a unit.
LEMMA SetRpOK ==
    ASSUME Inv, SetRp
    PROVE  Inv'
<1> USE DEF ghosts, bounds
<1>1. TypeInv /\ LockOK /\ FifosOK /\ ParserOK /\ CountsOK /\ RingOK /\ JointOK /\ QueueOK /\ Short /\ TypeOK
      /\ WorkLen
  BY LengthParts, InOrderParts DEF Inv, TypeInv, Short
<1>2. /\ dec = "idle" /\ stbuf.buf_wp # stbuf.buf_rp /\ read' = read + 1
      /\ stbuf' = [stbuf EXCEPT !.buf_rp = (stbuf.buf_rp + 1) % Size]
      /\ dec' = IF mode = "ring" THEN "sub" ELSE "idle"
      /\ UNCHANGED <<task, parser, app, work, sent, mode, fails, opens>>
  BY DEF SetRp
<1>3. Size \in Nat \ {0} /\ read \in Nat
  BY <1>1, SizeType, ActorType
<1>4. PICK wp \in 0 .. Size - 1 : wp = stbuf.buf_wp
  BY <1>1, StbufType
<1>5. PICK rp \in 0 .. Size - 1 : rp = stbuf.buf_rp
  BY <1>1, StbufType
<1>6. PICK L \in 1 .. Size - 1 : L = Level
  BY <1>1, <1>2, <1>3, LevelIs
<1>7. L = (IF wp >= rp THEN wp - rp ELSE wp - rp + Size) /\ wp # rp
  BY <1>1, <1>2, <1>4, <1>5, <1>6, LevelIs
<1>8. PICK r2 \in 0 .. Size - 1 : /\ r2 = (rp + 1) % Size
                                  /\ r2 = IF rp + 1 < Size THEN rp + 1 ELSE 0
  <2>1. PICK y \in Int : y = rp + 1
    BY <1>3
  <2>2. 0 <= y /\ y < 2 * Size /\ y <= Size
    BY <1>3, <2>1
  <2>3. y % Size = IF y < Size THEN y ELSE y - Size
    BY <2>2, ModAbove
  <2>4. y % Size = IF y < Size THEN y ELSE 0
    BY <1>3, <2>2, <2>3
  <2>5. y % Size \in 0 .. Size - 1
    BY <1>3, <2>2, <2>4
  <2>6. y % Size = (rp + 1) % Size
    BY <2>1, Zenon
  <2> QED
    BY <1>3, <2>1, <2>4, <2>5, <2>6
<1>9. /\ stbuf'.ring = stbuf.ring /\ stbuf'.buf_wp = stbuf.buf_wp /\ stbuf'.buf_rp = r2
      /\ stbuf'.payload = stbuf.payload /\ stbuf'.stream_offset = stbuf.stream_offset
      /\ stbuf' \in StbufRecords
  <2>1. stbuf' = [stbuf EXCEPT !.buf_rp = r2] /\ stbuf \in StbufRecords
    BY <1>1, <1>2, <1>5, <1>8 DEF TypeOK
  <2> QED
    BY <2>1 DEF StbufRecords
<1>10. Level' = L - 1
  <2>1. PICK y \in Int : y = wp - r2
    BY <1>3
  <2>2. -Size <= y /\ y < Size
    BY <1>3, <2>1
  <2>3. y % Size = IF y >= 0 THEN y ELSE y + Size
    BY <2>2, ModBelow
  <2>4. y % Size = L - 1
    BY <1>3, <1>7, <1>8, <2>1, <2>3
  <2>5. Level' = y % Size
    BY <1>4, <1>9, <2>1 DEF Level
  <2> QED
    BY <2>4, <2>5
<1>11. RingOK'
  <2> SUFFICES ASSUME NEW i \in 1 .. L - 1
               PROVE  stbuf.ring[(r2 + i - 1) % Size] = read + 1 + i
    BY <1>2, <1>9, <1>10 DEF RingOK
  <2>1. PICK j \in 1 .. L : j = i + 1
    BY <1>3
  <2>2. stbuf.ring[(rp + j - 1) % Size] = read + j
    BY <1>1, <1>5, <1>6, <2>1 DEF RingOK
  <2>3. i \in 1 .. Size /\ j \in 1 .. Size
    BY <1>3
  <2>4. PICK p : /\ p = (r2 + i - 1) % Size
                 /\ p = IF r2 + i - 1 < Size THEN r2 + i - 1 ELSE r2 + i - 1 - Size
    BY <2>3, PlaceIs
  <2>5. PICK q : /\ q = (rp + j - 1) % Size
                 /\ q = IF rp + j - 1 < Size THEN rp + j - 1 ELSE rp + j - 1 - Size
    BY <2>3, PlaceIs
  <2>6. p = q
    <3>1. /\ p = IF r2 + i - 1 < Size THEN r2 + i - 1 ELSE r2 + i - 1 - Size
          /\ q = IF rp + j - 1 < Size THEN rp + j - 1 ELSE rp + j - 1 - Size
      BY <2>4, <2>5, Zenon
    <3>2. r2 = IF rp + 1 < Size THEN rp + 1 ELSE 0
      BY <1>8
    <3> QED
      BY <1>3, <2>1, <2>3, <3>1, <3>2
  <2>7. stbuf.ring[p] = read + j
    BY <2>2, <2>5, <2>6
  <2>8. read + j = read + 1 + i
    BY <1>3, <2>1
  <2> QED
    BY <2>4, <2>7, <2>8, Zenon
<1>12. TypeInv' /\ LockOK'
  BY <1>1, <1>2, <1>9, SMTT(30) DEF TypeInv, TypeOK, LockOK
<1>13. ParserOK' /\ Copied' = Copied /\ Queued(1)' = Queued(1) /\ Unit' = Unit
  BY <1>1, <1>2, <1>9 DEF ParserOK, Copied, Queued, Unit
<1>14. WorkLen'
  <2>1. Takes' <=> Takes
    BY <1>2 DEF Takes
  <2>2. work.pc \in {"push", "start", "fetch", "level"} => work.len \in 1 .. Len(Queued(1))
    BY <1>1 DEF WorkLen
  <2>3. Takes => work.len + (L - 1) + Reserve <= Size
    <3>1. Takes => work.len + L + Reserve <= Size
      BY <1>1, <1>6 DEF WorkLen
    <3>2. work.len \in 0 .. BufSize /\ BufSize \in Nat /\ Reserve \in Nat
      BY <1>1, ActorType, SizeType
    <3> QED
      BY <1>3, <3>1, <3>2
  <2> QED
    BY <1>2, <1>10, <1>13, <2>1, <2>2, <2>3 DEF WorkLen
<1>15. CountsOK'
  <2>1. read' + Level' = read + Level
    BY <1>2, <1>3, <1>6, <1>10
  <2>2. mode = "ring" => stbuf.payload = Level + 0
    BY <1>1, <1>2 DEF CountsOK
  <2>3. mode = "ring" => stbuf'.payload = Level' + 1 /\ dec' = "sub"
    BY <1>2, <1>3, <1>6, <1>9, <1>10, <2>2
  <2> QED
    BY <1>1, <1>2, <1>9, <1>13, <2>1, <2>3 DEF CountsOK
<1>16. /\ Fifos(task'.freefifo, task'.datafifo, task'.known)
       /\ Queue(task'.datafifo, task'.mem, Unit')
       /\ First(task'.datafifo, task'.mem, Unit', 1) = FirstUnit(1)
  BY <1>1, <1>2, <1>13, FifosIs, QueueIs
<1>17. First(task'.datafifo, task'.mem, Unit', 1) + Copied' = read' + Level' + 1
  <2>1. read' + Level' + 1 = read + Level + 1
    BY <1>2, <1>3, <1>6, <1>10
  <2> QED
    BY <1>1, <1>13, <1>16, <2>1 DEF JointOK
<1> QED
  BY <1>11, <1>12, <1>13, <1>14, <1>15, <1>16, <1>17, MoveOK

-----------------------------------------------------------------------------
(* The port is opened *)

Fresh == /\ mode \in Modes /\ task = NewTask /\ stbuf = NewStbuf /\ parser = NewParser
         /\ app \in [pc : {"idle", "write", "again"}, left : Nat, off : Nat]
         /\ app.pc = "idle" /\ app.left = 0 /\ app.off = 0
         /\ work \in [pc : {"idle", "space", "push", "start", "fetch", "level"},
                      len : 0 .. BufSize, wp : 0 .. Size - 1]
         /\ work.pc = "idle" /\ dec = "idle" /\ sent = 0 /\ read = 0 /\ fails \in Nat /\ opens \in Nat

\* A port that was just opened
LEMMA FreshOK == Fresh => Inv
<1> SUFFICES ASSUME Fresh PROVE Inv
  OBVIOUS
<1> USE DEF Fresh
<1>1. Size \in Nat \ {0} /\ MaxUnits \in Nat /\ IsFiniteSet(FirstBufs) /\ FirstBufs \in SUBSET Bufs
  BY SizeType, BoundAssumption, SizesAssumption, FS_Subset
<1>2. PICK f \in Seq(FirstBufs) :
         /\ f = SetToSeq(FirstBufs) /\ \A j, k \in 1 .. Len(f) : f[j] = f[k] => j = k
         /\ \A b \in FirstBufs : \E j \in 1 .. Len(f) : f[j] = b
  BY <1>1, SetToSeqIs
<1>3. /\ f \in Seq(Bufs) /\ f \in Seq(Bufs \cup {UserPtr})
      /\ \A j \in 1 .. Len(f) : f[j] \in FirstBufs
  BY <1>1
<1>4. /\ task.freefifo = f /\ task.datafifo = <<>> /\ task.mem = [b \in Bufs |-> <<>>]
      /\ task.known = FirstBufs /\ task.buffered_data_size = 0 /\ task.data_offset = 0
      /\ task.passed_data_len = 0 /\ task.mutex = "none"
  BY <1>2 DEF NewTask
<1>5. task \in TaskRecords
  <2>1. [b \in Bufs |-> <<>>] \in [Bufs -> Seq(1 .. MaxUnits)]
    OBVIOUS
  <2>2. task = [freefifo |-> f, datafifo |-> <<>>, mem |-> [b \in Bufs |-> <<>>],
                known |-> FirstBufs, buffered_data_size |-> 0, data_offset |-> 0,
                passed_data_len |-> 0, failed_onmore |-> FALSE, mutex |-> "none"]
    BY <1>2 DEF NewTask
  <2>3. <<>> \in Seq(Bufs)
    OBVIOUS
  <2> QED
    BY <1>1, <1>3, <2>1, <2>2, <2>3 DEF TaskRecords
<1>6. /\ stbuf.buf_wp = 0 /\ stbuf.buf_rp = 0 /\ stbuf.payload = 0 /\ stbuf.stream_offset = 0
      /\ stbuf \in StbufRecords
  BY <1>1 DEF NewStbuf, StbufRecords
<1>7. parser \in ParserRecords /\ parser.hw = "idle" /\ parser.video_data_parsed = 0
  BY DEF NewParser, ParserRecords
<1>8. TypeInv
  BY <1>3, <1>4, <1>5, <1>6, <1>7 DEF TypeInv, TypeOK
<1>9. LockOK
  BY <1>1, <1>4 DEF LockOK
<1>10. Fifos(f, <<>>, FirstBufs)
  <2>1. 1 .. Len(<<>>) = {}
    OBVIOUS
  <2> QED
    BY <1>2, <1>3, <2>1 DEF Fifos
<1>11. FifosOK
  BY <1>4, <1>8, <1>10, FifosIs
<1>12. Level = 0 /\ Copied = 0
  BY <1>6, <1>8, LevelIs DEF TypeInv, Copied
<1>13. DOMAIN task.datafifo = {} /\ Len(task.datafifo) = 0
  BY <1>4
<1>14. LengthOK /\ ParserOK
  BY <1>7, <1>13 DEF LengthOK, ParserOK, Takes
<1>15. CountsOK
  BY <1>4, <1>6, <1>7, <1>12 DEF CountsOK
<1>16. FirstUnit(1) = 1
  BY <1>13 DEF FirstUnit
<1>17. RingOK /\ JointOK /\ QueueOK
  BY <1>12, <1>13, <1>16 DEF RingOK, JointOK, QueueOK
<1> QED
  BY <1>8, <1>9, <1>11, <1>14, <1>15, <1>17, InOrderParts DEF Inv

\* The invariant holds at the start.
LEMMA InitOK == Init => Inv
<1> SUFFICES ASSUME Init PROVE Fresh
  BY FreshOK
<1> QED
  BY SizeType DEF Init, Fresh, Rest

\* The port is opened again.
LEMMA ReopenOK ==
    ASSUME Inv, NEW m \in Modes, Reopen(m)
    PROVE  Inv'
<1>1. Fresh' => Inv'
  BY FreshOK, PTL
<1>2. TypeInv /\ LockOK
  BY DEF Inv
<1>3. Fresh'
  <2>1. /\ app.pc = "idle" /\ work.pc = "idle" /\ opens' = opens + 1
        /\ mode' = m /\ task' = NewTask /\ stbuf' = NewStbuf /\ parser' = NewParser
        /\ dec' = "idle" /\ sent' = 0 /\ read' = 0 /\ UNCHANGED <<app, work, fails>>
    BY DEF Reopen
  <2>2. app.left = 0 /\ app.off = 0
    BY <1>2, <2>1 DEF LockOK
  <2> QED
    BY <1>2, <2>1, <2>2 DEF Fresh, TypeInv, TypeOK, NewTask, NewStbuf, NewParser
<1> QED
  BY <1>1, <1>3

\* The invariant is kept by every step.
LEMMA NextOK ==
    ASSUME Inv, [Next]_vars, TRUE \notin CopyFails
    PROVE  Inv'
<1>1. CASE \E n \in WriteSizes : WriteBegin(n)
  BY <1>1, WriteBeginOK
<1>2. CASE CallStep
  <2>1. CASE \E fault \in CopyFails : threadrw_write_onece(fault)
    <3>1. PICK fault \in CopyFails : threadrw_write_onece(fault)
      BY <2>1
    <3>2. fault = FALSE
      BY BoundAssumption
    <3> QED
      BY <3>1, <3>2, WriteOneceOK
  <2> QED
    BY <1>2, <2>1, WriteEndOK DEF CallStep
<1>3. CASE \E B \in SUBSET (Bufs \ task.known) : threadrw_alloc_more_buffer_size(B)
  BY <1>3, AllocMoreOK
<1>4. CASE WriteAgain \/ WorkLock
  BY <1>4, WriteAgainOK, WorkLockOK
<1>5. CASE WorkStep
  BY <1>5, WriteExOK, WriteInnerOK, CopyUnmappedOK, FetchStartOK, FetchEndOK, FetchTimeoutOK, LevelDownOK
     DEF WorkStep
<1>6. CASE HwStep \/ DecStep
  BY <1>6, HwFetchOK, EsparserIsrOK, SetRpOK, SubPayloadOK DEF HwStep, DecStep
<1>7. CASE \E m \in Modes : Reopen(m)
  BY <1>7, ReopenOK
<1>8. CASE UNCHANGED vars
  <2>1. /\ task' = task /\ stbuf' = stbuf /\ parser' = parser /\ app' = app /\ work' = work /\ dec' = dec
        /\ sent' = sent /\ read' = read /\ mode' = mode /\ fails' = fails /\ opens' = opens
    BY <1>8 DEF vars, actors, ghosts, bounds
  <2>2. TypeInv /\ LockOK /\ FifosOK /\ ParserOK /\ CountsOK /\ WorkLen
    BY LengthParts DEF Inv
  <2>3. Still /\ Copied' = Copied /\ Level' = Level /\ Queued(1)' = Queued(1)
    BY <2>1, StillSame DEF Still, Copied
  <2>4. TypeInv' /\ LockOK' /\ FifosOK'
    BY <2>1, <2>2 DEF TypeInv, TypeOK, LockOK, FifosOK
  <2>5. ParserOK' /\ CountsOK' /\ WorkLen'
    BY <2>1, <2>2, <2>3 DEF ParserOK, CountsOK, WorkLen, Takes
  <2> QED
    BY <2>3, <2>4, <2>5, StillOK
<1> QED
  BY <1>1, <1>2, <1>3, <1>4, <1>5, <1>6, <1>7, <1>8 DEF Next

-----------------------------------------------------------------------------

(* The invariant holds in every state, for rings and blocks of any size,   *)
(* any number of blocks and of timeouts (thread_rw.c,                      *)
(* stream_buffer_interface.c, esparser.c), unless copy_from_user fails.    *)
THEOREM Invariance ==
    ASSUME TRUE \notin CopyFails
    PROVE  Spec => []Inv
<1>1. Init => Inv
  BY InitOK
<1>2. Inv /\ [Next]_vars => Inv'
  BY NextOK
<1> QED
  BY <1>1, <1>2, PTL DEF Spec

\* The variables keep their types: the pointers stay inside the ring.
THEOREM TypeCorrect ==
    ASSUME TRUE \notin CopyFails
    PROVE  Spec => []TypeOK
<1>1. Inv => TypeOK
  BY DEF Inv, TypeInv
<1> QED
  BY <1>1, Invariance, PTL

(* The decoder reads what the application wrote, each unit once and in     *)
(* order, over wrapping stores, blocks passed on by half and fetches that  *)
(* time out (do_write_work_in, rb_push_data, esparser_stbuf_write).        *)
THEOREM StreamInOrder ==
    ASSUME TRUE \notin CopyFails
    PROVE  Spec => []InOrder
<1>1. Inv => InOrder
  BY DEF Inv
<1> QED
  BY <1>1, Invariance, PTL

\* Every block is free or queued, once.
LEMMA FifosExact ==
    ASSUME NEW f \in Seq(Bufs), NEW d \in Seq(Bufs), NEW K \in SUBSET Bufs, Fifos(f, d, K)
    PROVE  IsInjective(f \o d) /\ ToSet(f \o d) = K
<1>1. Len(f) \in Nat /\ Len(d) \in Nat
  OBVIOUS
<1>2. /\ \A j, k \in 1 .. Len(d) : d[j] = d[k] => j = k
      /\ \A j, k \in 1 .. Len(f) : f[j] = f[k] => j = k
      /\ \A j \in 1 .. Len(f), k \in 1 .. Len(d) : f[j] # d[k]
      /\ \A j \in 1 .. Len(f) : f[j] \in K
      /\ \A k \in 1 .. Len(d) : d[k] \in K
      /\ \A b \in K : (\E j \in 1 .. Len(f) : f[j] = b) \/ (\E k \in 1 .. Len(d) : d[k] = b)
  BY DEF Fifos
<1> DEFINE g == f \o d
<1>3. g \in Seq(Bufs) /\ Len(g) = Len(f) + Len(d) /\ DOMAIN g = 1 .. Len(g)
  BY <1>1
<1>4. \A j \in 1 .. Len(f) : g[j] = f[j] /\ j \in 1 .. Len(g)
  BY <1>1, <1>3
<1>5. \A j \in 1 .. Len(d) : g[j + Len(f)] = d[j] /\ j + Len(f) \in 1 .. Len(g)
  BY <1>1, <1>3
<1> HIDE DEF g
<1>6. \A j \in 1 .. Len(g) : j \in 1 .. Len(f) \/ \E k \in 1 .. Len(d) : j = k + Len(f)
  <2> SUFFICES ASSUME NEW j \in 1 .. Len(g), j \notin 1 .. Len(f)
               PROVE  \E k \in 1 .. Len(d) : j = k + Len(f)
    OBVIOUS
  <2>1. j - Len(f) \in 1 .. Len(d) /\ j = (j - Len(f)) + Len(f)
    BY <1>1, <1>3
  <2> QED
    BY <2>1
<1>7. \A j \in 1 .. Len(g) : g[j] \in K
  <2> SUFFICES ASSUME NEW j \in 1 .. Len(g) PROVE g[j] \in K
    OBVIOUS
  <2>1. CASE j \in 1 .. Len(f)
    BY <1>2, <1>4, <2>1
  <2>2. CASE \E k \in 1 .. Len(d) : j = k + Len(f)
    <3>1. PICK k \in 1 .. Len(d) : j = k + Len(f)
      BY <2>2
    <3>2. g[j] = d[k]
      BY <1>5, <3>1
    <3> QED
      BY <1>2, <3>2
  <2> QED
    BY <1>6, <2>1, <2>2
<1>8. \A b \in K : \E j \in 1 .. Len(g) : g[j] = b
  <2> SUFFICES ASSUME NEW b \in K PROVE \E j \in 1 .. Len(g) : g[j] = b
    OBVIOUS
  <2>1. CASE \E j \in 1 .. Len(f) : f[j] = b
    BY <1>4, <2>1
  <2>2. CASE \E k \in 1 .. Len(d) : d[k] = b
    <3>1. PICK k \in 1 .. Len(d) : d[k] = b
      BY <2>2
    <3>2. g[k + Len(f)] = b /\ k + Len(f) \in 1 .. Len(g)
      BY <1>5, <3>1
    <3> QED
      BY <3>2
  <2> QED
    BY <1>2, <2>1, <2>2
<1>9. \A j, k \in 1 .. Len(g) : g[j] = g[k] => j = k
  <2> SUFFICES ASSUME NEW j \in 1 .. Len(g), NEW k \in 1 .. Len(g), g[j] = g[k] PROVE j = k
    OBVIOUS
  <2>1. CASE j \in 1 .. Len(f) /\ k \in 1 .. Len(f)
    BY <1>2, <1>4, <2>1
  <2>2. CASE j \notin 1 .. Len(f) /\ k \notin 1 .. Len(f)
    <3>1. PICK a \in 1 .. Len(d) : j = a + Len(f)
      BY <1>6, <2>2
    <3>2. PICK b \in 1 .. Len(d) : k = b + Len(f)
      BY <1>6, <2>2
    <3>3. d[a] = d[b]
      BY <1>5, <3>1, <3>2
    <3>4. a = b
      BY <1>2, <3>3
    <3> QED
      BY <3>1, <3>2, <3>4
  <2>3. CASE j \in 1 .. Len(f) /\ k \notin 1 .. Len(f)
    <3>1. PICK b \in 1 .. Len(d) : k = b + Len(f)
      BY <1>6, <2>3
    <3> QED
      BY <1>2, <1>4, <1>5, <2>3, <3>1
  <2>4. CASE j \notin 1 .. Len(f) /\ k \in 1 .. Len(f)
    <3>1. PICK b \in 1 .. Len(d) : j = b + Len(f)
      BY <1>6, <2>4
    <3> QED
      BY <1>2, <1>4, <1>5, <2>4, <3>1
  <2> QED
    BY <2>1, <2>2, <2>3, <2>4
<1>10. IsInjective(g)
  BY <1>3, <1>9 DEF IsInjective
<1>11. ToSet(g) = K
  BY <1>3, <1>7, <1>8 DEF ToSet
<1> QED
  BY <1>10, <1>11 DEF g

(* No block is lost or queued twice, and the levels and offsets kept by    *)
(* the thread, the ring and the parser are what was really written, passed *)
(* on and read (thread_rw.c, stream_buffer_interface.c, esparser.c).       *)
THEOREM AccountsAreExact ==
    ASSUME TRUE \notin CopyFails
    PROVE  Spec => []AccountsExact
<1>1. Inv => AccountsExact
  <2> SUFFICES ASSUME Inv PROVE AccountsExact
    OBVIOUS
  <2>1. TypeInv /\ FifosOK /\ CountsOK /\ TypeOK
    BY DEF Inv, TypeInv
  <2>2. IsInjective(task.freefifo \o task.datafifo) /\ ToSet(task.freefifo \o task.datafifo) = task.known
    BY <2>1, TaskType, FifosIs, FifosExact
  <2>3. mode # "ring" => mode = "parser"
    BY <2>1, BoundAssumption DEF TypeOK
  <2>4. mode = "parser" => parser.video_data_parsed + (IF work.pc = "fetch" THEN Copied ELSE 0) = read + Level
    <3> SUFFICES ASSUME mode = "parser"
                 PROVE  parser.video_data_parsed + (IF work.pc = "fetch" THEN Copied ELSE 0) = read + Level
      OBVIOUS
    <3>1. task.passed_data_len \in Nat /\ work.len \in Nat
      BY <2>1, TaskType, ActorType, SizeType
    <3>2. /\ task.passed_data_len + Copied = read + Level
          /\ parser.video_data_parsed = task.passed_data_len + (IF work.pc = "level" THEN work.len ELSE 0)
      BY <2>1 DEF CountsOK
    <3>3. /\ work.pc = "level" => Copied = work.len
          /\ work.pc # "level" /\ work.pc # "fetch" => Copied = 0
      BY DEF Copied
    <3> QED
      BY <3>1, <3>2, <3>3
  <2> QED
    BY <2>1, <2>2, <2>3, <2>4 DEF AccountsExact, CountsOK
<1> QED
  BY <1>1, Invariance, PTL

(* A time stamp is checked in with the offset of the next unit the         *)
(* application writes, although es_vpts_checkin adds two counters that the *)
(* parser changes one after the other; AMSTREAM_SET_TSTAMP on a ring the   *)
(* driver fills, which takes the thread's offset, is left out.             *)
THEOREM TstampsAreExact ==
    ASSUME TRUE \notin CopyFails, <<"ring", "tstamp">> \notin StampKinds
    PROVE  Spec => []TstampExact
<1>1. Inv => TstampExact
  <2> SUFFICES ASSUME Inv, NEW ioctl \in {"tstamp", "us64"}, MayCheckin(ioctl)
               PROVE  Offset(ioctl) = sent
    BY DEF TstampExact
  <2>1. TypeInv /\ CountsOK /\ TypeOK
    BY DEF Inv, TypeInv
  <2>2. CASE ioctl = "us64"
    BY <2>1, <2>2 DEF Offset, CountsOK
  <2>3. CASE ioctl = "tstamp"
    <3>1. mode = "parser" /\ work.pc # "level"
      <4>1. mode \in {"ring", "parser"}
        BY <2>1, BoundAssumption DEF TypeOK
      <4>2. <<mode, ioctl>> \in StampKinds /\ (mode = "parser" => ~esparser_mutex)
        BY <2>3 DEF MayCheckin
      <4>3. mode # "ring"
        BY <2>3, <4>2
      <4> QED
        BY <4>1, <4>2, <4>3 DEF esparser_mutex
    <3>2. Offset(ioctl) = parser.video_data_parsed + task.buffered_data_size
      BY <2>3, <3>1 DEF Offset
    <3>3. task.passed_data_len \in Nat /\ task.buffered_data_size \in Int /\ parser.video_data_parsed \in Nat
      BY <2>1, TaskType, ActorType
    <3>4. /\ task.buffered_data_size + task.passed_data_len = sent
          /\ parser.video_data_parsed = task.passed_data_len + 0
      BY <2>1, <3>1 DEF CountsOK
    <3> QED
      BY <3>2, <3>3, <3>4
  <2> QED
    BY <2>2, <2>3
<1> QED
  BY <1>1, Invariance, PTL
=============================================================================
