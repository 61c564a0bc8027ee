--------------------------- MODULE BufCoreProofs ----------------------------
(***************************************************************************)
(* Proofs about BufCore for every set of buffers, every context and every  *)
(* bound on the decoder's references: its invariants, and that it          *)
(* implements the pool of BufPool.  The holder counters are proved for the *)
(* contexts and the bounds they can be right for.                          *)
(***************************************************************************)
EXTENDS BufCoreImpl, FiniteSetTheorems, TLAPS

Holders == {"DEC", "VPP", "GE2D", "SINK", "DI", "FREE"}
Books   == [w : Int, h : Holders]

-----------------------------------------------------------------------------
(* Lemmas about the operators *)

\* The units of the counters are integers.
LEMMA ShiftType ==
    \A u \in {"DEC", "GE2D", "VPP", "SINK", "DI"} : Shift(u) \in Int
BY DEF Shift

\* direction_buf_get keeps the word an integer and the holder a holder.
LEMMA GetType ==
    ASSUME NEW r \in Books, NEW u \in {"DEC", "GE2D", "VPP", "SINK", "DI"}, NEW pre
    PROVE  direction_buf_get(r, u, pre) \in Books
BY ShiftType DEF direction_buf_get, Books, Holders

\* So does direction_buf_put.
LEMMA PutType ==
    ASSUME NEW r \in Books, NEW u \in {"DEC", "GE2D", "VPP", "SINK", "DI"}
    PROVE  direction_buf_put(r, u) \in Books
BY ShiftType DEF direction_buf_put, Books, Holders

\* The route of a requester starts with it and goes on to other users, all
\* downstream.
LEMMA RouteOK ==
    ASSUME NEW u \in Requesters(Ctx)
    PROVE  /\ Route(Ctx, u) \in Seq(TaskTypes)
           /\ Len(Route(Ctx, u)) >= 2
           /\ Route(Ctx, u)[1] = u
           /\ \A i \in 2..Len(Route(Ctx, u)) :
                 Route(Ctx, u)[i] \in {"GE2D", "VPP", "SINK"} /\ Route(Ctx, u)[i] # u
<1>1. Ctx.avbc = FALSE /\ Ctx.ge2d \in BOOLEAN /\ Ctx.vpp \in BOOLEAN /\ Ctx.is_prog \in BOOLEAN
  BY CtxAssumption DEF Contexts
<1>2. u \in {"DEC", "GE2D", "VPP"}
  BY <1>1 DEF Requesters
<1>3. \E x, y \in {"GE2D", "VPP", "SINK"} :
         x # u /\ y # u /\ Route(Ctx, u) \in {<<u, x>>, <<u, x, y>>}
  BY <1>1, <1>2 DEF Route, Requesters
<1>4. PICK x \in {"GE2D", "VPP", "SINK"}, y \in {"GE2D", "VPP", "SINK"} :
         x # u /\ y # u /\ Route(Ctx, u) \in {<<u, x>>, <<u, x, y>>}
  BY <1>3
<1>5. CASE Route(Ctx, u) = <<u, x>>
  BY <1>2, <1>4, <1>5 DEF TaskTypes
<1>6. CASE Route(Ctx, u) = <<u, x, y>>
  BY <1>2, <1>4, <1>6 DEF TaskTypes
<1> QED
  BY <1>4, <1>5, <1>6

\* A user on the chain that is not its end has a downstream neighbour there.
LEMMA NextOK ==
    ASSUME TypeOK, ChainOK, NEW b \in Bufs, NEW u, Places(b, u) # {}, ~IsLast(b, u)
    PROVE  /\ NextUser(b, u) \in {"GE2D", "VPP", "SINK"}
           /\ Places(b, NextUser(b, u)) # {}
<1>1. Pos(b, u) \in Places(b, u)
  BY DEF Pos
<1>2. chain[b] \in Seq(TaskTypes)
  BY DEF TypeOK
<1>3. Pos(b, u) \in 1..Len(chain[b]) /\ Pos(b, u) < Len(chain[b])
  BY <1>1, <1>2 DEF Places, IsLast
<1>4. NextUser(b, u) = chain[b][Pos(b, u) + 1]
  BY <1>3 DEF NextUser
<1>5. Pos(b, u) + 1 \in 2..Len(chain[b])
  BY <1>2, <1>3
<1> QED
  BY <1>2, <1>4, <1>5 DEF ChainOK, Places

\* The source of a chain of several users is not its end.
LEMMA SourceOK ==
    ASSUME TypeOK, ChainOK, NEW b \in Bufs, Len(chain[b]) >= 2
    PROVE  Places(b, chain[b][1]) # {} /\ ~IsLast(b, chain[b][1])
<1>1. chain[b] \in Seq(TaskTypes)
  BY DEF TypeOK
<1>2. 1 \in Places(b, chain[b][1])
  BY <1>1 DEF Places
<1>3. Pos(b, chain[b][1]) \in Places(b, chain[b][1])
  BY <1>2 DEF Pos
<1>4. Pos(b, chain[b][1]) \in Nat /\ Pos(b, chain[b][1]) < 2
  BY <1>1, <1>3 DEF Places, ChainOK
<1>5. ~IsLast(b, chain[b][1])
  BY <1>1, <1>4 DEF IsLast
<1> QED
  BY <1>2, <1>5

\* Places and ends move only with the chain.
LEMMA ChainSame ==
    ASSUME NEW b \in Bufs, chain'[b] = chain[b]
    PROVE  \A u : /\ Places(b, u)' = Places(b, u)
                  /\ IsLast(b, u)' = IsLast(b, u)
BY DEF Places, Pos, IsLast

\* A callback's standing is kept by steps that leave its buffer alone.
LEMMA PassedSame ==
    ASSUME NEW b \in Bufs, PassedAt(b),
           chain'[b] = chain[b], where'[b] = where[b], passed'[b] = passed[b],
           (off /\ stop = "run") => (off' /\ stop' = "run")
    PROVE  PassedAt(b)'
BY ChainSame DEF PassedAt

\* The queue a reset leaves.
LEMMA EmptyQue == <<>> \in Seq(Bufs) /\ Len(<<>>) = 0
OBVIOUS

\* The number of entries in the table follows attach and detach.
LEMMA TableCard ==
    ASSUME TypeOK
    PROVE  /\ IsFiniteSet(tbl) /\ Cardinality(tbl) \in Nat
           /\ Cardinality(tbl) = 0 <=> tbl = {}
           /\ \A b \in Bufs \ tbl : Cardinality(tbl \cup {b}) = Cardinality(tbl) + 1
           /\ \A b \in tbl : Cardinality(tbl \ {b}) = Cardinality(tbl) - 1
<1>1. IsFiniteSet(tbl)
  BY BufsAssumption, FS_Subset DEF TypeOK
<1> QED
  BY <1>1, FS_CardinalityType, FS_EmptySet, FS_AddElement, FS_RemoveElement

\* The manager's count follows a detach, and the last detach after the release
\* destroys it.
LEMMA PutCoreOK ==
    ASSUME TypeOK, CoreRefExact, NEW b \in tbl, tbl' = tbl \ {b}, UNCHANGED released, PutCore
    PROVE  CoreRefExact' /\ (tbl' # {} => bm_state' = bm_state)
<1> DEFINE n == Cardinality(tbl)
           m == B2N(~released)
<1>1. n \in Nat /\ Cardinality(tbl') = n - 1
  BY TableCard
<1>2. n - 1 \in Nat /\ ((n - 1 = 0) <=> tbl' = {})
  <2>1. IsFiniteSet(tbl')
    BY TableCard, FS_Subset
  <2> QED
    BY <1>1, <2>1, FS_EmptySet, FS_CardinalityType
<1>3. m \in {0, 1} /\ (m = 0 <=> released) /\ B2N(~released') = m
  BY DEF B2N, TypeOK
<1>4. core_ref = n + m /\ bm_state # "EXIT"
  BY DEF CoreRefExact
<1> HIDE DEF n, m
<1>5. core_ref' = (n - 1) + m /\ (core_ref' = 0 <=> (released /\ tbl' = {}))
  BY <1>1, <1>2, <1>3, <1>4 DEF PutCore
<1>6. (bm_state' = "EXIT" <=> core_ref' = 0) /\ (core_ref' # 0 => bm_state' = bm_state)
  BY <1>4, <1>5 DEF PutCore
<1> QED
  BY <1>1, <1>3, <1>5, <1>6 DEF CoreRefExact

-----------------------------------------------------------------------------
(* The steps of the users and of STREAMOFF that count no reference *)

\* The capture worker's step keeps the invariant.
LEMMA InvPost ==
    ASSUME Inv, ~intruded, NEW b \in Bufs, Post(b)
    PROVE  Inv'
<1> USE DEF Inv, Post, coreVars, entryVars, ctlVars
<1>1. TypeOK'
  BY DEF TypeOK, Where
<1>2. RefExact' /\ FreeQueExact' /\ CoreRefExact'
  BY DEF TypeOK, RefExact, FreeQueExact, CoreRefExact, Claims, B2N
<1>3. ChainOK' /\ UsersOnChain' /\ StateOK'
  BY DEF TypeOK, ChainOK, UsersOnChain, StateOK, PostProcs, Places
<1>4. FreshOK' /\ DiOK' /\ TableOK'
  BY DEF TypeOK, FreshOK, DiOK, TableOK, PostProcs
<1>5. PassedOK' /\ StopOK'
  BY ChainSame, ZenonT(30) DEF TypeOK, PassedOK, PassedAt, StopOK, Calls, PostProcs, NoCall, NoType
<1> QED
  BY <1>1, <1>2, <1>3, <1>4, <1>5

\* So does a callback's test of is_stream_off.
LEMMA InvPPCheck ==
    ASSUME Inv, ~intruded, NEW b \in Bufs, PPCheck(b)
    PROVE  Inv'
<1> USE DEF Inv, PPCheck, coreVars, entryVars, ctlVars
<1>1. TypeOK'
  BY DEF TypeOK, Where, Calls, PostProcs
<1>2. RefExact' /\ FreeQueExact' /\ CoreRefExact'
  BY DEF TypeOK, RefExact, FreeQueExact, CoreRefExact, Claims, B2N
<1>3. ChainOK' /\ UsersOnChain' /\ StateOK'
  BY DEF TypeOK, ChainOK, UsersOnChain, StateOK, PostProcs, Places
<1>4. FreshOK' /\ DiOK' /\ TableOK'
  BY DEF TypeOK, FreshOK, DiOK, TableOK, PostProcs
<1>5. PassedOK' /\ StopOK'
  BY ChainSame DEF TypeOK, PassedOK, PassedAt, StopOK, Calls, PostProcs, NoCall, NoType
<1> QED
  BY <1>1, <1>2, <1>3, <1>4, <1>5

\* So does the DI manager's callback: the reference becomes pending work.
LEMMA InvDiRelease ==
    ASSUME Inv, ~intruded, NEW b \in Bufs, DiRelease(b)
    PROVE  Inv'
<1> USE DEF Inv, DiRelease, coreVars, entryVars
<1>1. TypeOK'
  BY DEF TypeOK, Where
<1>2. RefExact' /\ FreeQueExact' /\ CoreRefExact'
  BY DEF TypeOK, RefExact, FreeQueExact, CoreRefExact, Claims, B2N, DiOK, TableOK, StopOK
<1>3. ChainOK' /\ UsersOnChain' /\ StateOK'
  BY DEF TypeOK, ChainOK, UsersOnChain, StateOK, PostProcs, Places
<1>4. FreshOK' /\ DiOK' /\ TableOK'
  BY DEF TypeOK, FreshOK, DiOK, TableOK, PostProcs
<1>5. PassedOK' /\ StopOK'
  BY ChainSame DEF TypeOK, PassedOK, PassedAt, StopOK, Calls, PostProcs, NoCall, NoType, DiOK, TableOK
<1> QED
  BY <1>1, <1>2, <1>3, <1>4, <1>5

\* So does STREAMON.
LEMMA InvStreamOn ==
    ASSUME Inv, ~intruded, StreamOn
    PROVE  Inv'
<1> USE DEF Inv, StreamOn, coreVars, entryVars
<1>1. TypeOK'
  BY DEF TypeOK, Where
<1>2. RefExact' /\ FreeQueExact' /\ CoreRefExact'
  BY DEF TypeOK, RefExact, FreeQueExact, CoreRefExact, Claims, B2N
<1>3. ChainOK' /\ UsersOnChain' /\ StateOK'
  BY DEF TypeOK, ChainOK, UsersOnChain, StateOK, PostProcs, Places
<1>4. FreshOK' /\ DiOK' /\ TableOK'
  BY DEF TypeOK, FreshOK, DiOK, TableOK, PostProcs
<1>5. PassedOK' /\ StopOK'
  BY ChainSame DEF TypeOK, PassedOK, PassedAt, StopOK, Calls, PostProcs, NoCall, NoType
<1> QED
  BY <1>1, <1>2, <1>3, <1>4, <1>5

\* So does the start of STREAMOFF.
LEMMA InvStopBegin ==
    ASSUME Inv, ~intruded, StopBegin
    PROVE  Inv'
<1> USE DEF Inv, StopBegin, StopStep, coreVars, entryVars, userVars
<1>1. TypeOK'
  BY DEF TypeOK, Where, Stops
<1>2. RefExact' /\ FreeQueExact' /\ CoreRefExact'
  BY DEF TypeOK, RefExact, FreeQueExact, CoreRefExact, Claims, B2N
<1>3. ChainOK' /\ UsersOnChain' /\ StateOK'
  BY DEF TypeOK, ChainOK, UsersOnChain, StateOK, PostProcs, Places
<1>4. FreshOK' /\ DiOK' /\ TableOK'
  BY DEF TypeOK, FreshOK, DiOK, TableOK, PostProcs
<1>5. PassedOK' /\ StopOK'
  BY ChainSame DEF TypeOK, PassedOK, PassedAt, StopOK, Calls, PostProcs, NoCall, NoType
<1> QED
  BY <1>1, <1>2, <1>3, <1>4, <1>5

\* So does the decoder's reset.
LEMMA InvVdecReset ==
    ASSUME Inv, ~intruded, VdecReset
    PROVE  Inv'
<1> USE DEF Inv, VdecReset, StopStep, coreVars, entryVars, userVars
<1>1. TypeOK'
  BY DEF TypeOK, Where, Stops
<1>2. RefExact' /\ FreeQueExact' /\ CoreRefExact'
  BY DEF TypeOK, RefExact, FreeQueExact, CoreRefExact, Claims, B2N
<1>3. ChainOK' /\ UsersOnChain' /\ StateOK'
  BY DEF TypeOK, ChainOK, UsersOnChain, StateOK, PostProcs, Places
<1>4. FreshOK' /\ DiOK' /\ TableOK'
  BY DEF TypeOK, FreshOK, DiOK, TableOK, PostProcs
<1>5. PassedOK' /\ StopOK'
  BY ChainSame DEF TypeOK, PassedOK, PassedAt, StopOK, Calls, PostProcs, NoCall, NoType
<1> QED
  BY <1>1, <1>2, <1>3, <1>4, <1>5

\* So does the DI manager's reset.
LEMMA InvVppReset ==
    ASSUME Inv, ~intruded, VppReset
    PROVE  Inv'
<1> USE DEF Inv, VppReset, StopStep, coreVars, entryVars
<1>1. TypeOK'
  BY DEF TypeOK, Where, Stops
<1>2. RefExact' /\ FreeQueExact' /\ CoreRefExact'
  BY DEF TypeOK, RefExact, FreeQueExact, CoreRefExact, Claims, B2N
<1>3. ChainOK' /\ UsersOnChain' /\ StateOK'
  BY DEF TypeOK, ChainOK, UsersOnChain, StateOK, PostProcs, Places
<1>4. FreshOK' /\ DiOK' /\ TableOK'
  BY DEF TypeOK, FreshOK, DiOK, TableOK, PostProcs
<1>5. PassedOK' /\ StopOK'
  BY ChainSame DEF TypeOK, PassedOK, PassedAt, StopOK, Calls, PostProcs, NoCall, NoType
<1> QED
  BY <1>1, <1>2, <1>3, <1>4, <1>5

\* So does the flush of the work queue.
LEMMA InvFlushWork ==
    ASSUME Inv, ~intruded, FlushWork
    PROVE  Inv'
<1> USE DEF Inv, FlushWork, StopStep, coreVars, entryVars, userVars
<1>1. TypeOK'
  BY DEF TypeOK, Where, Stops
<1>2. RefExact' /\ FreeQueExact' /\ CoreRefExact'
  BY DEF TypeOK, RefExact, FreeQueExact, CoreRefExact, Claims, B2N
<1>3. ChainOK' /\ UsersOnChain' /\ StateOK'
  BY DEF TypeOK, ChainOK, UsersOnChain, StateOK, PostProcs, Places
<1>4. FreshOK' /\ DiOK' /\ TableOK'
  BY DEF TypeOK, FreshOK, DiOK, TableOK, PostProcs
<1>5. PassedOK' /\ StopOK'
  BY ChainSame DEF TypeOK, PassedOK, PassedAt, StopOK, Calls, PostProcs, NoCall, NoType
<1> QED
  BY <1>1, <1>2, <1>3, <1>4, <1>5

\* The core's reset recounts every entry as the application's.
LEMMA InvReset ==
    ASSUME Inv, ~intruded, buf_core_reset
    PROVE  Inv'
<1> USE DEF Inv, buf_core_reset, StoppedUsers, StopStep, entryVars
<1>1. TypeOK'
  <2>1. free_que' \in Seq(Bufs) /\ free_num' \in Int
    BY EmptyQue DEF TypeOK
  <2>2. bm_state' \in {"INIT", "ACTIVE", "EXIT"} /\ core_ref' \in Int
    BY DEF TypeOK
  <2>3. bst' \in [Bufs -> {"INIT", "FREE", "USE", "REF", "DONE", "ERR"}]
    BY DEF TypeOK
  <2>4. where' \in [Bufs -> Where] /\ decRef' \in [Bufs -> 0..MaxDecRef]
    BY DecRefAssumption DEF TypeOK, Where
  <2>5. di' \in [Bufs -> {"no", "ref", "kept", "stale"}] /\ stop' \in Stops
    BY DEF TypeOK, Stops
  <2>6. ref' \in [Bufs -> Int]
    BY DEF TypeOK
  <2>7. inited' \in [Bufs -> BOOLEAN]
    BY DEF TypeOK
  <2> QED
    BY <2>1, <2>2, <2>3, <2>4, <2>5, <2>6, <2>7 DEF TypeOK
<1>2. RefExact' /\ FreeQueExact' /\ CoreRefExact'
  BY DEF TypeOK, RefExact, FreeQueExact, CoreRefExact, Claims, B2N, TableOK, StopOK, FreshOK, DiOK, Range
<1>3. ChainOK' /\ UsersOnChain' /\ StateOK'
  BY DEF TypeOK, ChainOK, UsersOnChain, StateOK, PostProcs, Places
<1>4. FreshOK' /\ DiOK' /\ TableOK'
  BY DEF TypeOK, FreshOK, DiOK, TableOK, PostProcs, StopOK
<1>5. PassedOK' /\ StopOK'
  BY ChainSame DEF TypeOK, PassedOK, PassedAt, StopOK, Calls, PostProcs, NoCall, NoType, TableOK, FreshOK, DiOK
<1> QED
  BY <1>1, <1>2, <1>3, <1>4, <1>5
-----------------------------------------------------------------------------
(* The life of the entries *)

\* Attaching a new key.
LEMMA InvAttachNew ==
    ASSUME Inv, ~intruded, NEW b \in Bufs, AttachNew(b)
    PROVE  Inv'
<1> USE DEF Inv, AttachNew, ctlVars
<1>1. TypeOK'
  BY DEF TypeOK, Where
<1>2. RefExact' /\ FreeQueExact' /\ CoreRefExact'
  <2>1. RefExact'
    BY DEF RefExact, Claims, B2N, TypeOK, TableOK
  <2>2. FreeQueExact'
    BY DEF FreeQueExact, Range, TypeOK, TableOK
  <2>3. CoreRefExact'
    BY TableCard DEF CoreRefExact, B2N, TypeOK
  <2> QED
    BY <2>1, <2>2, <2>3
<1>3. ChainOK' /\ UsersOnChain' /\ StateOK'
  BY DEF TypeOK, ChainOK, UsersOnChain, StateOK, PostProcs, Places
<1>4. FreshOK' /\ DiOK' /\ TableOK'
  BY DEF TypeOK, FreshOK, DiOK, TableOK, PostProcs
<1>5. PassedOK' /\ StopOK'
  <2>1. ASSUME NEW c \in Bufs
        PROVE  PassedAt(c)'
    <3>1. PassedAt(c)
      BY DEF PassedOK
    <3>2. CASE c = b
      BY <3>1, <3>2 DEF PassedAt, TypeOK, TableOK, Calls, PostProcs, NoCall, NoType
    <3>3. CASE c # b
      BY <3>1, <3>3, PassedSame DEF TypeOK
    <3> QED
      BY <3>2, <3>3
  <2>2. StopOK'
    BY DEF StopOK, TypeOK
  <2> QED
    BY <2>1, <2>2 DEF PassedOK
<1> QED
  BY <1>1, <1>2, <1>3, <1>4, <1>5

\* Attaching a key that is in the table.
LEMMA InvAttachReuse ==
    ASSUME Inv, ~intruded, NEW b \in Bufs, AttachReuse(b)
    PROVE  Inv'
<1> USE DEF Inv, AttachReuse, entryVars, ctlVars
<1>1. TypeOK'
  BY DEF TypeOK, Where
<1>2. RefExact' /\ FreeQueExact' /\ CoreRefExact'
  <2>1. RefExact'
    BY DEF RefExact, Claims, B2N, TypeOK
  <2>2. FreeQueExact'
    <3>1. bst[b] # "FREE"
      BY DEF StateOK, TableOK
    <3>2. {x \in tbl' : bst'[x] = "FREE"} = {x \in tbl : bst[x] = "FREE"}
      BY <3>1 DEF TypeOK
    <3> QED
      BY <3>2 DEF FreeQueExact, Range
  <2>3. CoreRefExact'
    BY TableCard DEF CoreRefExact, B2N, TypeOK
  <2> QED
    BY <2>1, <2>2, <2>3
<1>3. ChainOK' /\ UsersOnChain' /\ StateOK'
  BY DEF TypeOK, ChainOK, UsersOnChain, StateOK, PostProcs, Places
<1>4. FreshOK' /\ DiOK' /\ TableOK'
  BY DEF TypeOK, FreshOK, DiOK, TableOK, PostProcs
<1>5. PassedOK' /\ StopOK'
  BY ChainSame, ZenonT(30) DEF TypeOK, PassedOK, PassedAt, StopOK, Calls, PostProcs, NoCall, NoType
<1> QED
  BY <1>1, <1>2, <1>3, <1>4, <1>5

\* Releasing the vb2 buffer of an entry that stays.
LEMMA InvCleanup ==
    ASSUME Inv, ~intruded, NEW b \in Bufs, Cleanup(b)
    PROVE  Inv'
<1> USE DEF Inv, Cleanup, coreVars, entryVars, ctlVars
<1>1. TypeOK'
  BY DEF TypeOK, Where
<1>2. RefExact' /\ FreeQueExact' /\ CoreRefExact'
  BY DEF TypeOK, RefExact, FreeQueExact, CoreRefExact, Claims, B2N
<1>3. ChainOK' /\ UsersOnChain' /\ StateOK'
  BY DEF TypeOK, ChainOK, UsersOnChain, StateOK, PostProcs, Places
<1>4. FreshOK' /\ DiOK' /\ TableOK'
  BY DEF TypeOK, FreshOK, DiOK, TableOK, PostProcs
<1>5. PassedOK' /\ StopOK'
  BY ChainSame, ZenonT(30) DEF TypeOK, PassedOK, PassedAt, StopOK, Calls, PostProcs, NoCall, NoType
<1> QED
  BY <1>1, <1>2, <1>3, <1>4, <1>5

\* Detaching an entry.
LEMMA InvDetach ==
    ASSUME Inv, ~intruded, NEW b \in Bufs, buf_core_detach(b)
    PROVE  Inv'
<1> USE DEF Inv, buf_core_detach, PutCore, ctlVars
<1>0. free_que = <<>> /\ free_que' = <<>> /\ free_num' = 0
  BY EmptyQue DEF StopOK, FreeQueExact
<1>b. b \in tbl /\ tbl' = tbl \ {b} /\ UNCHANGED released /\ PutCore
  OBVIOUS
<1>1. TypeOK'
  <2>1. free_que' \in Seq(Bufs) /\ free_num' \in Int
    BY <1>0, EmptyQue
  <2>2. bm_state' \in {"INIT", "ACTIVE", "EXIT"} /\ core_ref' \in Int
    BY DEF TypeOK
  <2>3. bst' \in [Bufs -> {"INIT", "FREE", "USE", "REF", "DONE", "ERR"}]
    BY DEF TypeOK
  <2>4. where' \in [Bufs -> Where] /\ decRef' \in [Bufs -> 0..MaxDecRef]
    BY DecRefAssumption DEF TypeOK, Where
  <2>5. di' \in [Bufs -> {"no", "ref", "kept", "stale"}] /\ stop' \in Stops
    BY DEF TypeOK, Stops
  <2>6. ref' \in [Bufs -> Int]
    BY DEF TypeOK
  <2>7. inited' \in [Bufs -> BOOLEAN]
    BY DEF TypeOK
  <2> QED
    BY <2>1, <2>2, <2>3, <2>4, <2>5, <2>6, <2>7 DEF TypeOK
<1>2. RefExact' /\ FreeQueExact' /\ CoreRefExact'
  <2>2. FreeQueExact'
    BY <1>0, EmptyQue DEF FreeQueExact, Range, TypeOK
  <2>3. CoreRefExact'
    BY <1>b, PutCoreOK
  <2>4. RefExact'
    BY DEF RefExact, Claims, B2N, TypeOK
  <2> QED
    BY <2>2, <2>3, <2>4
<1>3. ChainOK' /\ UsersOnChain' /\ StateOK'
  BY DEF TypeOK, ChainOK, UsersOnChain, StateOK, PostProcs, Places
<1>4. FreshOK' /\ DiOK' /\ TableOK'
  <2>1. tbl' # {} => bm_state' = bm_state
    BY <1>b, PutCoreOK
  <2>2. TableOK'
    BY <2>1 DEF TableOK, StopOK, TypeOK
  <2>3. FreshOK' /\ DiOK'
    BY DEF FreshOK, DiOK, StopOK, TypeOK, PostProcs
  <2> QED
    BY <2>2, <2>3
<1>5. PassedOK' /\ StopOK'
  BY ChainSame DEF TypeOK, PassedOK, PassedAt, StopOK, Calls, PostProcs, NoCall, NoType
<1> QED
  BY <1>1, <1>2, <1>3, <1>4, <1>5

\* Releasing the manager.
LEMMA InvMgrRelease ==
    ASSUME Inv, ~intruded, MgrRelease
    PROVE  Inv'
<1> USE DEF Inv, MgrRelease, PutCore, userVars
<1>0. free_que = <<>> /\ free_que' = <<>> /\ free_num' = 0
  BY EmptyQue DEF StopOK, FreeQueExact
<1>1. TypeOK'
  <2>1. free_que' \in Seq(Bufs) /\ free_num' \in Int
    BY <1>0, EmptyQue
  <2>2. bm_state' \in {"INIT", "ACTIVE", "EXIT"} /\ core_ref' \in Int
    BY DEF TypeOK
  <2>3. bst' \in [Bufs -> {"INIT", "FREE", "USE", "REF", "DONE", "ERR"}]
    BY DEF TypeOK
  <2>4. where' \in [Bufs -> Where] /\ decRef' \in [Bufs -> 0..MaxDecRef]
    BY DecRefAssumption DEF TypeOK, Where
  <2>5. di' \in [Bufs -> {"no", "ref", "kept", "stale"}] /\ stop' \in Stops
    BY DEF TypeOK, Stops
  <2>6. ref' \in [Bufs -> Int]
    BY DEF TypeOK
  <2>7. inited' \in [Bufs -> BOOLEAN]
    BY DEF TypeOK
  <2> QED
    BY <2>1, <2>2, <2>3, <2>4, <2>5, <2>6, <2>7 DEF TypeOK
<1>2. RefExact' /\ FreeQueExact' /\ CoreRefExact'
  <2>2. FreeQueExact'
    BY <1>0, EmptyQue DEF FreeQueExact, Range, TypeOK
  <2>3. CoreRefExact'
    BY TableCard DEF CoreRefExact, B2N, TypeOK
  <2>4. RefExact'
    BY DEF RefExact, Claims, B2N, TypeOK
  <2> QED
    BY <2>2, <2>3, <2>4
<1>3. ChainOK' /\ UsersOnChain' /\ StateOK'
  BY DEF TypeOK, ChainOK, UsersOnChain, StateOK, PostProcs, Places
<1>4. FreshOK' /\ DiOK' /\ TableOK'
  BY TableCard DEF TypeOK, FreshOK, DiOK, TableOK, PostProcs, CoreRefExact, StopOK, B2N
<1>5. PassedOK' /\ StopOK'
  BY ChainSame DEF TypeOK, PassedOK, PassedAt, StopOK, Calls, PostProcs, NoCall, NoType
<1> QED
  BY <1>1, <1>2, <1>3, <1>4, <1>5
-----------------------------------------------------------------------------
(* What the core's internal steps do to the counted state *)

\* The holder bookkeeping never leaves its types.
LEMMA SetBookType ==
    ASSUME TypeOK, NEW b \in Bufs, NEW r \in Books, SetBook(b, r)
    PROVE  bits' \in [Bufs -> Int] /\ holder' \in [Bufs -> Holders]
BY DEF SetBook, Books, TypeOK, Holders

\* The word and the holder of an entry.
LEMMA BookType ==
    ASSUME TypeOK, NEW b \in Bufs
    PROVE  Book(b) \in Books
BY DEF Book, Books, TypeOK, Holders

QueueTypes ==
    /\ free_que \in Seq(Bufs) /\ free_num \in Int
    /\ bits \in [Bufs -> Int] /\ holder \in [Bufs -> Holders]

NoDup(q) == \A i, j \in DOMAIN q : q[i] = q[j] => i = j

\* Adding a new element at the end.
LEMMA AppendFacts ==
    ASSUME NEW S, NEW q \in Seq(S), NEW e \in S
    PROVE  /\ Append(q, e) \in Seq(S)
           /\ Len(Append(q, e)) = Len(q) + 1
           /\ Range(Append(q, e)) = Range(q) \cup {e}
           /\ (NoDup(q) /\ e \notin Range(q)) => NoDup(Append(q, e))
<1> DEFINE r == Append(q, e)
<1>1. /\ r \in Seq(S) /\ Len(r) = Len(q) + 1 /\ Len(q) \in Nat
      /\ DOMAIN r = 1..(Len(q) + 1) /\ DOMAIN q = 1..Len(q)
      /\ \A i \in 1..Len(q) : r[i] = q[i]
      /\ r[Len(q) + 1] = e
  OBVIOUS
<1> HIDE DEF r
<1>2. Range(r) = Range(q) \cup {e}
  BY <1>1 DEF Range
<1>3. (NoDup(q) /\ e \notin Range(q)) => NoDup(r)
  BY <1>1 DEF Range, NoDup
<1> QED
  BY <1>1, <1>2, <1>3 DEF r

\* Dropping a reference either frees the entry or leaves it referenced.
LEMMA DropRefEffect ==
    ASSUME TypeOK, NEW b \in Bufs, NEW u \in {"DEC", "GE2D", "VPP", "SINK", "DI"}, DropRef(b, u)
    PROVE  /\ QueueTypes'
           /\ ref' = [ref EXCEPT ![b] = @ - 1]
           /\ \/ ref[b] = 1 /\ buf_core_free_que(b)
              \/ /\ ref[b] # 1
                 /\ bst' = [bst EXCEPT ![b] = "REF"]
                 /\ UNCHANGED <<free_que, free_num, inited>>
<1>1. ref' = [ref EXCEPT ![b] = @ - 1] /\ ref[b] \in Int
  BY DEF DropRef, TypeOK
<1>2. CASE ref[b] - 1 = 0
  <2>1. buf_core_free_que(b)
    BY <1>2 DEF DropRef
  <2>2. [w |-> 0, h |-> "FREE"] \in Books
    BY DEF Books, Holders
  <2>3. bits' \in [Bufs -> Int] /\ holder' \in [Bufs -> Holders]
    BY <2>1, <2>2, SetBookType DEF buf_core_free_que
  <2>4. free_que' \in Seq(Bufs) /\ free_num' \in Int
    <3>1. CASE list_add_valid(b)
      <4>1. free_que' = Append(free_que, b) /\ free_num' = free_num + 1
        BY <2>1, <3>1 DEF buf_core_free_que
      <4>2. free_que \in Seq(Bufs) /\ free_num \in Int
        BY DEF TypeOK
      <4> QED
        BY <4>1, <4>2, AppendFacts
    <3>2. CASE ~list_add_valid(b)
      BY <2>1, <3>2 DEF buf_core_free_que, TypeOK
    <3> QED
      BY <3>1, <3>2
  <2> QED
    BY <1>1, <1>2, <2>1, <2>3, <2>4 DEF QueueTypes
<1>3. CASE ref[b] - 1 # 0
  <2>1. /\ bst' = [bst EXCEPT ![b] = "REF"]
        /\ SetBook(b, direction_buf_put(Book(b), u))
        /\ UNCHANGED <<free_que, free_num, inited>>
    BY <1>3 DEF DropRef
  <2>2. bits' \in [Bufs -> Int] /\ holder' \in [Bufs -> Holders]
    BY <2>1, BookType, PutType, SetBookType
  <2>3. free_que' \in Seq(Bufs) /\ free_num' \in Int /\ ref[b] # 1
    BY <1>1, <1>3, <2>1 DEF TypeOK
  <2> QED
    BY <1>1, <2>1, <2>2, <2>3 DEF QueueTypes
<1> QED
  BY <1>2, <1>3

\* An entry that was not free joins the queue once.
LEMMA FreeQueAdd ==
    ASSUME TypeOK, FreeQueExact, ~intruded, NEW b \in tbl, bst[b] # "FREE",
           buf_core_free_que(b), UNCHANGED tbl
    PROVE  FreeQueExact'
<1>1. \A i \in DOMAIN free_que : free_que[i] # b
  BY DEF FreeQueExact, Range
<1>2. list_add_valid(b)
  BY <1>1 DEF list_add_valid, TypeOK
<1>3. free_que' = Append(free_que, b) /\ free_num' = free_num + 1
  BY <1>2 DEF buf_core_free_que
<1>4. free_num' = Len(free_que')
  BY <1>3, AppendFacts DEF FreeQueExact, TypeOK
<1>5. NoDup(free_que')
  <2>1. NoDup(free_que) /\ b \notin Range(free_que)
    BY <1>1 DEF FreeQueExact, NoDup, Range
  <2> QED
    BY <1>3, <2>1, AppendFacts DEF TypeOK
<1>6. Range(free_que') = Range(free_que) \cup {b}
  BY <1>3, AppendFacts DEF TypeOK
<1>7. {x \in tbl' : bst'[x] = "FREE"} = {x \in tbl : bst[x] = "FREE"} \cup {b}
  BY DEF buf_core_free_que, TypeOK
<1> QED
  BY <1>4, <1>5, <1>6, <1>7 DEF FreeQueExact, NoDup

\* Dropping a reference of an entry that is not free keeps the queue exact.
LEMMA DropRefQue ==
    ASSUME TypeOK, FreeQueExact, ~intruded, NEW b \in tbl, bst[b] # "FREE",
           NEW u \in {"DEC", "GE2D", "VPP", "SINK", "DI"}, DropRef(b, u), UNCHANGED tbl
    PROVE  FreeQueExact'
<1>1. CASE buf_core_free_que(b)
  BY <1>1, FreeQueAdd
<1>2. CASE bst' = [bst EXCEPT ![b] = "REF"] /\ UNCHANGED <<free_que, free_num, inited>>
  <2>1. {x \in tbl' : bst'[x] = "FREE"} = {x \in tbl : bst[x] = "FREE"}
    BY <1>2 DEF TypeOK
  <2> QED
    BY <1>2, <2>1 DEF FreeQueExact, Range
<1> QED
  BY <1>1, <1>2, DropRefEffect DEF TypeOK

\* A step that drops one reference of entry b, in the terms the parts of the
\* invariant are written in.
Dropped(b) ==
    /\ ref' = [ref EXCEPT ![b] = @ - 1]
    /\ QueueTypes' /\ FreeQueExact'
    /\ \/ /\ ref[b] = 1
          /\ bst' = [bst EXCEPT ![b] = "FREE"]
          /\ inited' = [inited EXCEPT ![b] = TRUE]
       \/ /\ ref[b] # 1
          /\ bst' = [bst EXCEPT ![b] = "REF"]
          /\ UNCHANGED inited

\* Every drop on behalf of a user that has the entry is such a step.
LEMMA DropRefOK ==
    ASSUME Inv, ~intruded, NEW b \in tbl, ref[b] > 0,
           NEW u \in {"DEC", "GE2D", "VPP", "SINK", "DI"}, DropRef(b, u), UNCHANGED tbl
    PROVE  Dropped(b)
<1>1. TypeOK /\ FreeQueExact /\ b \in Bufs
  BY DEF Inv, TypeOK
<1>2. bst[b] # "FREE"
  BY DEF Inv, StateOK
<1>3. FreeQueExact'
  BY <1>1, <1>2, DropRefQue
<1> QED
  BY <1>1, <1>3, DropRefEffect DEF Dropped, buf_core_free_que

\* Dropping a reference keeps the types.
LEMMA DroppedTypes ==
    ASSUME TypeOK, NEW b \in Bufs, Dropped(b)
    PROVE  /\ QueueTypes'
           /\ ref' \in [Bufs -> Int]
           /\ bst' \in [Bufs -> {"INIT", "FREE", "USE", "REF", "DONE", "ERR"}]
           /\ inited' \in [Bufs -> BOOLEAN]
<1>1. QueueTypes' /\ ref' \in [Bufs -> Int]
  BY DEF Dropped, TypeOK
<1>2. bst' \in [Bufs -> {"INIT", "FREE", "USE", "REF", "DONE", "ERR"}]
  BY DEF Dropped, TypeOK
<1>3. inited' \in [Bufs -> BOOLEAN]
  BY DEF Dropped, TypeOK
<1> QED
  BY <1>1, <1>2, <1>3

\* Whoever had the entry: REF suits every user, and FREE means there is none.
LEMMA DroppedState ==
    ASSUME Inv, ~intruded, NEW b \in tbl, Dropped(b), TypeOK', RefExact', TableOK', ~intruded',
           UNCHANGED tbl, \A c \in Bufs \ {b} : where'[c] = where[c]
    PROVE  StateOK'
<1> DEFINE Good(c) ==
        /\ where[c] = "DEC" => bst[c] \in {"USE", "REF"}
        /\ where[c] \in PostProcs => bst[c] \in {"USE", "REF", "DONE"}
        /\ where[c] \in {"SINK", "lost"} => bst[c] \in {"REF", "DONE"}
        /\ where[c] \in {"app", "parked"} => bst[c] \in {"INIT", "REF", "DONE"}
        /\ where[c] = "idle" => bst[c] \in {"REF", "FREE"} \/ (bst[c] = "INIT" /\ ~inited[c])
        /\ bst[c] = "FREE" => ref[c] = 0
<1>1. TypeOK /\ b \in Bufs
  BY DEF Inv, TypeOK
<1>2. ASSUME NEW c \in tbl, c # b
      PROVE  Good(c)'
  <2>1. c \in Bufs /\ where'[c] = where[c]
    BY <1>1, <1>2 DEF TypeOK
  <2>2. bst'[c] = bst[c]
    BY <1>1, <1>2, <2>1, SMTT(30) DEF Dropped, TypeOK
  <2>3. ref'[c] = ref[c]
    BY <1>1, <1>2, <2>1 DEF Dropped, TypeOK
  <2>4. inited'[c] = inited[c]
    BY <1>1, <1>2, <2>1, SMTT(30) DEF Dropped, TypeOK
  <2>5. Good(c)
    BY DEF Inv, StateOK
  <2> QED
    BY <2>1, <2>2, <2>3, <2>4, <2>5
<1>3. Good(b)'
  <2>1. CASE ref[b] = 1
    <3>1. ref'[b] = 0 /\ bst'[b] = "FREE"
      BY <1>1, <2>1 DEF Dropped, TypeOK
    <3>2. Claims(b)' = 0 /\ where'[b] # "none"
      BY <1>1, <3>1 DEF RefExact, TableOK
    <3>3. where'[b] = "idle"
      BY <1>1, <3>2, SMTT(30) DEF Claims, B2N, TypeOK
    <3> QED
      BY <3>1, <3>3 DEF PostProcs
  <2>2. CASE ref[b] # 1
    <3>1. bst'[b] = "REF"
      BY <1>1, <2>2 DEF Dropped, TypeOK
    <3> QED
      BY <3>1
  <2> QED
    BY <2>1, <2>2
<1> QED
  BY <1>2, <1>3 DEF StateOK

\* An entry that was not through the free queue has one reference, so the drop
\* sends it there.
LEMMA DroppedFresh ==
    ASSUME Inv, ~intruded, NEW b \in tbl, ref[b] > 0, Dropped(b), UNCHANGED tbl,
           \A c \in Bufs \ {b} : /\ where'[c] = where[c] /\ decRef'[c] = decRef[c]
                                /\ di'[c] = di[c] /\ (c \in work' => c \in work)
    PROVE  FreshOK'
<1>1. TypeOK /\ b \in Bufs /\ tbl' = tbl
  BY DEF Inv, TypeOK
<1>2. inited'[b] = TRUE
  <2>1. CASE ref[b] = 1
    BY <1>1, <2>1 DEF Dropped, TypeOK
  <2>2. CASE ref[b] # 1
    <3>1. inited[b]
      <4>1. SUFFICES ASSUME ~inited[b] PROVE FALSE
        OBVIOUS
      <4>2. /\ where[b] \in {"app", "parked", "idle"} /\ decRef[b] = 0
            /\ where[b] # "idle" => di[b] \notin {"ref", "kept"} /\ b \notin work
            /\ di[b] \in {"ref", "kept"} => b \notin work
        BY <1>1, <4>1 DEF Inv, FreshOK, DiOK
      <4>3. Claims(b) <= 1
        BY <4>2 DEF Claims, B2N
      <4>4. ref[b] = Claims(b) /\ ref[b] \in Int
        BY <1>1 DEF Inv, RefExact, TypeOK
      <4> QED
        BY <2>2, <4>3, <4>4
    <3> QED
      BY <1>1, <2>2, <3>1 DEF Dropped, TypeOK
  <2> QED
    BY <2>1, <2>2
<1>3. ASSUME NEW c \in Bufs, c # b
      PROVE  bst'[c] = bst[c] /\ inited'[c] = inited[c]
  BY <1>1, <1>3 DEF Dropped, TypeOK
<1> QED
  BY <1>1, <1>2, <1>3 DEF Inv, FreshOK

-----------------------------------------------------------------------------
(* The steps that move references *)

\* The decoder puts a reference.
LEMMA InvPutRef ==
    ASSUME Inv, ~intruded, NEW b \in Bufs, PutRef(b)
    PROVE  Inv'
<1> USE DEF Inv, entryVars, ctlVars
<1>1. b \in tbl /\ ref[b] > 0 /\ decRef[b] > 0
  BY DEF PutRef, TableOK, RefExact, Claims, B2N, TypeOK
<1>2. Dropped(b)
  BY <1>1, DropRefOK DEF PutRef, buf_core_put_ref
<1>3. /\ decRef' = [decRef EXCEPT ![b] = @ - 1]
      /\ UNCHANGED <<tbl, bm_state, core_ref, chain, where, di, passed,
                     wq_on, work, off, stop, released, intruded>>
  BY DEF PutRef
<1>4. TypeOK'
  <2>1. decRef' \in [Bufs -> 0..MaxDecRef]
    BY <1>1, <1>3, DecRefAssumption DEF TypeOK
  <2> QED
    BY <1>2, <1>3, <2>1, DroppedTypes DEF QueueTypes, TypeOK, Holders
<1>5. RefExact' /\ FreeQueExact' /\ CoreRefExact'
  BY <1>1, <1>2, <1>3, SMTT(30) DEF Dropped, TypeOK, RefExact, Claims, B2N, CoreRefExact
<1>6. TableOK' /\ FreshOK'
  BY <1>1, <1>2, <1>3, DroppedFresh, ZenonT(30) DEF Dropped, TypeOK, TableOK
<1>7. StateOK'
  BY <1>1, <1>2, <1>3, <1>4, <1>5, <1>6, DroppedState
<1>9. ChainOK' /\ UsersOnChain'
  BY <1>1, <1>2, <1>3 DEF Dropped, TypeOK, ChainOK, UsersOnChain, PostProcs, Places
<1>10. DiOK'
  <2>1. di[b] # "stale"
    BY <1>1 DEF FreshOK, DiOK, TypeOK
  <2>2. ASSUME NEW c \in Bufs, di[c] = "stale" PROVE inited'[c] = inited[c]
    BY <1>2, <2>1, <2>2 DEF Dropped, TypeOK
  <2> QED
    BY <1>3, <2>2 DEF DiOK
<1>8. PassedOK' /\ StopOK'
  BY <1>1, <1>2, <1>3, PassedSame DEF Dropped, TypeOK, PassedOK, StopOK, PutRef, DecRuns
<1> QED
  BY <1>3, <1>4, <1>5, <1>6, <1>7, <1>8, <1>9, <1>10

\* The decoder drops a picture.
LEMMA InvDropPic ==
    ASSUME Inv, ~intruded, NEW b \in Bufs, DropPic(b)
    PROVE  Inv'
<1> USE DEF Inv, entryVars, ctlVars
<1>1. where[b] = "DEC" /\ b \in tbl /\ ref[b] > 0
  BY DEF DropPic, TableOK, RefExact, Claims, B2N, TypeOK
<1>2. Dropped(b)
  BY <1>1, DropRefOK DEF DropPic, buf_core_put_ref
<1>3. /\ where' = [where EXCEPT ![b] = "idle"]
      /\ UNCHANGED <<tbl, bm_state, core_ref, chain, decRef, di, passed,
                     wq_on, work, off, stop, released, intruded>>
  BY DEF DropPic
<1>4. TypeOK'
  <2>1. where' \in [Bufs -> Where]
    BY <1>3 DEF TypeOK, Where
  <2> QED
    BY <1>2, <1>3, <2>1, DroppedTypes DEF QueueTypes, TypeOK, Holders
<1>5. RefExact' /\ FreeQueExact' /\ CoreRefExact'
  BY <1>1, <1>2, <1>3, SMTT(30) DEF Dropped, TypeOK, RefExact, Claims, B2N, CoreRefExact
<1>6. TableOK' /\ FreshOK'
  BY <1>1, <1>2, <1>3, DroppedFresh, ZenonT(30) DEF Dropped, TypeOK, TableOK
<1>7. StateOK'
  BY <1>1, <1>2, <1>3, <1>4, <1>5, <1>6, DroppedState DEF TypeOK
<1>8. ChainOK' /\ UsersOnChain'
  BY <1>1, <1>2, <1>3 DEF Dropped, TypeOK, ChainOK, UsersOnChain, PostProcs, Places
<1>9. DiOK'
  <2>1. di[b] = "no"
    BY <1>1 DEF DiOK
  <2>2. ASSUME NEW c \in Bufs, di[c] = "stale" PROVE inited'[c] = inited[c]
    BY <1>2, <2>1, <2>2 DEF Dropped, TypeOK
  <2> QED
    BY <1>3, <2>1, <2>2 DEF DiOK, TypeOK, PostProcs
<1>10. StopOK'
  BY <1>1, <1>2, <1>3 DEF Dropped, TypeOK, StopOK
<1>11. PassedOK'
  <2>1. passed'[b] = NoCall
    BY <1>1, <1>3 DEF PassedOK, PassedAt, StopOK, TypeOK, Calls, PostProcs
  <2> QED
    BY <1>3, <2>1, PassedSame DEF PassedOK, PassedAt, TypeOK
<1> QED
  BY <1>3, <1>4, <1>5, <1>6, <1>7, <1>8, <1>9, <1>10, <1>11

\* The recycle work drops the DI manager's reference.
LEMMA InvRecycleWork ==
    ASSUME Inv, ~intruded, NEW b \in Bufs, RecycleWork(b)
    PROVE  Inv'
<1> USE DEF Inv, entryVars
<1>1. b \in work /\ b \in tbl /\ ref[b] > 0
  <2>1. b \in work /\ b \in tbl
    BY DEF RecycleWork, TableOK
  <2>2. decRef[b] \in Nat
    BY DEF TypeOK
  <2> QED
    BY <2>1, <2>2 DEF RefExact, Claims, B2N
<1>2. Dropped(b)
  BY <1>1, DropRefOK DEF RecycleWork
<1>3. /\ work' = work \ {b}
      /\ UNCHANGED <<tbl, bm_state, core_ref, chain, where, decRef, di, passed,
                     wq_on, off, stop, released, intruded>>
  BY DEF RecycleWork
<1>4. TypeOK'
  BY <1>2, <1>3, DroppedTypes DEF QueueTypes, TypeOK, Holders
<1>5. RefExact' /\ FreeQueExact' /\ CoreRefExact'
  BY <1>1, <1>2, <1>3 DEF Dropped, TypeOK, RefExact, Claims, B2N, CoreRefExact
<1>6. TableOK' /\ FreshOK'
  BY <1>1, <1>2, <1>3, DroppedFresh DEF Dropped, TypeOK, TableOK
<1>7. StateOK'
  BY <1>1, <1>2, <1>3, <1>4, <1>5, <1>6, DroppedState DEF TypeOK
<1>8. ChainOK' /\ UsersOnChain'
  BY <1>1, <1>2, <1>3 DEF Dropped, TypeOK, ChainOK, UsersOnChain, PostProcs, Places, DiOK
<1>9. DiOK'
  <2>1. di[b] # "stale"
    BY <1>1 DEF FreshOK, DiOK
  <2>2. ASSUME NEW c \in Bufs, di[c] = "stale" PROVE inited'[c] = inited[c]
    BY <1>2, <2>1, <2>2 DEF Dropped, TypeOK
  <2> QED
    BY <1>1, <1>3, <2>1, <2>2 DEF DiOK, TypeOK
<1>10. PassedOK' /\ StopOK'
  BY <1>1, <1>2, <1>3, PassedSame DEF Dropped, TypeOK, PassedOK, StopOK
<1> QED
  BY <1>3, <1>4, <1>5, <1>6, <1>7, <1>8, <1>9, <1>10

\* The application queues the buffer: the core takes the reference back, or
\* leaves it to the DI manager that still has the buffer from before a reset.
LEMMA InvBufQueue ==
    ASSUME Inv, ~intruded, NEW b \in Bufs, BufQueue(b)
    PROVE  Inv'
<1> USE DEF Inv, entryVars, ctlVars
<1>1. where[b] = "app" /\ b \in tbl /\ ref[b] > 0 /\ ~off
  BY DEF BufQueue, TableOK, RefExact, Claims, B2N, TypeOK
<1>2. bc_sanity_check /\ bst[b] \in {"INIT", "DONE", "REF"}
  BY <1>1 DEF bc_sanity_check, TableOK, StateOK
<1>3. /\ where' = [where EXCEPT ![b] = "idle"]
      /\ UNCHANGED <<tbl, bm_state, core_ref, chain, decRef, passed,
                     wq_on, work, off, stop, released, intruded>>
  BY DEF BufQueue
<1>4. where' \in [Bufs -> Where]
  BY <1>3 DEF TypeOK, Where
<1>5. PassedOK'
  <2>1. passed'[b] = NoCall
    BY <1>1, <1>3 DEF PassedOK, PassedAt, TypeOK, Calls, PostProcs
  <2> QED
    BY <1>3, <2>1, PassedSame DEF PassedOK, PassedAt, TypeOK
<1>6. CASE DiPost /\ di[b] # "no" /\ ~inited[b]
  <2>1. /\ di' = [di EXCEPT ![b] = "ref"]
        /\ UNCHANGED <<free_que, free_num, bst, ref, bits, holder, inited>>
    BY <1>2, <1>6 DEF BufQueue, buf_core_fill, coreVars
  <2>2. di[b] = "stale" /\ b \notin work /\ bst[b] = "INIT" /\ stop = "run"
    BY <1>1, <1>6 DEF FreshOK, StopOK, TypeOK
  <2>3. TypeOK'
    BY <1>3, <1>4, <2>1 DEF TypeOK
  <2>4. RefExact' /\ FreeQueExact' /\ CoreRefExact'
    BY <1>1, <1>3, <2>1, <2>2 DEF TypeOK, RefExact, FreeQueExact, Claims, B2N, CoreRefExact
  <2>5. ChainOK' /\ UsersOnChain' /\ StateOK'
    BY <1>1, <1>3, <1>6, <2>1, <2>2 DEF TypeOK, ChainOK, UsersOnChain, StateOK, PostProcs, Places
  <2>6. FreshOK' /\ DiOK' /\ TableOK' /\ StopOK'
    BY <1>1, <1>3, <1>6, <2>1, <2>2 DEF TypeOK, FreshOK, DiOK, TableOK, StopOK, PostProcs
  <2> QED
    BY <1>5, <2>3, <2>4, <2>5, <2>6
<1>7. CASE ~(DiPost /\ di[b] # "no" /\ ~inited[b])
  <2>1. DropRef(b, "SINK") /\ UNCHANGED di
    BY <1>2, <1>7 DEF BufQueue, buf_core_fill
  <2>2. Dropped(b)
    BY <1>1, <1>3, <2>1, DropRefOK
  <2>3. TypeOK'
    BY <1>3, <1>4, <2>1, <2>2, DroppedTypes DEF QueueTypes, TypeOK, Holders
  <2>4. RefExact' /\ FreeQueExact' /\ CoreRefExact'
    BY <1>1, <1>3, <2>1, <2>2, SMTT(30) DEF Dropped, TypeOK, RefExact, Claims, B2N, CoreRefExact
  <2>5. TableOK' /\ FreshOK'
    BY <1>1, <1>3, <2>1, <2>2, DroppedFresh, ZenonT(30) DEF Dropped, TypeOK, TableOK
  <2>6. StateOK'
    BY <1>1, <1>3, <2>2, <2>3, <2>4, <2>5, DroppedState DEF TypeOK
  <2>7. ChainOK' /\ UsersOnChain'
    BY <1>1, <1>3, <2>2 DEF Dropped, TypeOK, ChainOK, UsersOnChain, PostProcs, Places
  <2>8. DiOK'
    <3>1. di[b] # "stale"
      BY <1>7 DEF DiOK
    <3>2. ASSUME NEW c \in Bufs, di[c] = "stale" PROVE inited'[c] = inited[c]
      BY <2>2, <3>1, <3>2 DEF Dropped, TypeOK
    <3> QED
      BY <1>3, <2>1, <3>1, <3>2 DEF DiOK, TypeOK, PostProcs
  <2>9. StopOK'
    BY <1>1, <1>3, <2>1, <2>2 DEF Dropped, TypeOK, StopOK
  <2> QED
    BY <1>3, <1>5, <2>3, <2>4, <2>5, <2>6, <2>7, <2>8, <2>9
<1> QED
  BY <1>6, <1>7

\* The decoder takes a second reference on the picture it decodes.
LEMMA InvGetRef ==
    ASSUME Inv, ~intruded, NEW b \in Bufs, buf_core_get_ref(b)
    PROVE  Inv'
<1> USE DEF Inv, entryVars, ctlVars
<1>1. /\ where[b] = "DEC" /\ b \in tbl /\ decRef[b] < MaxDecRef
      /\ bst[b] \in {"USE", "REF"} /\ inited[b]
  BY DEF buf_core_get_ref, TableOK, StateOK, FreshOK
<1>2. /\ bst' = [bst EXCEPT ![b] = "REF"]
      /\ ref' = [ref EXCEPT ![b] = @ + 1]
      /\ decRef' = [decRef EXCEPT ![b] = @ + 1]
      /\ UNCHANGED <<free_que, free_num, inited, tbl, bm_state, core_ref, chain, where, di,
                     passed, wq_on, work, off, stop, released, intruded>>
  BY DEF buf_core_get_ref
<1>3. bits' \in [Bufs -> Int] /\ holder' \in [Bufs -> Holders]
  <2>1. Book(b) \in Books
    BY BookType
  <2>2. direction_buf_get(Book(b), "DEC", NoType) \in Books
    BY <2>1, GetType
  <2> QED
    BY <2>2, SetBookType DEF buf_core_get_ref
<1>4. TypeOK'
  <2>1. decRef' \in [Bufs -> 0..MaxDecRef]
    BY <1>1, <1>2, DecRefAssumption DEF TypeOK
  <2> QED
    BY <1>2, <1>3, <2>1 DEF TypeOK, Holders
<1>5. RefExact' /\ CoreRefExact'
  BY <1>1, <1>2, SMTT(30) DEF TypeOK, RefExact, Claims, B2N, CoreRefExact
<1>6. FreeQueExact'
  <2>1. {x \in tbl' : bst'[x] = "FREE"} = {x \in tbl : bst[x] = "FREE"}
    BY <1>1, <1>2 DEF TypeOK
  <2> QED
    BY <1>2, <2>1 DEF FreeQueExact, Range
<1>7. ChainOK' /\ UsersOnChain' /\ StateOK'
  BY <1>1, <1>2 DEF TypeOK, ChainOK, UsersOnChain, StateOK, PostProcs, Places
<1>8. FreshOK' /\ DiOK' /\ TableOK'
  BY <1>1, <1>2 DEF TypeOK, FreshOK, DiOK, TableOK, PostProcs
<1>9. PassedOK' /\ StopOK'
  BY <1>1, <1>2, PassedSame DEF TypeOK, PassedOK, StopOK
<1> QED
  BY <1>4, <1>5, <1>6, <1>7, <1>8, <1>9

\* Taking the head of a queue without duplicates.
LEMMA TailFacts ==
    ASSUME NEW S, NEW q \in Seq(S), q # <<>>
    PROVE  /\ q[1] \in S /\ q[1] \in Range(q)
           /\ Tail(q) \in Seq(S)
           /\ Len(Tail(q)) = Len(q) - 1
           /\ NoDup(q) => NoDup(Tail(q)) /\ Range(Tail(q)) = Range(q) \ {q[1]}
<1> DEFINE r == Tail(q)
<1>1. /\ Len(q) \in Nat /\ Len(q) >= 1 /\ DOMAIN q = 1..Len(q)
      /\ r \in Seq(S) /\ Len(r) = Len(q) - 1 /\ DOMAIN r = 1..(Len(q) - 1)
      /\ \A i \in 1..(Len(q) - 1) : r[i] = q[i + 1]
      /\ \A i \in 1..Len(q) : q[i] \in S
  OBVIOUS
<1> HIDE DEF r
<1>2. 1 \in DOMAIN q
  BY <1>1
<1>3. ASSUME NoDup(q) PROVE NoDup(r)
  <2>1. SUFFICES ASSUME NEW i \in DOMAIN r, NEW j \in DOMAIN r, r[i] = r[j] PROVE i = j
    BY DEF NoDup
  <2>2. i + 1 \in DOMAIN q /\ j + 1 \in DOMAIN q /\ q[i + 1] = q[j + 1]
    BY <1>1, <2>1
  <2>3. i + 1 = j + 1
    BY <1>3, <2>2 DEF NoDup
  <2> QED
    BY <1>1, <2>1, <2>3
<1>4. ASSUME NoDup(q) PROVE Range(r) = Range(q) \ {q[1]}
  <2>1. ASSUME NEW i \in DOMAIN r PROVE r[i] \in Range(q) \ {q[1]}
    BY <1>1, <1>2, <1>4, <2>1 DEF NoDup, Range
  <2>2. ASSUME NEW i \in DOMAIN q, q[i] # q[1] PROVE q[i] \in Range(r)
    <3>1. i - 1 \in DOMAIN r /\ r[i - 1] = q[i]
      BY <1>1, <2>2
    <3> QED
      BY <3>1 DEF Range
  <2> QED
    BY <2>1, <2>2 DEF Range
<1> QED
  BY <1>1, <1>2, <1>3, <1>4 DEF r, Range

\* A user takes the head of the free queue: nobody has that buffer.
LEMMA InvGet ==
    ASSUME Inv, ~intruded, NEW u \in Requesters(Ctx), buf_core_get(u)
    PROVE  Inv'
<1> USE DEF Inv, ctlVars
<1>0. PICK b : b = free_que[1]
  OBVIOUS
<1> DEFINE r == direction_buf_get(Book(b), u, NoType)
<1>1. u \in {"DEC", "GE2D", "VPP"}
  BY CtxAssumption DEF Requesters, Contexts
<1>2. /\ free_que # <<>>
      /\ free_que' = Tail(free_que) /\ free_num' = free_num - 1
      /\ bst' = [bst EXCEPT ![b] = "USE"]
      /\ ref' = [ref EXCEPT ![b] = @ + 1]
      /\ chain' = [chain EXCEPT ![b] = Route(Ctx, u)]
      /\ SetBook(b, r)
      /\ Move(b, "idle", u)
      /\ UNCHANGED <<inited, tbl, bm_state, core_ref, decRef, di, passed,
                     wq_on, work, off, stop, released, intruded>>
  BY <1>0 DEF buf_core_get
<1>3. b \in tbl /\ b \in Bufs /\ bst[b] = "FREE" /\ ref[b] = 0
  <2>1. b \in Range(free_que)
    BY <1>0, <1>2, TailFacts DEF TypeOK
  <2> QED
    BY <2>1 DEF FreeQueExact, StateOK, TypeOK
<1>4. where[b] = "idle" /\ decRef[b] = 0 /\ di[b] \notin {"ref", "kept"} /\ b \notin work
  <2>1. Claims(b) = 0 /\ where[b] # "none"
    BY <1>3 DEF RefExact, TableOK
  <2> QED
    BY <1>3, <2>1 DEF Claims, B2N, TypeOK
<1>5. inited[b] /\ di[b] = "no"
  BY <1>3, <1>4 DEF FreshOK, DiOK, TypeOK
<1>6. where' = [where EXCEPT ![b] = u]
  BY <1>2, <1>4 DEF Move
<1>7. ~(off /\ stop = "run")
  BY <1>2 DEF StopOK
<1>8. Route(Ctx, u) \in Seq(TaskTypes)
  BY RouteOK
<1>9. TypeOK'
  <2>1. bits' \in [Bufs -> Int] /\ holder' \in [Bufs -> Holders]
    <3>1. r \in Books
      BY <1>1, <1>3, BookType, GetType
    <3> QED
      BY <1>2, <1>3, <3>1, SetBookType
  <2>2. free_que' \in Seq(Bufs) /\ free_num' \in Int
    BY <1>2, TailFacts DEF TypeOK
  <2>3. where' \in [Bufs -> Where]
    BY <1>1, <1>6 DEF TypeOK, Where
  <2>4. chain' \in [Bufs -> Seq(TaskTypes)]
    BY <1>2, <1>8 DEF TypeOK
  <2>5. bst' \in [Bufs -> {"INIT", "FREE", "USE", "REF", "DONE", "ERR"}]
    BY <1>2 DEF TypeOK
  <2>6. ref' \in [Bufs -> Int]
    BY <1>2, <1>3 DEF TypeOK
  <2> HIDE DEF r
  <2> QED
    BY <1>2, <2>1, <2>2, <2>3, <2>4, <2>5, <2>6 DEF TypeOK, Holders
<1> HIDE DEF r
<1>10. FreeQueExact'
  <2>1. NoDup(free_que) /\ Range(free_que) = {x \in tbl : bst[x] = "FREE"}
        /\ free_num = Len(free_que)
    BY DEF FreeQueExact, NoDup
  <2>2. NoDup(free_que') /\ Range(free_que') = Range(free_que) \ {b} /\ free_num' = Len(free_que')
    BY <1>0, <1>2, <2>1, TailFacts DEF TypeOK
  <2>3. {x \in tbl' : bst'[x] = "FREE"} = {x \in tbl : bst[x] = "FREE"} \ {b}
    BY <1>2, <1>3 DEF TypeOK
  <2> QED
    BY <2>1, <2>2, <2>3 DEF FreeQueExact, NoDup
<1>11. RefExact' /\ CoreRefExact'
  <2>1. ASSUME NEW c \in tbl, c # b PROVE ref'[c] = Claims(c)'
    <3>1. c \in Bufs /\ ref'[c] = ref[c] /\ where'[c] = where[c]
      BY <1>2, <1>6, <2>1 DEF TypeOK
    <3> QED
      BY <1>2, <3>1 DEF RefExact, Claims
  <2>2. ref'[b] = Claims(b)'
    <3>1. ref'[b] = 1 /\ where'[b] = u
      BY <1>2, <1>3, <1>6 DEF TypeOK
    <3>2. decRef'[b] = 0 /\ di'[b] \notin {"ref", "kept"} /\ b \notin work'
      BY <1>2, <1>4
    <3>3. Claims(b)' = 1
      BY <1>1, <3>1, <3>2 DEF Claims, B2N
    <3> QED
      BY <3>1, <3>3
  <2>3. RefExact'
    BY <1>2, <2>1, <2>2 DEF RefExact
  <2>4. CoreRefExact'
    BY <1>2 DEF CoreRefExact
  <2> QED
    BY <2>3, <2>4
<1>12. ChainOK'
  <2>1. ASSUME NEW c \in Bufs, c # b PROVE chain'[c] = chain[c]
    BY <1>2, <2>1 DEF TypeOK
  <2>2. chain'[b] = Route(Ctx, u)
    BY <1>2, <1>3 DEF TypeOK
  <2>3. \A i \in 2..Len(chain'[b]) :
           chain'[b][i] \in {"GE2D", "VPP", "SINK"} /\ chain'[b][i] # chain'[b][1]
    BY <2>2, RouteOK
  <2> QED
    BY <2>1, <2>3 DEF ChainOK
<1>13. UsersOnChain'
  <2>1. ASSUME NEW c \in Bufs, c # b
        PROVE  chain'[c] = chain[c] /\ where'[c] = where[c] /\ bst'[c] = bst[c]
    BY <1>2, <1>6, <2>1 DEF TypeOK
  <2>2. chain'[b] = Route(Ctx, u) /\ where'[b] = u
    BY <1>2, <1>3, <1>6 DEF TypeOK
  <2>3. 1 \in 1..Len(chain'[b]) /\ chain'[b][1] = u /\ Len(chain'[b]) >= 2
    BY <2>2, RouteOK
  <2> QED
    BY <2>1, <2>2, <2>3 DEF UsersOnChain, Places
<1>14. StateOK' /\ FreshOK'
  BY <1>1, <1>2, <1>3, <1>5, <1>6, SMTT(30) DEF StateOK, FreshOK, TypeOK, PostProcs
<1>15. DiOK' /\ TableOK'
  BY <1>1, <1>2, <1>3, <1>4, <1>5, <1>6, SMTT(30) DEF DiOK, TableOK, TypeOK, PostProcs
<1>16. StopOK'
  BY <1>2, <1>7 DEF StopOK
<1>17. PassedOK'
  <2>1. passed'[b] = NoCall
    BY <1>2, <1>3, <1>4, <1>7 DEF PassedOK, PassedAt, TypeOK, Calls, PostProcs
  <2>2. ASSUME NEW c \in Bufs, c # b PROVE PassedAt(c)'
    BY <1>2, <1>6, <2>2, PassedSame DEF PassedOK, TypeOK
  <2> QED
    BY <2>1, <2>2 DEF PassedOK, PassedAt
<1> QED
  BY <1>9, <1>10, <1>11, <1>12, <1>13, <1>14, <1>15, <1>16, <1>17

-----------------------------------------------------------------------------
(* Handing a buffer on *)

\* What buf_core_done does, in the terms of the invariant, when `u' has the
\* buffer and is not the end of its chain.
HandedOn(b) ==
    \E next \in {"GE2D", "VPP", "SINK"}, toDi \in BOOLEAN :
        /\ Places(b, next) # {}
        /\ toDi => DiPost /\ next = "SINK"
        /\ bst' = [bst EXCEPT ![b] = "DONE"]
        /\ ref' = [ref EXCEPT ![b] = @ + B2N(toDi)]
        /\ di'  = [di EXCEPT ![b] = IF toDi THEN "ref" ELSE @]
        /\ where' = [where EXCEPT ![b] = IF next = "SINK" /\ off THEN "lost" ELSE next]
        /\ bits' \in [Bufs -> Int] /\ holder' \in [Bufs -> Holders]
        /\ UNCHANGED <<free_que, free_num, inited>>

\* aml_buf_done by a user that has the buffer and is not the end of its chain
\* hands it on, whatever the DI manager answers.
LEMMA DoneEffect ==
    ASSUME Inv, ~intruded, NEW b \in tbl, NEW u \in {"DEC", "VPP", "GE2D"}, where[b] = u,
           ~IsLast(b, u), NEW dq \in BOOLEAN, buf_core_done(b, u, dq)
    PROVE  HandedOn(b)
<1> DEFINE next  == NextUser(b, u)
           toDi  == DiPost /\ next = "SINK" /\ dq
           book1 == IF toDi THEN direction_buf_get(Book(b), "DI", NoType) ELSE Book(b)
           lost  == next = "SINK" /\ off
           book2 == IF lost THEN book1 ELSE direction_buf_get(book1, next, PreUser(b, next))
<1>1. TypeOK /\ ChainOK /\ b \in Bufs
  BY DEF Inv, TypeOK
<1>2. bc_sanity_check /\ bst[b] \in {"USE", "REF", "DONE"}
  BY DEF Inv, bc_sanity_check, TableOK, StateOK, PostProcs
<1>3. next \in {"GE2D", "VPP", "SINK"} /\ Places(b, next) # {}
  <2>1. Places(b, u) # {}
    BY <1>1 DEF Inv, UsersOnChain, PostProcs
  <2> QED
    BY <1>1, <2>1, NextOK
<1>4. /\ bst' = [bst EXCEPT ![b] = "DONE"]
      /\ ref' = IF toDi THEN [ref EXCEPT ![b] = @ + 1] ELSE ref
      /\ di'  = IF toDi THEN [di EXCEPT ![b] = "ref"] ELSE di
      /\ SetBook(b, book2)
      /\ Move(b, u, IF lost THEN "lost" ELSE next)
      /\ UNCHANGED <<free_que, free_num, inited>>
  BY <1>2 DEF buf_core_done
<1>5. book2 \in Books
  <2>1. book1 \in Books
    BY <1>1, BookType, GetType
  <2> HIDE DEF book1, next
  <2> QED
    BY <1>3, <2>1, GetType
<1>6. bits' \in [Bufs -> Int] /\ holder' \in [Bufs -> Holders]
  <2> HIDE DEF book2
  <2> QED
    BY <1>1, <1>4, <1>5, SetBookType
<1> HIDE DEF book1, book2, next
<1>7. where' = [where EXCEPT ![b] = IF lost THEN "lost" ELSE next]
  BY <1>4 DEF Move
<1>8. toDi \in BOOLEAN
  BY DiPostAssumption
<1>9. ref' = [ref EXCEPT ![b] = @ + B2N(toDi)]
  <2>1. ref \in [Bufs -> Int] /\ ref[b] + 0 = ref[b]
    BY <1>1 DEF TypeOK
  <2>2. CASE toDi
    BY <1>4, <2>2 DEF B2N
  <2>3. CASE ~toDi
    <3>1. B2N(toDi) = 0 /\ ref' = ref
      BY <1>4, <2>3 DEF B2N
    <3> QED
      BY <2>1, <3>1
  <2> QED
    BY <2>2, <2>3
<1>10. di' = [di EXCEPT ![b] = IF toDi THEN "ref" ELSE @]
  BY <1>1, <1>4 DEF TypeOK
<1> QED
  BY <1>3, <1>4, <1>6, <1>7, <1>8, <1>9, <1>10 DEF HandedOn

\* Handing a buffer on keeps the types.
LEMMA HandedOnTypes ==
    ASSUME TypeOK, NEW b \in Bufs, HandedOn(b)
    PROVE  /\ QueueTypes'
           /\ ref' \in [Bufs -> Int]
           /\ bst' \in [Bufs -> {"INIT", "FREE", "USE", "REF", "DONE", "ERR"}]
           /\ inited' \in [Bufs -> BOOLEAN]
           /\ di' \in [Bufs -> {"no", "ref", "kept", "stale"}]
           /\ where' \in [Bufs -> Where]
<1>1. QueueTypes' /\ inited' \in [Bufs -> BOOLEAN]
  BY DEF HandedOn, TypeOK, QueueTypes
<1>2. bst' \in [Bufs -> {"INIT", "FREE", "USE", "REF", "DONE", "ERR"}]
  BY DEF HandedOn, TypeOK
<1>3. ref' \in [Bufs -> Int]
  BY DEF HandedOn, TypeOK, B2N
<1>4. di' \in [Bufs -> {"no", "ref", "kept", "stale"}]
  BY DEF HandedOn, TypeOK
<1>5. where' \in [Bufs -> Where]
  BY DEF HandedOn, TypeOK, Where
<1> QED
  BY <1>1, <1>2, <1>3, <1>4, <1>5

\* Handing on keeps the invariant, unless the DI manager is lent a buffer
\* after STREAMOFF has reset it.
LEMMA InvDone ==
    ASSUME Inv, ~intruded, NEW b \in tbl, where[b] \in {"DEC", "VPP", "GE2D"}, HandedOn(b),
           di' # di => stop \notin {"vppreset", "flushed"},
           passed' \in [Bufs -> Calls \cup {NoCall}], passed'[b] = NoCall,
           \A c \in Bufs \ {b} : passed'[c] = passed[c],
           UNCHANGED <<entryVars, decRef, ctlVars>>
    PROVE  Inv'
<1> USE DEF Inv, entryVars, ctlVars
<1>1. /\ b \in Bufs /\ TypeOK /\ inited[b] /\ bst[b] # "FREE" /\ di[b] = "no" /\ b \notin work
      /\ ~(off /\ stop = "run")
  BY DEF TypeOK, FreshOK, StateOK, DiOK, StopOK, PostProcs
<1>2. PICK next \in {"GE2D", "VPP", "SINK"}, toDi \in BOOLEAN :
        /\ Places(b, next) # {}
        /\ toDi => DiPost /\ next = "SINK"
        /\ bst' = [bst EXCEPT ![b] = "DONE"]
        /\ ref' = [ref EXCEPT ![b] = @ + B2N(toDi)]
        /\ di'  = [di EXCEPT ![b] = IF toDi THEN "ref" ELSE @]
        /\ where' = [where EXCEPT ![b] = IF next = "SINK" /\ off THEN "lost" ELSE next]
        /\ UNCHANGED <<free_que, free_num, inited>>
  BY DEF HandedOn
<1>3. ASSUME NEW c \in Bufs, c # b
      PROVE  /\ bst'[c] = bst[c] /\ ref'[c] = ref[c] /\ di'[c] = di[c]
             /\ where'[c] = where[c] /\ passed'[c] = passed[c]
  BY <1>2, <1>3 DEF TypeOK
<1>4. /\ bst'[b] = "DONE" /\ ref'[b] = ref[b] + B2N(toDi)
      /\ di'[b] = IF toDi THEN "ref" ELSE "no"
      /\ where'[b] = IF next = "SINK" /\ off THEN "lost" ELSE next
  BY <1>1, <1>2 DEF TypeOK
<1>5. TypeOK'
  BY <1>1, HandedOnTypes DEF QueueTypes, TypeOK, Holders
<1>6. RefExact'
  <2>1. ASSUME NEW c \in tbl, c # b PROVE ref'[c] = Claims(c)'
    <3>1. c \in Bufs
      BY DEF TypeOK
    <3> QED
      BY <1>3, <2>1, <3>1 DEF RefExact, Claims
  <2>2. ref'[b] = Claims(b)'
    <3>1. decRef[b] \in Nat
      BY <1>1 DEF TypeOK
    <3>2. Claims(b) = 1 + decRef[b]
      BY <1>1, <3>1 DEF Claims, B2N
    <3>3. Claims(b)' = 1 + decRef[b] + B2N(toDi)
      BY <1>1, <1>4, <3>1 DEF Claims, B2N
    <3> QED
      BY <1>4, <3>1, <3>2, <3>3 DEF RefExact, B2N
  <2> QED
    BY <2>1, <2>2 DEF RefExact
<1>7. FreeQueExact' /\ CoreRefExact'
  <2>1. {x \in tbl' : bst'[x] = "FREE"} = {x \in tbl : bst[x] = "FREE"}
    BY <1>1, <1>2 DEF TypeOK
  <2> QED
    BY <1>2, <2>1 DEF FreeQueExact, CoreRefExact, Range
<1>8. ChainOK'
  BY DEF ChainOK
<1>9. UsersOnChain'
  BY <1>2, <1>3, <1>4 DEF UsersOnChain, PostProcs, Places
<1>10. StateOK' /\ FreshOK'
  BY <1>1, <1>2, <1>3, <1>4 DEF StateOK, FreshOK, PostProcs, TypeOK
<1>11. DiOK'
  <2>1. toDi => stop \notin {"vppreset", "flushed"}
    BY <1>1, <1>4
  <2> QED
    BY <1>1, <1>2, <1>3, <1>4, <2>1 DEF DiOK, PostProcs
<1>12. TableOK' /\ StopOK'
  BY <1>1, <1>3, <1>4, ZenonT(30) DEF TableOK, StopOK, TypeOK
<1>13. PassedOK'
  <2>1. ASSUME NEW c \in Bufs, c # b PROVE PassedAt(c)'
    BY <1>3, <2>1, PassedSame DEF PassedOK
  <2> QED
    BY <2>1 DEF PassedOK, PassedAt
<1> QED
  BY <1>5, <1>6, <1>7, <1>8, <1>9, <1>10, <1>11, <1>12, <1>13

\* The decoder outputs a picture.
LEMMA InvDecDone ==
    ASSUME Inv, ~intruded, NEW b \in Bufs, DecDone(b)
    PROVE  Inv'
<1>1. PICK dq \in BOOLEAN : buf_core_done(b, "DEC", dq)
  BY DEF DecDone
<1>2. where[b] = "DEC" /\ b \in tbl /\ TypeOK /\ ChainOK
  BY DEF DecDone, Inv, TableOK
<1>3. ~IsLast(b, "DEC")
  BY <1>2, SourceOK DEF Inv, UsersOnChain
<1>4. HandedOn(b)
  BY <1>1, <1>2, <1>3, DoneEffect
<1>5. stop \notin {"vppreset", "flushed"}
  BY DEF DecDone, DecRuns, Inv, StopOK
<1>6. passed[b] = NoCall
  BY <1>2, <1>5 DEF Inv, PassedOK, PassedAt, StopOK, TypeOK, Calls, PostProcs
<1>7. passed' = passed /\ UNCHANGED <<entryVars, decRef, ctlVars>> /\ passed' \in [Bufs -> Calls \cup {NoCall}]
  BY <1>2 DEF DecDone, TypeOK
<1> QED
  BY <1>2, <1>4, <1>5, <1>6, <1>7, InvDone

-----------------------------------------------------------------------------
(* The completion callbacks of the post processors *)

\* A callback that gives back the buffer it has.
LEMMA InvPPFill ==
    ASSUME Inv, ~intruded, NEW b \in Bufs, PPAct(b), passed[b] # NoCall,
           where[b] = passed[b].u, passed[b].op = "fill"
    PROVE  Inv'
<1> USE DEF Inv, entryVars
<1>0. where[b] \in {"VPP", "GE2D"}
  BY DEF TypeOK, Calls, PostProcs
<1>1. b \in tbl /\ ref[b] > 0
  <2>1. b \in tbl /\ decRef[b] \in Nat
    BY <1>0 DEF TableOK, TypeOK
  <2> QED
    BY <1>0, <2>1 DEF RefExact, Claims, B2N
<1>2. IsLast(b, where[b]) /\ ~(off /\ stop = "run")
  BY <1>0 DEF PassedOK, PassedAt, StopOK
<1>3. bst[b] \in {"REF", "DONE"}
  <2>1. bst[b] # "USE"
    BY <1>0, <1>2, SourceOK DEF UsersOnChain, PostProcs
  <2> QED
    BY <1>0, <1>1, <2>1 DEF StateOK, PostProcs
<1>4. DropRef(b, where[b]) /\ UNCHANGED di /\ where' = [where EXCEPT ![b] = "idle"]
  BY <1>0, <1>1, <1>3 DEF PPAct, buf_core_fill, Move, bc_sanity_check, TableOK
<1>5. /\ passed' = [passed EXCEPT ![b] = NoCall]
      /\ UNCHANGED <<tbl, bm_state, core_ref, chain, decRef, di, wq_on, work, off, stop, released, intruded>>
  <2>1. intruded' = FALSE
    BY <1>4 DEF PPAct
  <2> QED
    BY <1>4, <2>1 DEF PPAct, TypeOK
<1>6. Dropped(b)
  BY <1>0, <1>1, <1>4, <1>5, DropRefOK
<1>7. TypeOK'
  <2>1. where' \in [Bufs -> Where]
    BY <1>4 DEF TypeOK, Where
  <2>2. passed' \in [Bufs -> Calls \cup {NoCall}]
    BY <1>5 DEF TypeOK
  <2> QED
    BY <1>5, <1>6, <2>1, <2>2, DroppedTypes DEF QueueTypes, TypeOK, Holders
<1>8. RefExact' /\ FreeQueExact' /\ CoreRefExact'
  BY <1>0, <1>1, <1>4, <1>5, <1>6, SMTT(30) DEF Dropped, TypeOK, RefExact, Claims, B2N, CoreRefExact
<1>9. TableOK' /\ FreshOK'
  BY <1>0, <1>1, <1>4, <1>5, <1>6, DroppedFresh DEF Dropped, TypeOK, TableOK
<1>10. StateOK'
  BY <1>1, <1>4, <1>5, <1>6, <1>7, <1>8, <1>9, DroppedState DEF TypeOK
<1>11. ChainOK' /\ UsersOnChain'
  BY <1>1, <1>4, <1>5, <1>6 DEF Dropped, TypeOK, ChainOK, UsersOnChain, PostProcs, Places
<1>12. DiOK'
  <2>1. di[b] = "no"
    BY <1>0 DEF DiOK, PostProcs
  <2>2. ASSUME NEW c \in Bufs, di[c] = "stale" PROVE inited'[c] = inited[c]
    BY <1>6, <2>1, <2>2 DEF Dropped, TypeOK
  <2> QED
    BY <1>4, <1>5, <2>1, <2>2 DEF DiOK, TypeOK, PostProcs
<1>13. StopOK'
  BY <1>2, <1>5 DEF StopOK
<1>14. PassedOK'
  <2>1. passed'[b] = NoCall
    BY <1>5 DEF TypeOK
  <2>2. ASSUME NEW c \in Bufs, c # b PROVE PassedAt(c)'
    BY <1>4, <1>5, <2>2, PassedSame DEF PassedOK, TypeOK
  <2> QED
    BY <2>1, <2>2 DEF PassedOK, PassedAt
<1> QED
  BY <1>5, <1>7, <1>8, <1>9, <1>10, <1>11, <1>12, <1>13, <1>14

\* A callback that passes on the buffer it has.
LEMMA InvPPDone ==
    ASSUME Inv, ~intruded, NEW b \in Bufs, PPAct(b), passed[b] # NoCall,
           where[b] = passed[b].u, passed[b].op # "fill"
    PROVE  Inv'
<1>0. where[b] \in {"VPP", "GE2D"} /\ b \in tbl /\ TypeOK
  BY DEF Inv, TypeOK, Calls, PostProcs, TableOK
<1>1. ~IsLast(b, where[b])
  BY <1>0 DEF Inv, PassedOK, PassedAt, StopOK
<1>2. PICK dq \in BOOLEAN : buf_core_done(b, where[b], dq)
  BY DEF PPAct
<1>3. HandedOn(b)
  BY <1>0, <1>1, <1>2, DoneEffect
<1>4. /\ passed' = [passed EXCEPT ![b] = NoCall]
      /\ UNCHANGED <<entryVars, decRef, wq_on, work, off, stop, released>>
      /\ intruded' = (di' # di /\ stop \in {"vppreset", "flushed"})
  BY DEF PPAct
<1>5. /\ passed' \in [Bufs -> Calls \cup {NoCall}] /\ passed'[b] = NoCall
      /\ \A c \in Bufs \ {b} : passed'[c] = passed[c]
  BY <1>0, <1>4 DEF TypeOK
<1>6. CASE di' # di /\ stop \in {"vppreset", "flushed"}
  <2>1. intruded' = TRUE
    BY <1>4, <1>6
  <2>2. TypeOK'
    BY <1>0, <1>3, <1>4, <1>5, <2>1, HandedOnTypes DEF QueueTypes, TypeOK, Holders, entryVars
  <2> QED
    BY <2>1, <2>2 DEF Inv
<1>7. CASE ~(di' # di /\ stop \in {"vppreset", "flushed"})
  <2>1. intruded' = FALSE
    BY <1>4, <1>7
  <2>2. UNCHANGED <<entryVars, decRef, ctlVars>>
    BY <1>4, <2>1 DEF ctlVars, Inv, TypeOK
  <2> QED
    BY <1>0, <1>3, <1>5, <1>7, <2>2, InvDone
<1> QED
  BY <1>6, <1>7

\* A callback that slept through STREAMOFF: passing on finds an entry in its
\* initial state and does nothing, giving back is the intrusion.
LEMMA InvPPLate ==
    ASSUME Inv, ~intruded, NEW b \in Bufs, PPAct(b), passed[b] # NoCall,
           where[b] # passed[b].u
    PROVE  Inv'
<1>1. off /\ stop = "run" /\ TypeOK /\ passed[b].u \in {"VPP", "GE2D"}
  BY DEF Inv, PassedOK, PassedAt, TypeOK, Calls, PostProcs
<1>2. /\ passed' = [passed EXCEPT ![b] = NoCall]
      /\ UNCHANGED <<entryVars, decRef, wq_on, work, off, stop, released>>
  BY DEF PPAct
<1>3. passed' \in [Bufs -> Calls \cup {NoCall}]
  BY <1>1, <1>2 DEF TypeOK
<1>4. CASE passed[b].op = "fill"
  <2>1. intruded' = TRUE /\ buf_core_fill(b, passed[b].u) /\ Move(b, passed[b].u, "idle")
    BY <1>4 DEF PPAct
  <2>2. UNCHANGED di /\ UNCHANGED where /\ (UNCHANGED coreVars \/ DropRef(b, passed[b].u))
    BY <1>1, <2>1 DEF buf_core_fill, Move
  <2>3. /\ QueueTypes' /\ ref' \in [Bufs -> Int] /\ inited' \in [Bufs -> BOOLEAN]
        /\ bst' \in [Bufs -> {"INIT", "FREE", "USE", "REF", "DONE", "ERR"}]
    <3>1. CASE UNCHANGED coreVars
      BY <1>1, <3>1 DEF coreVars, TypeOK, QueueTypes, Holders
    <3>2. CASE DropRef(b, passed[b].u)
      <4>1. /\ QueueTypes'
            /\ ref' = [ref EXCEPT ![b] = @ - 1]
            /\ \/ buf_core_free_que(b)
               \/ /\ bst' = [bst EXCEPT ![b] = "REF"]
                  /\ UNCHANGED <<free_que, free_num, inited>>
        BY <1>1, <3>2, DropRefEffect
      <4>2. bst' \in [Bufs -> {"INIT", "FREE", "USE", "REF", "DONE", "ERR"}]
        BY <1>1, <4>1 DEF buf_core_free_que, TypeOK
      <4>3. inited' \in [Bufs -> BOOLEAN]
        BY <1>1, <4>1 DEF buf_core_free_que, TypeOK
      <4>4. ref' \in [Bufs -> Int]
        BY <1>1, <4>1 DEF TypeOK
      <4> QED
        BY <4>1, <4>2, <4>3, <4>4
    <3> QED
      BY <2>2, <3>1, <3>2
  <2>4. TypeOK'
    BY <1>1, <1>2, <1>3, <2>1, <2>2, <2>3 DEF TypeOK, QueueTypes, Holders, entryVars
  <2> QED
    BY <2>1, <2>4 DEF Inv
<1>5. CASE passed[b].op # "fill"
  <2>1. PICK dq \in BOOLEAN : buf_core_done(b, passed[b].u, dq)
    BY <1>5 DEF PPAct
  <2>2. bst[b] \in {"INIT", "ERR"}
    BY <1>1 DEF Inv, TableOK, StopOK, FreshOK
  <2>3. UNCHANGED <<coreVars, where, di>>
    BY <2>1, <2>2 DEF buf_core_done
  <2>4. intruded' = FALSE
    BY <1>1, <1>5, <2>3 DEF PPAct
  <2>5. UNCHANGED <<free_que, free_num, bst, ref, bits, holder, inited, tbl, bm_state, core_ref, chain,
                    where, decRef, di, wq_on, work, off, stop, released, intruded>>
    BY <1>1, <1>2, <2>3, <2>4 DEF coreVars, entryVars, TypeOK
  <2>6. TypeOK'
    BY <1>1, <1>3, <2>5 DEF TypeOK
  <2>7. RefExact' /\ FreeQueExact' /\ CoreRefExact' /\ ChainOK' /\ UsersOnChain'
    BY <2>5 DEF Inv, RefExact, Claims, FreeQueExact, CoreRefExact, ChainOK, UsersOnChain, Places
  <2>8. StateOK' /\ FreshOK' /\ DiOK' /\ TableOK' /\ StopOK'
    BY <2>5 DEF Inv, StateOK, FreshOK, DiOK, TableOK, StopOK
  <2>9. PassedOK'
    BY <1>1, <2>5 DEF PassedOK, PassedAt
  <2> QED
    BY <2>6, <2>7, <2>8, <2>9 DEF Inv
<1> QED
  BY <1>4, <1>5

\* A completion callback, whatever happened since its test.
LEMMA InvPPAct ==
    ASSUME Inv, ~intruded, NEW b \in Bufs, PPAct(b)
    PROVE  Inv'
<1>1. passed[b] # NoCall
  BY DEF PPAct
<1>2. CASE where[b] # passed[b].u
  BY <1>1, <1>2, InvPPLate
<1>3. CASE where[b] = passed[b].u /\ passed[b].op = "fill"
  BY <1>1, <1>3, InvPPFill
<1>4. CASE where[b] = passed[b].u /\ passed[b].op # "fill"
  BY <1>1, <1>4, InvPPDone
<1> QED
  BY <1>2, <1>3, <1>4

-----------------------------------------------------------------------------
(* The theorems *)

\* The state buf_core_mgr_init leaves satisfies the invariant.
LEMMA InvInit == Init => Inv
<1> SUFFICES ASSUME Init PROVE Inv
  OBVIOUS
<1>1. TypeOK
  <2>1. <<>> \in Seq(TaskTypes)
    OBVIOUS
  <2>2. free_que \in Seq(Bufs) /\ chain \in [Bufs -> Seq(TaskTypes)] /\ inited \in [Bufs -> BOOLEAN]
    BY <2>1, EmptyQue DEF Init
  <2>3. /\ bst \in [Bufs -> {"INIT", "FREE", "USE", "REF", "DONE", "ERR"}]
        /\ holder \in [Bufs -> {"DEC", "VPP", "GE2D", "SINK", "DI", "FREE"}]
        /\ where \in [Bufs -> Where] /\ decRef \in [Bufs -> 0..MaxDecRef]
        /\ di \in [Bufs -> {"no", "ref", "kept", "stale"}]
        /\ passed \in [Bufs -> Calls \cup {NoCall}]
    BY DecRefAssumption DEF Init, Where
  <2>4. ref \in [Bufs -> Int] /\ bits \in [Bufs -> Int]
    BY DEF Init
  <2>5. /\ wq_on \in BOOLEAN /\ off \in BOOLEAN /\ released \in BOOLEAN /\ intruded \in BOOLEAN
        /\ tbl \subseteq Bufs /\ work \subseteq Bufs
    BY DEF Init
  <2>6. free_num \in Int /\ core_ref \in Int /\ bm_state \in {"INIT", "ACTIVE", "EXIT"} /\ stop \in Stops
    BY DEF Init, Stops
  <2> QED
    BY <2>2, <2>3, <2>4, <2>5, <2>6 DEF TypeOK
<1>2. FreeQueExact
  BY EmptyQue DEF Init, FreeQueExact, Range
<1>3. CoreRefExact
  BY FS_EmptySet DEF Init, CoreRefExact, B2N
<1>4. RefExact /\ ChainOK /\ UsersOnChain
  BY EmptyQue DEF Init, RefExact, ChainOK, UsersOnChain, PostProcs
<1>5. StateOK /\ FreshOK /\ DiOK /\ TableOK /\ PassedOK /\ StopOK
  BY DEF Init, StateOK, FreshOK, DiOK, TableOK, PassedOK, PassedAt, StopOK, PostProcs
<1> QED
  BY <1>1, <1>2, <1>3, <1>4, <1>5 DEF Inv

\* Every step of the core, of its users and of STREAMOFF keeps the invariant.
LEMMA InvNext == Inv /\ [Next]_vars => Inv'
<1> SUFFICES ASSUME Inv, [Next]_vars PROVE Inv'
  OBVIOUS
<1>1. CASE UNCHANGED vars
  <2>1. UNCHANGED <<free_que, free_num, bst, ref, bits, holder, inited, tbl, bm_state, core_ref, chain,
                    where, decRef, di, passed, wq_on, work, off, stop, released, intruded>>
    BY <1>1 DEF vars, coreVars, entryVars, userVars, ctlVars
  <2>2. TypeOK'
    BY <2>1 DEF Inv, TypeOK
  <2>3. CASE intruded
    BY <2>1, <2>2, <2>3 DEF Inv
  <2>4. CASE ~intruded
    <3>1. RefExact' /\ FreeQueExact' /\ CoreRefExact' /\ ChainOK' /\ UsersOnChain'
      BY <2>1, <2>4 DEF Inv, RefExact, Claims, FreeQueExact, CoreRefExact, ChainOK, UsersOnChain, Places
    <3>2. StateOK' /\ FreshOK' /\ DiOK' /\ TableOK' /\ StopOK'
      BY <2>1, <2>4 DEF Inv, StateOK, FreshOK, DiOK, TableOK, StopOK
    <3>3. PassedOK'
      BY <2>1, <2>4, PassedSame DEF Inv, PassedOK
    <3> QED
      BY <2>2, <3>1, <3>2, <3>3 DEF Inv
  <2> QED
    BY <2>3, <2>4
<1>2. CASE Next
  <2>1. ~intruded
    BY <1>2 DEF Next
  <2>2. CASE DecGet
    BY <2>1, <2>2, InvGet DEF DecGet, Requesters
  <2>3. CASE PPGet
    BY <2>1, <2>3, InvGet DEF PPGet
  <2>4. ASSUME NEW b \in Bufs,
               \/ buf_core_get_ref(b) \/ PutRef(b) \/ DropPic(b) \/ DecDone(b)
               \/ BufQueue(b) \/ PPCheck(b) \/ PPAct(b) \/ Post(b)
               \/ DiRelease(b) \/ RecycleWork(b)
        PROVE  Inv'
    BY <2>1, <2>4, InvGetRef, InvPutRef, InvDropPic, InvDecDone, InvBufQueue, InvPPCheck,
       InvPPAct, InvPost, InvDiRelease, InvRecycleWork
  <2>5. ASSUME NEW b \in Bufs,
               AttachNew(b) \/ AttachReuse(b) \/ Cleanup(b) \/ buf_core_detach(b)
        PROVE  Inv'
    BY <2>1, <2>5, InvAttachNew, InvAttachReuse, InvCleanup, InvDetach
  <2>6. CASE StreamOn \/ StopBegin \/ VdecReset \/ VppReset \/ FlushWork \/ buf_core_reset \/ MgrRelease
    BY <2>1, <2>6, InvStreamOn, InvStopBegin, InvVdecReset, InvVppReset, InvFlushWork, InvReset,
       InvMgrRelease
  <2> QED
    BY <1>2, <2>2, <2>3, <2>4, <2>5, <2>6 DEF Next
<1> QED
  BY <1>1, <1>2

\* The inductive invariant holds in every reachable state, for any number of
\* buffers and any context.
THEOREM Invariance == Spec => []Inv
<1>1. Init => Inv
  BY InvInit
<1>2. Inv /\ [Next]_vars => Inv'
  BY InvNext
<1> QED
  BY <1>1, <1>2, PTL DEF Spec

\* Every field of the core keeps its type, after an intrusion too.
THEOREM TypeCorrect == Spec => []TypeOK
<1>1. Inv => TypeOK
  BY DEF Inv
<1> QED
  BY <1>1, Invariance, PTL

\* entry->ref counts the users that hold the buffer (buf_core_get, get_ref,
\* put_ref, done, fill, vpp_cb and reset together).
THEOREM RefCountsUsers == Spec => []RefExact
<1>1. Inv => RefExact
  BY DEF Inv, RefExact
<1> QED
  BY <1>1, Invariance, PTL

\* The free queue holds each FREE entry once, and free_num is its length.
THEOREM FreeQueueIsExact == Spec => []FreeQueExact
<1>1. Inv => FreeQueExact
  BY DEF Inv, FreeQueExact
<1> QED
  BY <1>1, Invariance, PTL

\* A buffer in the free queue is held by nobody, until a callback intrudes:
\* the late completion callback is the only way to FreeIsIdle's violation.
THEOREM FreeUnlessIntruded == Spec => [](intruded \/ FreeIsIdle)
<1>1. Inv => (intruded \/ FreeIsIdle)
  <2>1. SUFFICES ASSUME Inv, ~intruded, NEW b \in Range(free_que) PROVE Claims(b) = 0
    BY DEF FreeIsIdle
  <2>2. b \in tbl /\ bst[b] = "FREE"
    BY <2>1 DEF Inv, FreeQueExact
  <2>3. ref[b] = 0 /\ ref[b] = Claims(b)
    BY <2>1, <2>2 DEF Inv, StateOK, RefExact
  <2> QED
    BY <2>3
<1> QED
  BY <1>1, Invariance, PTL

\* The manager's count is one per entry plus its own, and it is destroyed with
\* the last of them (buf_core_attach, buf_core_detach, buf_core_mgr_release).
THEOREM CoreRefCounts == Spec => []CoreRefExact
<1>1. Init => CoreRefExact
  BY InvInit DEF Inv, Init
<1>2. Inv /\ CoreRefExact /\ [Next]_vars => CoreRefExact'
  <2>1. SUFFICES ASSUME Inv, CoreRefExact, [Next]_vars PROVE CoreRefExact'
    OBVIOUS
  <2>2. CASE ~intruded'
    BY <2>1, <2>2, InvNext DEF Inv
  <2>3. CASE intruded' /\ intruded = intruded'
    <3>1. UNCHANGED vars
      BY <2>1, <2>3 DEF Next
    <3> QED
      BY <2>1, <3>1 DEF vars, entryVars, ctlVars, CoreRefExact
  <2>4. CASE intruded' /\ intruded # intruded'
    <3>1. \E b \in Bufs : PPAct(b)
      BY <2>1, <2>4 DEF Next, vars, ctlVars, DecGet, PPGet, buf_core_get, buf_core_get_ref, PutRef, DropPic,
         DecDone, BufQueue, PPCheck, Post, DiRelease, RecycleWork, AttachNew, AttachReuse, Cleanup,
         buf_core_detach, StreamOn, StopBegin, VdecReset, VppReset, FlushWork, buf_core_reset, MgrRelease
    <3> QED
      BY <2>1, <3>1 DEF PPAct, entryVars, CoreRefExact
  <2> QED
    BY <2>2, <2>3, <2>4
<1> QED
  BY <1>1, <1>2, Invariance, PTL DEF Spec
-----------------------------------------------------------------------------
(* The holder counters                                                     *)

\* What the word does not contain is not disturbed.
LEMMA WordSame ==
    ASSUME NEW c \in Bufs, WordAt(c), bits'[c] = bits[c], inited'[c] => inited[c],
           decRef'[c] = decRef[c],
           \/ where'[c] = where[c]
           \/ where'[c] = "lost"
           \/ {where[c], where'[c]} \subseteq {"SINK", "app", "parked"},
           (di'[c] \in {"ref", "kept"}) <=> (di[c] \in {"ref", "kept"}),
           (c \in work') <=> (c \in work)
    PROVE  WordAt(c)'
BY DEF WordAt, Word, B2N

\* The digits of a word whose counters are in their range.
LEMMA Digits ==
    ASSUME NEW d \in 0..15, NEW g \in 0..1, NEW v \in 0..1, NEW s \in 0..1, NEW i \in 0..1,
           NEW w \in Int, w = d + 16 * g + 256 * v + 4096 * s + 65536 * i
    PROVE  /\ Count(w, "DEC") = d /\ Count(w, "GE2D") = g /\ Count(w, "VPP") = v
           /\ Count(w, "SINK") = s /\ Count(w, "DI") = i
<1>1. w \div 1 = w /\ w % 16 = d
  OBVIOUS
<1>2. w \div 16 = g + 16 * v + 256 * s + 4096 * i
  OBVIOUS
<1>3. w \div 256 = v + 16 * s + 256 * i
  OBVIOUS
<1>4. w \div 4096 = s + 16 * i
  OBVIOUS
<1>5. w \div 65536 = i
  OBVIOUS
<1>6. /\ (g + 16 * v + 256 * s + 4096 * i) % 16 = g
      /\ (v + 16 * s + 256 * i) % 16 = v
      /\ (s + 16 * i) % 16 = s
      /\ i % 16 = i
  OBVIOUS
<1> QED
  BY <1>1, <1>2, <1>3, <1>4, <1>5, <1>6 DEF Count, Shift

\* Without GE2D no route names a user twice.
LEMMA RouteGivers ==
    ASSUME ~Ctx.ge2d, NEW u \in Requesters(Ctx)
    PROVE  /\ u \in {"DEC", "VPP"}
           /\ \A i, j \in 1..Len(Route(Ctx, u)) : Route(Ctx, u)[i] = Route(Ctx, u)[j] => i = j
           /\ \A i \in 1..Len(Route(Ctx, u)) : Route(Ctx, u)[i] # "GE2D"
<1>1. Ctx.avbc = FALSE /\ Ctx.vpp \in BOOLEAN /\ Ctx.is_prog \in BOOLEAN
  BY CtxAssumption DEF Contexts
<1>2. u \in {"DEC", "VPP"}
  BY <1>1 DEF Requesters
<1>3. Route(Ctx, u) \in {<<"DEC", "SINK">>, <<"DEC", "VPP">>, <<"DEC", "VPP", "SINK">>, <<"VPP", "SINK">>}
  BY <1>1, <1>2 DEF Route, Requesters
<1> QED
  BY <1>2, <1>3

\* On such a chain the previous user of the next one is the giver.
LEMMA GiverOK ==
    ASSUME TypeOK, ChainOK, NEW b \in Bufs, GiverAt(b), NEW u, Places(b, u) # {}, ~IsLast(b, u)
    PROVE  /\ NextUser(b, u) \in {"VPP", "SINK"} /\ NextUser(b, u) # u
           /\ PreUser(b, NextUser(b, u)) = u
<1>1. Pos(b, u) \in Places(b, u)
  BY DEF Pos
<1>2. chain[b] \in Seq(TaskTypes)
  BY DEF TypeOK
<1>3. Pos(b, u) \in 1..Len(chain[b]) /\ Pos(b, u) < Len(chain[b]) /\ chain[b][Pos(b, u)] = u
  BY <1>1, <1>2 DEF Places, IsLast
<1>4. PICK p \in 1..Len(chain[b]) : p = Pos(b, u)
  BY <1>3
<1>5. PICK n : n = NextUser(b, u)
  OBVIOUS
<1>6. n = chain[b][p + 1] /\ p + 1 \in 2..Len(chain[b]) /\ p + 1 \in 1..Len(chain[b])
  BY <1>2, <1>3, <1>4, <1>5 DEF NextUser
<1>7. n \in {"VPP", "SINK"} /\ n # u
  BY <1>3, <1>4, <1>6 DEF ChainOK, GiverAt
<1>8. Places(b, n) = {p + 1}
  BY <1>6 DEF Places, GiverAt
<1>9. Pos(b, n) = p + 1
  BY <1>8 DEF Pos
<1>10. PreUser(b, n) = u
  BY <1>3, <1>4, <1>8, <1>9 DEF PreUser
<1> QED
  BY <1>5, <1>7, <1>10

\* The chains are drawn anew by aml_buf_get and by buf_core_attach only.
LEMMA GiverNext ==
    ASSUME ~Ctx.ge2d, TypeOK, NEW c \in Bufs, GiverAt(c), Next
    PROVE  GiverAt(c)'
<1>1. CASE chain'[c] = chain[c]
  BY <1>1 DEF GiverAt
<1>2. CASE chain' = chain
  BY <1>1, <1>2
<1>3. ASSUME NEW u \in Requesters(Ctx), buf_core_get(u)
      PROVE  GiverAt(c)'
  <2>1. PICK b : chain' = [chain EXCEPT ![b] = Route(Ctx, u)]
    BY <1>3 DEF buf_core_get
  <2>2. CASE c = b
    <3>1. chain'[c] = Route(Ctx, u)
      BY <2>1, <2>2 DEF TypeOK
    <3> QED
      BY <3>1, RouteGivers DEF GiverAt
  <2>3. CASE c # b
    BY <1>1, <2>1, <2>3 DEF TypeOK
  <2> QED
    BY <2>2, <2>3
<1>4. ASSUME NEW b \in Bufs, AttachNew(b)
      PROVE  GiverAt(c)'
  <2>1. CASE c = b
    <3>1. chain'[c] = <<>>
      BY <1>4, <2>1 DEF AttachNew, TypeOK
    <3> QED
      BY <3>1 DEF GiverAt
  <2>2. CASE c # b
    BY <1>1, <1>4, <2>2 DEF AttachNew, TypeOK
  <2> QED
    BY <2>1, <2>2
<1> QED
  BY <1>2, <1>3, <1>4 DEF Next, DecGet, PPGet, Requesters, entryVars, buf_core_get_ref, PutRef, DropPic,
     DecDone, BufQueue, PPCheck, PPAct, Post, DiRelease, RecycleWork, AttachReuse, Cleanup,
     buf_core_detach, StreamOn, StopBegin, VdecReset, VppReset, FlushWork, buf_core_reset, MgrRelease

\* The units that make up the word.
LEMMA WordParts ==
    ASSUME TypeOK, DiOK, NEW b \in Bufs
    PROVE  /\ decRef[b] \in 0..MaxDecRef /\ Word(b) \in Nat
           /\ di[b] \in {"ref", "kept"} => b \notin work
           /\ where[b] \in {"DEC", "VPP"} => di[b] = "no" /\ b \notin work
<1>1. decRef[b] \in 0..MaxDecRef
  BY DEF TypeOK
<1>2. Word(b) \in Nat
  BY <1>1, DecRefAssumption DEF Word, B2N
<1>3. di[b] \in {"ref", "kept"} => b \notin work
  BY DEF DiOK
<1>4. where[b] \in {"DEC", "VPP"} => di[b] = "no" /\ b \notin work
  BY DEF DiOK, PostProcs
<1> QED
  BY <1>1, <1>2, <1>3, <1>4

\* The decoder's digit is not zero while it has the buffer.
LEMMA DecUnit ==
    ASSUME TypeOK, DiOK, MaxDecRef <= 14, NEW b \in Bufs, decRef[b] > 0 \/ where[b] = "DEC",
           bits[b] = Word(b)
    PROVE  Count(bits[b], "DEC") # 0
<1> DEFINE d == decRef[b] + B2N(where[b] = "DEC")
           g == B2N(where[b] = "GE2D")
           v == B2N(where[b] = "VPP")
           s == B2N(where[b] \in {"SINK", "app", "parked"})
           i == B2N(di[b] \in {"ref", "kept"}) + B2N(b \in work)
<1>1. d \in 0..15 /\ d # 0
  BY WordParts, DecRefAssumption DEF B2N
<1>2. g \in 0..1 /\ v \in 0..1 /\ s \in 0..1 /\ i \in 0..1
  BY WordParts DEF B2N
<1>3. bits[b] \in Int /\ bits[b] = d + 16 * g + 256 * v + 4096 * s + 65536 * i
  BY DEF Word, TypeOK
<1> HIDE DEF d, g, v, s, i
<1> QED
  BY <1>1, <1>2, <1>3, Digits

\* put_ref, fill and vpp_cb: the unit of the user that lets go leaves the
\* word, and the free queue takes an empty one.
LEMMA DropWord ==
    ASSUME Inv, Inv', ~intruded, ~intruded', NEW b \in tbl, ref[b] > 0, WordAt(b),
           where[b] # "lost", NEW u \in {"DEC", "VPP", "SINK", "DI"}, DropRef(b, u),
           inited[b] /\ bits[b] = Word(b) /\ u = "DEC" => Count(bits[b], "DEC") # 0,
           Word(b)' = Word(b) - Shift(u), UNCHANGED tbl
    PROVE  WordAt(b)'
<1>1. TypeOK /\ b \in Bufs
  BY DEF Inv, TypeOK
<1>2. CASE ref[b] = 1
  <2>1. ref'[b] = 0 /\ bits'[b] = 0
    BY <1>1, <1>2 DEF DropRef, buf_core_free_que, SetBook, TypeOK
  <2>2. Claims(b)' = 0 /\ where'[b] # "none" /\ decRef'[b] \in Nat
    BY <1>1, <2>1 DEF Inv, RefExact, TableOK, TypeOK
  <2>3. Word(b)' = 0
    BY <2>2 DEF Claims, Word, B2N
  <2> QED
    BY <2>1, <2>3 DEF WordAt
<1>3. CASE ref[b] # 1
  <2>1. inited[b]
    <3>1. SUFFICES ASSUME ~inited[b] PROVE FALSE
      OBVIOUS
    <3>2. /\ where[b] \in {"app", "parked", "idle"} /\ decRef[b] = 0
          /\ where[b] # "idle" => di[b] \notin {"ref", "kept"} /\ b \notin work
          /\ di[b] \in {"ref", "kept"} => b \notin work
      BY <1>1, <3>1 DEF Inv, FreshOK, DiOK
    <3>3. Claims(b) <= 1
      BY <3>2 DEF Claims, B2N
    <3>4. ref[b] = Claims(b) /\ ref[b] \in Int
      BY <1>1 DEF Inv, RefExact, TypeOK
    <3> QED
      BY <1>3, <3>3, <3>4
  <2>2. bits[b] = Word(b)
    BY <2>1 DEF WordAt
  <2>3. SetBook(b, direction_buf_put(Book(b), u))
    BY <1>1, <1>3 DEF DropRef, TypeOK
  <2>4. direction_buf_put(Book(b), u).w = bits[b] - Shift(u)
    BY <2>1, <2>2 DEF direction_buf_put, Book
  <2>5. bits'[b] = bits[b] - Shift(u)
    BY <1>1, <2>3, <2>4 DEF SetBook, TypeOK
  <2> QED
    BY <2>2, <2>5 DEF WordAt
<1> QED
  BY <1>2, <1>3

\* The other entries keep their words when a reference of b is dropped.
LEMMA DropOthers ==
    ASSUME TypeOK, NEW b \in Bufs, NEW u, DropRef(b, u), NEW c \in Bufs, c # b
    PROVE  bits'[c] = bits[c] /\ inited'[c] = inited[c]
BY DEF DropRef, buf_core_free_que, SetBook, TypeOK

\* aml_buf_put_ref of a picture the decoder no longer predicts from.
LEMMA PutRefWord ==
    ASSUME Inv, Inv', ~intruded, MaxDecRef <= 14, NEW b \in Bufs, PutRef(b),
           NEW c \in Bufs, WordAt(c)
    PROVE  WordAt(c)'
<1>1. TypeOK /\ DiOK /\ decRef[b] > 0 /\ decRef[b] \in Nat /\ b \in tbl /\ ref[b] = Claims(b)
  <2>1. decRef[b] > 0 /\ decRef[b] \in Nat
    BY DEF PutRef, Inv, TypeOK
  <2>2. b \in tbl
    BY <2>1 DEF Inv, TableOK
  <2> QED
    BY <2>1, <2>2 DEF Inv, RefExact
<1>2. ref[b] > 0
  BY <1>1 DEF Claims, B2N
<1>3. DropRef(b, "DEC")
  BY <1>2 DEF PutRef, buf_core_put_ref
<1>4. decRef' = [decRef EXCEPT ![b] = @ - 1] /\ UNCHANGED <<tbl, where, di, work, intruded>>
  BY DEF PutRef, entryVars, ctlVars
<1>5. CASE c # b
  BY <1>1, <1>3, <1>4, <1>5, DropOthers, WordSame DEF TypeOK
<1>6. CASE c = b
  <2>1. CASE where[b] = "lost"
    BY <1>4, <1>6, <2>1 DEF WordAt
  <2>2. CASE where[b] # "lost"
    <3>1. decRef'[b] = decRef[b] - 1
      BY <1>1, <1>4 DEF TypeOK
    <3>2. Word(b)' = Word(b) - Shift("DEC")
      BY <1>1, <1>4, <3>1 DEF Word, B2N, Shift
    <3>3. bits[b] = Word(b) => Count(bits[b], "DEC") # 0
      BY <1>1, DecUnit
    <3> QED
      BY <1>1, <1>2, <1>3, <1>4, <1>6, <2>2, <3>2, <3>3, DropWord
  <2> QED
    BY <2>1, <2>2
<1> QED
  BY <1>5, <1>6

\* aml_buf_put_ref of a picture that will not be shown.
LEMMA DropPicWord ==
    ASSUME Inv, Inv', ~intruded, MaxDecRef <= 14, NEW b \in Bufs, DropPic(b),
           NEW c \in Bufs, WordAt(c)
    PROVE  WordAt(c)'
<1>1. TypeOK /\ DiOK /\ where[b] = "DEC" /\ decRef[b] \in Nat /\ b \in tbl /\ ref[b] = Claims(b)
  <2>1. where[b] = "DEC" /\ decRef[b] \in Nat
    BY DEF DropPic, Inv, TypeOK
  <2>2. b \in tbl
    BY <2>1 DEF Inv, TableOK
  <2> QED
    BY <2>1, <2>2 DEF Inv, RefExact
<1>2. ref[b] > 0
  BY <1>1 DEF Claims, B2N
<1>3. DropRef(b, "DEC")
  BY <1>2 DEF DropPic, buf_core_put_ref
<1>4. where' = [where EXCEPT ![b] = "idle"] /\ UNCHANGED <<tbl, decRef, di, work, intruded>>
  BY DEF DropPic, entryVars, ctlVars
<1>5. CASE c # b
  BY <1>1, <1>3, <1>4, <1>5, DropOthers, WordSame DEF TypeOK
<1>6. CASE c = b
  <2>1. where'[b] = "idle"
    BY <1>1, <1>4 DEF TypeOK
  <2>2. Word(b)' = Word(b) - Shift("DEC")
    BY <1>1, <1>4, <2>1 DEF Word, B2N, Shift
  <2>3. bits[b] = Word(b) => Count(bits[b], "DEC") # 0
    BY <1>1, DecUnit
  <2> QED
    BY <1>1, <1>2, <1>3, <1>4, <1>6, <2>2, <2>3, DropWord
<1> QED
  BY <1>5, <1>6

\* The recycle work takes the DI manager's unit.
LEMMA RecycleWord ==
    ASSUME Inv, Inv', ~intruded, NEW b \in Bufs, RecycleWork(b), NEW c \in Bufs, WordAt(c)
    PROVE  WordAt(c)'
<1>1. /\ TypeOK /\ b \in work /\ decRef[b] \in Nat /\ b \in tbl /\ ref[b] = Claims(b)
      /\ DropRef(b, "DI")
  <2>1. b \in work /\ decRef[b] \in Nat /\ DropRef(b, "DI")
    BY DEF RecycleWork, Inv, TypeOK
  <2>2. b \in tbl
    BY <2>1 DEF Inv, TableOK
  <2> QED
    BY <2>1, <2>2 DEF Inv, RefExact
<1>2. ref[b] > 0
  BY <1>1 DEF Claims, B2N
<1>3. work' = work \ {b} /\ UNCHANGED <<tbl, where, decRef, di, intruded>>
  BY DEF RecycleWork, entryVars
<1>4. CASE c # b
  BY <1>1, <1>3, <1>4, DropOthers, WordSame
<1>5. CASE c = b
  <2>1. CASE where[b] = "lost"
    BY <1>3, <1>5, <2>1 DEF WordAt
  <2>2. CASE where[b] # "lost"
    <3>1. Word(b)' = Word(b) - Shift("DI")
      BY <1>1, <1>3 DEF Word, B2N, Shift
    <3> QED
      BY <1>1, <1>2, <1>3, <1>5, <2>2, <3>1, DropWord
  <2> QED
    BY <2>1, <2>2
<1> QED
  BY <1>4, <1>5

\* QBUF gives the sink's unit back, or leaves an entry that has not been
\* through the free queue to the DI manager.
LEMMA QueueWord ==
    ASSUME Inv, Inv', ~intruded, NEW b \in Bufs, BufQueue(b), NEW c \in Bufs, WordAt(c)
    PROVE  WordAt(c)'
<1>1. TypeOK /\ where[b] = "app" /\ decRef[b] \in Nat /\ b \in tbl /\ ref[b] = Claims(b)
  <2>1. where[b] = "app" /\ TypeOK
    BY DEF BufQueue, Inv
  <2>2. b \in tbl
    BY <2>1 DEF Inv, TableOK
  <2>3. decRef[b] \in Nat
    BY <2>1 DEF TypeOK
  <2> QED
    BY <2>1, <2>2, <2>3 DEF Inv, RefExact
<1>2. bc_sanity_check /\ bst[b] \in {"INIT", "DONE", "REF"} /\ ref[b] > 0
  <2>1. ref[b] > 0
    BY <1>1 DEF Claims, B2N
  <2> QED
    BY <1>1, <2>1 DEF Inv, bc_sanity_check, TableOK, StateOK
<1>3. where' = [where EXCEPT ![b] = "idle"] /\ UNCHANGED <<tbl, decRef, work, intruded>>
  BY DEF BufQueue, entryVars, ctlVars
<1>4. where'[b] = "idle" /\ \A e \in Bufs \ {b} : where'[e] = where[e]
  BY <1>1, <1>3 DEF TypeOK
<1>5. CASE DiPost /\ di[b] # "no" /\ ~inited[b]
  <2>1. di' = [di EXCEPT ![b] = "ref"] /\ UNCHANGED coreVars
    BY <1>2, <1>5 DEF BufQueue, buf_core_fill
  <2>2. CASE c = b
    BY <1>5, <2>1, <2>2 DEF coreVars, WordAt
  <2>3. CASE c # b
    <3>1. di'[c] = di[c]
      BY <1>1, <2>1, <2>3 DEF TypeOK
    <3> QED
      BY <1>3, <1>4, <2>1, <2>3, <3>1, WordSame DEF coreVars
  <2> QED
    BY <2>2, <2>3
<1>6. CASE ~(DiPost /\ di[b] # "no" /\ ~inited[b])
  <2>1. DropRef(b, "SINK") /\ UNCHANGED di
    BY <1>2, <1>6 DEF BufQueue, buf_core_fill
  <2>2. CASE c = b
    <3>1. Word(b)' = Word(b) - Shift("SINK")
      BY <1>1, <1>3, <1>4, <2>1 DEF Word, B2N, Shift
    <3> QED
      BY <1>1, <1>2, <1>3, <2>1, <2>2, <3>1, DropWord
  <2>3. CASE c # b
    BY <1>1, <1>3, <1>4, <2>1, <2>3, DropOthers, WordSame
  <2> QED
    BY <2>2, <2>3
<1> QED
  BY <1>5, <1>6

\* The decoder's further reference is a further unit.
LEMMA GetRefWord ==
    ASSUME Inv, NEW b \in Bufs, buf_core_get_ref(b), NEW c \in Bufs, WordAt(c)
    PROVE  WordAt(c)'
<1>1. TypeOK /\ decRef[b] \in Nat /\ bits[b] \in Int
  BY DEF Inv, TypeOK
<1>2. /\ decRef' = [decRef EXCEPT ![b] = @ + 1]
      /\ UNCHANGED <<inited, where, di, work>>
  BY DEF buf_core_get_ref, ctlVars
<1>3. bits' = [bits EXCEPT ![b] = bits[b] + 1]
  <2>1. direction_buf_get(Book(b), "DEC", NoType).w = bits[b] + 1
    BY DEF direction_buf_get, Book, Shift
  <2>2. SetBook(b, direction_buf_get(Book(b), "DEC", NoType))
    BY DEF buf_core_get_ref
  <2> QED
    BY <2>1, <2>2 DEF SetBook
<1>4. CASE c = b
  <2>1. decRef'[b] = decRef[b] + 1 /\ bits'[b] = bits[b] + 1
    BY <1>1, <1>2, <1>3 DEF TypeOK
  <2>2. Word(b)' = Word(b) + 1
    BY <1>1, <1>2, <2>1 DEF Word, B2N
  <2> QED
    BY <1>2, <1>4, <2>1, <2>2 DEF WordAt
<1>5. CASE c # b
  BY <1>1, <1>2, <1>3, <1>5, WordSame DEF TypeOK
<1> QED
  BY <1>4, <1>5

\* aml_buf_get: the entry comes from the free queue with an empty word, and
\* the requester's unit is the first.
LEMMA GetWord ==
    ASSUME Inv, ~intruded, ~Ctx.ge2d, NEW u \in Requesters(Ctx), buf_core_get(u),
           NEW c \in Bufs, WordAt(c)
    PROVE  WordAt(c)'
<1>1. TypeOK /\ u \in {"DEC", "VPP"}
  BY RouteGivers DEF Inv
<1>2. PICK b : b = free_que[1]
  OBVIOUS
<1>3. /\ free_que # <<>>
      /\ SetBook(b, direction_buf_get(Book(b), u, NoType))
      /\ Move(b, "idle", u)
      /\ UNCHANGED <<inited, decRef, di, work>>
  BY <1>2 DEF buf_core_get, ctlVars
<1>4. b \in tbl /\ b \in Bufs /\ bst[b] = "FREE"
  <2>1. b \in Range(free_que)
    BY <1>1, <1>2, <1>3 DEF Range, TypeOK
  <2> QED
    BY <1>1, <2>1 DEF Inv, FreeQueExact, TypeOK
<1>5. Claims(b) = 0 /\ where[b] # "none" /\ decRef[b] \in Nat
  BY <1>1, <1>4 DEF Inv, StateOK, RefExact, TableOK, TypeOK
<1>6. /\ where[b] = "idle" /\ decRef[b] = 0 /\ di[b] \notin {"ref", "kept"} /\ b \notin work
      /\ inited[b]
  <2>1. where[b] = "idle" /\ decRef[b] = 0 /\ di[b] \notin {"ref", "kept"} /\ b \notin work
    BY <1>5 DEF Claims, B2N
  <2> QED
    BY <1>4, <2>1 DEF Inv, FreshOK
<1>7. bits' = [bits EXCEPT ![b] = bits[b] + Shift(u)] /\ where' = [where EXCEPT ![b] = u]
  <2>1. direction_buf_get(Book(b), u, NoType).w = bits[b] + Shift(u)
    BY <1>1 DEF direction_buf_get, Book, NoType, Shift, TypeOK
  <2>2. bits' = [bits EXCEPT ![b] = bits[b] + Shift(u)]
    BY <1>3, <2>1 DEF SetBook
  <2>3. where' = [where EXCEPT ![b] = u]
    BY <1>3, <1>6 DEF Move
  <2> QED
    BY <2>2, <2>3
<1>8. CASE c = b
  <2>1. bits[b] = 0
    BY <1>6, <1>8 DEF WordAt, Word, B2N
  <2>2. bits'[b] = Shift(u) /\ where'[b] = u
    BY <1>1, <1>4, <1>7, <2>1 DEF TypeOK, Shift
  <2>3. Word(b)' = Shift(u)
    BY <1>1, <1>3, <1>6, <2>2 DEF Word, B2N, Shift
  <2> QED
    BY <1>8, <2>2, <2>3 DEF WordAt
<1>9. CASE c # b
  BY <1>1, <1>3, <1>4, <1>7, <1>9, WordSame DEF TypeOK
<1> QED
  BY <1>8, <1>9

\* buf_core_done: the giver's unit leaves the word with the taker's coming, and
\* a buffer that is lent to the DI manager has its unit too.
LEMMA HandOnWord ==
    ASSUME Inv, ~intruded, NEW b \in tbl, NEW u \in {"DEC", "VPP"}, where[b] = u,
           ~IsLast(b, u), GiverAt(b), NEW dq \in BOOLEAN, buf_core_done(b, u, dq),
           UNCHANGED <<decRef, work>>, NEW c \in Bufs, WordAt(c)
    PROVE  WordAt(c)'
<1> DEFINE next  == NextUser(b, u)
           toDi  == DiPost /\ next = "SINK" /\ dq
           book1 == IF toDi THEN direction_buf_get(Book(b), "DI", NoType) ELSE Book(b)
           lost  == next = "SINK" /\ off
           book2 == IF lost THEN book1 ELSE direction_buf_get(book1, next, PreUser(b, next))
<1>1. TypeOK /\ ChainOK /\ b \in Bufs /\ DiOK
  BY DEF Inv, TypeOK
<1>2. bc_sanity_check /\ bst[b] \in {"USE", "REF", "DONE"} /\ inited[b]
  <2>1. bc_sanity_check /\ bst[b] \in {"USE", "REF", "DONE"}
    BY DEF Inv, bc_sanity_check, TableOK, StateOK, PostProcs
  <2>2. inited[b]
    BY <1>1 DEF Inv, FreshOK
  <2> QED
    BY <2>1, <2>2
<1>3. next \in {"VPP", "SINK"} /\ next # u /\ PreUser(b, next) = u
  <2>1. Places(b, u) # {}
    BY <1>1 DEF Inv, UsersOnChain, PostProcs
  <2> QED
    BY <1>1, <2>1, GiverOK
<1>4. /\ di'  = IF toDi THEN [di EXCEPT ![b] = "ref"] ELSE di
      /\ SetBook(b, book2)
      /\ Move(b, u, IF lost THEN "lost" ELSE next)
      /\ UNCHANGED inited
  BY <1>2 DEF buf_core_done
<1>5. book1.w = bits[b] + 65536 * B2N(toDi)
  <2>1. bits[b] \in Int
    BY <1>1 DEF TypeOK
  <2>2. CASE toDi
    BY <2>1, <2>2 DEF direction_buf_get, Book, Shift, B2N
  <2>3. CASE ~toDi
    BY <2>1, <2>3 DEF Book, B2N
  <2> QED
    BY <2>2, <2>3
<1>6. ~lost => book2.w = book1.w + Shift(next) - Shift(u)
  <2> HIDE DEF book1, next
  <2>1. SUFFICES ASSUME ~lost
                 PROVE  direction_buf_get(book1, next, u).w = book1.w + Shift(next) - Shift(u)
    BY <1>3
  <2>2. CASE next = "VPP"
    BY <1>3, <2>2 DEF direction_buf_get
  <2>3. CASE next = "SINK"
    BY <2>3 DEF direction_buf_get
  <2> QED
    BY <1>3, <2>2, <2>3
<1>7. where' = [where EXCEPT ![b] = IF lost THEN "lost" ELSE next]
  BY <1>4 DEF Move
<1>8. bits' = [bits EXCEPT ![b] = book2.w]
  BY <1>4 DEF SetBook
<1> HIDE DEF book1, book2, next
<1>9. CASE c # b
  <2>1. bits'[c] = bits[c] /\ where'[c] = where[c] /\ di'[c] = di[c]
    BY <1>1, <1>4, <1>7, <1>8, <1>9 DEF TypeOK
  <2> QED
    BY <1>4, <2>1, WordSame
<1>10. CASE c = b
  <2>1. CASE lost
    <3>1. where'[b] = "lost"
      BY <1>1, <1>7, <2>1 DEF TypeOK
    <3> QED
      BY <1>10, <3>1 DEF WordAt
  <2>2. CASE ~lost
    <3>1. where'[b] = next /\ bits'[b] = book2.w
      BY <1>1, <1>7, <1>8, <2>2 DEF TypeOK
    <3>2. bits[b] = Word(b) /\ Word(b) \in Nat
      BY <1>1, <1>2, <1>10, WordParts DEF WordAt
    <3>3. di[b] = "no" /\ b \notin work /\ b \notin work' /\ decRef'[b] = decRef[b] /\ decRef[b] \in Nat
      BY <1>1, WordParts DEF TypeOK
    <3>4. Word(b) = decRef[b] + Shift(u)
      BY <3>3 DEF Word, B2N, Shift
    <3>5. (di'[b] \in {"ref", "kept"}) <=> toDi
      BY <1>1, <1>4, <3>3 DEF TypeOK
    <3>6. Word(b)' = decRef[b] + Shift(next) + 65536 * B2N(toDi)
      BY <1>3, <3>1, <3>3, <3>5 DEF Word, B2N, Shift
    <3>7. bits'[b] = Word(b)'
      <4>1. Shift(u) \in Int /\ Shift(next) \in Int /\ B2N(toDi) \in Int
        BY <1>3, ShiftType DEF B2N
      <4> QED
        BY <1>5, <1>6, <2>2, <3>1, <3>2, <3>3, <3>4, <3>6, <4>1
    <3> QED
      BY <1>10, <3>7 DEF WordAt
  <2> QED
    BY <2>1, <2>2
<1> QED
  BY <1>9, <1>10

\* A completion callback gives its unit up or on; the late one finds an entry
\* it does nothing to.
LEMMA PPActWord ==
    ASSUME Inv, Inv', ~intruded, ~intruded', NEW b \in Bufs, PPAct(b), GiverAt(b),
           NEW c \in Bufs, WordAt(c)
    PROVE  WordAt(c)'
<1>1. TypeOK /\ passed[b] # NoCall /\ passed[b].u \in {"VPP", "GE2D"}
  BY DEF PPAct, Inv, TypeOK, Calls, PostProcs
<1>2. UNCHANGED <<tbl, decRef, work>>
  BY DEF PPAct, entryVars
<1>3. CASE where[b] # passed[b].u
  <2>1. passed[b].op # "fill"
    BY <1>3 DEF PPAct, Inv, TypeOK
  <2>2. PICK dq \in BOOLEAN : buf_core_done(b, passed[b].u, dq)
    BY <2>1 DEF PPAct
  <2>3. off /\ stop = "run"
    BY <1>1, <1>3 DEF Inv, PassedOK, PassedAt
  <2>4. bst[b] \in {"INIT", "ERR"}
    BY <2>3 DEF Inv, TableOK, StopOK, FreshOK
  <2>5. UNCHANGED <<coreVars, where, di>>
    BY <2>2, <2>4 DEF buf_core_done
  <2> QED
    BY <1>2, <2>5, WordSame DEF coreVars
<1>4. CASE where[b] = passed[b].u
  <2>1. where[b] = "VPP" /\ b \in tbl
    <3>1. b \in tbl
      BY <1>1, <1>4 DEF Inv, TableOK
    <3>2. where[b] # "GE2D"
      BY <1>1 DEF Inv, UsersOnChain, PostProcs, Places, GiverAt
    <3> QED
      BY <1>1, <1>4, <3>1, <3>2
  <2>2. CASE passed[b].op # "fill"
    <3>1. PICK dq \in BOOLEAN : buf_core_done(b, passed[b].u, dq)
      BY <2>2 DEF PPAct
    <3>2. ~IsLast(b, passed[b].u)
      BY <1>1, <1>4, <2>1, <2>2 DEF Inv, PassedOK, PassedAt, StopOK
    <3> QED
      BY <1>2, <1>4, <2>1, <3>1, <3>2, HandOnWord
  <2>3. CASE passed[b].op = "fill"
    <3>1. IsLast(b, "VPP") /\ decRef[b] \in Nat /\ ref[b] = Claims(b)
      <4>1. PassedAt(b) /\ (off /\ stop = "run" => where[b] # "VPP")
        BY <2>1 DEF Inv, PassedOK, StopOK
      <4>2. IsLast(b, "VPP")
        BY <1>1, <1>4, <2>1, <2>3, <4>1 DEF PassedAt
      <4>3. ref[b] = Claims(b)
        BY <2>1 DEF Inv, RefExact
      <4> QED
        BY <1>1, <4>2, <4>3 DEF TypeOK
    <3>2. ref[b] > 0
      BY <2>1, <3>1 DEF Claims, B2N
    <3>3. bst[b] \in {"REF", "DONE"}
      <4>1. bst[b] # "USE"
        BY <1>1, <2>1, <3>1, SourceOK DEF Inv, UsersOnChain, PostProcs
      <4> QED
        BY <2>1, <4>1 DEF Inv, StateOK, PostProcs
    <3>4. DropRef(b, "VPP") /\ UNCHANGED di /\ where' = [where EXCEPT ![b] = "idle"]
      BY <1>4, <2>1, <2>3, <3>3 DEF PPAct, buf_core_fill, Move, bc_sanity_check, Inv, TableOK
    <3>5. where'[b] = "idle" /\ \A e \in Bufs \ {b} : where'[e] = where[e]
      BY <1>1, <3>4 DEF TypeOK
    <3>6. CASE c # b
      BY <1>1, <1>2, <3>4, <3>5, <3>6, DropOthers, WordSame
    <3>7. CASE c = b
      <4>1. Word(b)' = Word(b) - Shift("VPP")
        BY <1>1, <1>2, <2>1, <3>1, <3>4, <3>5 DEF Word, B2N, Shift
      <4> QED
        BY <1>2, <2>1, <3>2, <3>4, <3>7, <4>1, DropWord
    <3> QED
      BY <3>6, <3>7
  <2> QED
    BY <2>2, <2>3
<1> QED
  BY <1>3, <1>4

\* Every step keeps the words of the entries that have been through the free
\* queue.
LEMMA WordNext ==
    ASSUME ~Ctx.ge2d, MaxDecRef <= 14, Inv, Inv', ~intruded, ~intruded', Next,
           NEW c \in Bufs, \A b \in Bufs : WordAt(b) /\ GiverAt(b)
    PROVE  WordAt(c)'
<1>1. TypeOK
  BY DEF Inv
<1>2. CASE DecGet \/ PPGet
  BY <1>2, GetWord DEF DecGet, PPGet, Requesters
<1>3. ASSUME NEW b \in Bufs,
             buf_core_get_ref(b) \/ PutRef(b) \/ DropPic(b) \/ BufQueue(b) \/ PPAct(b) \/ RecycleWork(b)
      PROVE  WordAt(c)'
  BY <1>3, GetRefWord, PutRefWord, DropPicWord, QueueWord, PPActWord, RecycleWord
<1>4. ASSUME NEW b \in Bufs, DecDone(b)
      PROVE  WordAt(c)'
  <2>1. PICK dq \in BOOLEAN : buf_core_done(b, "DEC", dq)
    BY <1>4 DEF DecDone
  <2>2. where[b] = "DEC" /\ b \in tbl
    BY <1>4 DEF DecDone, Inv, TableOK
  <2>3. ~IsLast(b, "DEC")
    BY <2>2, SourceOK DEF Inv, UsersOnChain
  <2>4. UNCHANGED <<decRef, work>>
    BY <1>4 DEF DecDone, ctlVars
  <2> QED
    BY <2>1, <2>2, <2>3, <2>4, HandOnWord
<1>5. ASSUME NEW b \in Bufs, Post(b) \/ AttachReuse(b) \/ Cleanup(b)
      PROVE  WordAt(c)'
  <2>1. UNCHANGED <<bits, inited, decRef, di, work>>
    BY <1>5 DEF Post, AttachReuse, Cleanup, coreVars, ctlVars
  <2>2. \/ where'[c] = where[c]
        \/ where'[c] = "lost"
        \/ {where[c], where'[c]} \subseteq {"SINK", "app", "parked"}
    BY <1>1, <1>5 DEF Post, AttachReuse, Cleanup, TypeOK
  <2> QED
    BY <2>1, <2>2, WordSame
<1>6. ASSUME NEW b \in Bufs, DiRelease(b)
      PROVE  WordAt(c)'
  <2>1. di[b] = "ref" /\ di' = [di EXCEPT ![b] = "no"] /\ UNCHANGED <<bits, inited, decRef, where>>
    BY <1>6 DEF DiRelease, coreVars
  <2>2. b \in tbl /\ wq_on /\ b \notin work
    <3>1. b \in tbl /\ b \notin work /\ stop \notin {"vppreset", "flushed"}
      BY <2>1 DEF Inv, TableOK, DiOK
    <3>2. ~(off /\ stop = "run")
      BY <2>1 DEF Inv, StopOK
    <3> QED
      BY <1>1, <3>1, <3>2 DEF Inv, StopOK, TypeOK
  <2>3. work' = work \cup {b}
    BY <1>6, <2>2 DEF DiRelease
  <2>4. CASE c = b
    <3>1. di'[b] = "no"
      BY <1>1, <2>1 DEF TypeOK
    <3>2. Word(b)' = Word(b)
      BY <2>1, <2>2, <2>3, <3>1 DEF Word, B2N
    <3> QED
      BY <2>1, <2>4, <3>2 DEF WordAt
  <2>5. CASE c # b
    <3>1. di'[c] = di[c]
      BY <1>1, <2>1, <2>5 DEF TypeOK
    <3> QED
      BY <2>1, <2>3, <2>5, <3>1, WordSame
  <2> QED
    BY <2>4, <2>5
<1>7. ASSUME NEW b \in Bufs, AttachNew(b) \/ buf_core_detach(b)
      PROVE  WordAt(c)'
  <2>1. UNCHANGED <<decRef, di, work>>
    BY <1>7 DEF AttachNew, buf_core_detach, ctlVars
  <2>2. CASE c = b
    <3>1. ~inited'[b]
      BY <1>1, <1>7 DEF AttachNew, buf_core_detach, Inv, StopOK, TypeOK
    <3> QED
      BY <2>2, <3>1 DEF WordAt
  <2>3. CASE c # b
    <3>1. bits'[c] = bits[c] /\ inited'[c] = inited[c] /\ where'[c] = where[c]
      BY <1>1, <1>7, <2>3 DEF AttachNew, buf_core_detach, TypeOK
    <3> QED
      BY <2>1, <3>1, WordSame
  <2> QED
    BY <2>2, <2>3
<1>8. CASE buf_core_reset
  <2>1. ~inited'[c]
    BY <1>8 DEF buf_core_reset, Inv, FreshOK
  <2> QED
    BY <2>1 DEF WordAt
<1>9. CASE VppReset
  <2>1. (di'[c] \in {"ref", "kept"}) <=> (di[c] \in {"ref", "kept"})
    BY <1>9 DEF VppReset
  <2> QED
    BY <1>9, <2>1, WordSame DEF VppReset, coreVars
<1>10. CASE (\E b \in Bufs : PPCheck(b)) \/ StreamOn \/ StopBegin \/ VdecReset \/ FlushWork \/ MgrRelease
  <2>1. UNCHANGED <<bits, inited, decRef, di, work, where>>
    BY <1>10 DEF PPCheck, StreamOn, StopBegin, VdecReset, FlushWork, MgrRelease, coreVars, ctlVars, userVars
  <2> QED
    BY <2>1, WordSame
<1> QED
  BY <1>2, <1>3, <1>4, <1>5, <1>6, <1>7, <1>8, <1>9, <1>10 DEF Next

\* While an entry that has been through the free queue is in use, its word
\* reads as its holders.
LEMMA WordTells ==
    ASSUME MaxDecRef <= 14, Inv, WordInv
    PROVE  BitsTellHolders
<1>1. SUFFICES ASSUME NEW b \in tbl, ~intruded, bst[b] # "INIT", where[b] # "lost"
               PROVE  /\ Count(bits[b], "DEC")  = decRef[b] + B2N(where[b] = "DEC")
                      /\ Count(bits[b], "VPP")  = B2N(where[b] = "VPP")
                      /\ Count(bits[b], "GE2D") = B2N(where[b] = "GE2D")
                      /\ Count(bits[b], "SINK") = B2N(where[b] \in {"SINK", "app", "parked"})
                      /\ Count(bits[b], "DI")   = B2N(di[b] \in {"ref", "kept"}) + B2N(b \in work)
  BY DEF BitsTellHolders
<1>2. TypeOK /\ DiOK /\ b \in Bufs
  BY <1>1 DEF Inv, TypeOK
<1>3. inited[b]
  BY <1>1, <1>2 DEF Inv, FreshOK
<1>4. bits[b] = Word(b)
  BY <1>1, <1>2, <1>3 DEF WordInv, WordAt
<1> DEFINE d == decRef[b] + B2N(where[b] = "DEC")
           g == B2N(where[b] = "GE2D")
           v == B2N(where[b] = "VPP")
           s == B2N(where[b] \in {"SINK", "app", "parked"})
           i == B2N(di[b] \in {"ref", "kept"}) + B2N(b \in work)
<1>5. d \in 0..15
  BY <1>2, WordParts, DecRefAssumption DEF B2N
<1>6. g \in 0..1 /\ v \in 0..1 /\ s \in 0..1 /\ i \in 0..1
  BY <1>2, WordParts DEF B2N
<1>7. bits[b] \in Int /\ bits[b] = d + 16 * g + 256 * v + 4096 * s + 65536 * i
  BY <1>2, <1>4 DEF Word, TypeOK
<1>8. /\ Count(bits[b], "DEC") = d /\ Count(bits[b], "GE2D") = g /\ Count(bits[b], "VPP") = v
      /\ Count(bits[b], "SINK") = s /\ Count(bits[b], "DI") = i
  <2> HIDE DEF d, g, v, s, i
  <2> QED
    BY <1>5, <1>6, <1>7, Digits
<1> QED
  BY <1>8

\* ref_bit_map tells who holds the buffer once it has been through the free
\* queue (direction_buf_get and direction_buf_put together with the order of
\* the users on the chain), where no GE2D takes buffers from the queue and the
\* decoder's references fit into their four bits.
THEOREM BitsAreHolders ==
    ASSUME ~Ctx.ge2d, MaxDecRef <= 14
    PROVE  Spec => []BitsTellHolders
<1>1. Init => WordInv
  BY DEF Init, WordInv, WordAt, GiverAt
<1>2. Inv /\ Inv' /\ WordInv /\ [Next]_vars => WordInv'
  <2>1. SUFFICES ASSUME Inv, Inv', WordInv, [Next]_vars, ~intruded', NEW c \in Bufs
                 PROVE  WordAt(c)' /\ GiverAt(c)'
    BY DEF WordInv
  <2>2. CASE UNCHANGED vars
    <3>1. UNCHANGED <<bits, inited, decRef, di, work, where, chain, intruded>>
      BY <2>2 DEF vars, coreVars, entryVars, userVars, ctlVars
    <3>2. WordAt(c) /\ GiverAt(c)
      BY <2>1, <3>1 DEF WordInv
    <3> QED
      BY <3>1, <3>2, WordSame DEF GiverAt
  <2>3. CASE Next
    <3>1. ~intruded /\ TypeOK
      BY <2>1, <2>3 DEF Next, Inv
    <3>2. \A b \in Bufs : WordAt(b) /\ GiverAt(b)
      BY <2>1, <3>1 DEF WordInv
    <3>3. WordAt(c)'
      BY <2>1, <2>3, <3>1, <3>2, WordNext
    <3>4. GiverAt(c)'
      BY <2>3, <3>1, <3>2, GiverNext
    <3> QED
      BY <3>3, <3>4
  <2> QED
    BY <2>1, <2>2, <2>3
<1>3. Inv /\ WordInv => BitsTellHolders
  BY WordTells
<1> QED
  BY <1>1, <1>2, <1>3, Invariance, PTL DEF Spec
-----------------------------------------------------------------------------
(* The buffer core implements the pool: the invariant makes the core's     *)
(* count equal to the claims, so the core frees an entry exactly when the  *)
(* pool does.                                                              *)

\* Only the claims on b may differ after the step.
OthersKeep(b) == \A c \in Bufs \ {b} : Claims(c)' = Claims(c)

\* A step that changes the claims on one buffer, as the pool sees it.
LEMMA OneClaim ==
    ASSUME NEW b \in Bufs, OthersKeep(b)
    PROVE  claimsNow' = [claimsNow EXCEPT ![b] = Claims(b)']
BY DEF claimsNow, OthersKeep

\* A step that changes no claim and no queue is no step of the pool.
LEMMA NoStep ==
    ASSUME \A c \in Bufs : Claims(c)' = Claims(c), UNCHANGED <<tbl, free_que, intruded>>
    PROVE  UNCHANGED Pool!vars
BY DEF Pool!vars, claimsNow

\* put_ref, fill and the recycle work: dropping a counted reference on behalf
\* of a user that gives up its claim is the pool's GiveUp.
LEMMA GivesUp ==
    ASSUME Inv, ~intruded, NEW b \in tbl, Claims(b) > 0,
           NEW u \in {"DEC", "GE2D", "VPP", "SINK", "DI"}, DropRef(b, u),
           Claims(b)' = Claims(b) - 1, OthersKeep(b), UNCHANGED <<tbl, intruded>>
    PROVE  Pool!GiveUp(b)
<1>1. TypeOK /\ FreeQueExact /\ b \in Bufs
  BY DEF Inv, TypeOK
<1>2. ref[b] = Claims(b) /\ bst[b] # "FREE"
  BY DEF Inv, RefExact, StateOK
<1>3. free_que' = IF Claims(b) = 1 THEN Append(free_que, b) ELSE free_que
  <2>1. CASE ref[b] = 1
    <3>1. buf_core_free_que(b)
      BY <1>1, <2>1, DropRefEffect
    <3>2. \A i \in DOMAIN free_que : free_que[i] # b
      BY <1>1, <1>2 DEF FreeQueExact, Range
    <3>3. list_add_valid(b)
      BY <1>1, <3>2 DEF list_add_valid, TypeOK
    <3> QED
      BY <1>2, <2>1, <3>1, <3>3 DEF buf_core_free_que
  <2>2. CASE ref[b] # 1
    BY <1>1, <1>2, <2>2, DropRefEffect
  <2> QED
    BY <2>1, <2>2
<1>4. claimsNow[b] = Claims(b) /\ claimsNow' = [claimsNow EXCEPT ![b] = Claims(b)']
  BY <1>1, OneClaim DEF claimsNow
<1> QED
  BY <1>3, <1>4 DEF Pool!GiveUp

\* get_ref, and a buffer that is lent to the DI manager.
LEMMA Shares ==
    ASSUME NEW b \in Bufs, b \in tbl, Claims(b) > 0, Claims(b)' = Claims(b) + 1, OthersKeep(b),
           UNCHANGED <<tbl, free_que, intruded>>
    PROVE  Pool!Share(b)
<1>1. claimsNow[b] = Claims(b) /\ claimsNow' = [claimsNow EXCEPT ![b] = Claims(b)']
  BY OneClaim DEF claimsNow
<1> QED
  BY <1>1 DEF Pool!Share

-----------------------------------------------------------------------------
(* The steps of the core *)

PoolStep == Pool!PoolNext \/ UNCHANGED Pool!vars

\* aml_buf_get takes the head of the queue, and nobody has a claim on it.
LEMMA GetTakes ==
    ASSUME Inv, ~intruded, NEW u \in Requesters(Ctx), buf_core_get(u)
    PROVE  PoolStep
<1>0. PICK b : b = free_que[1]
  OBVIOUS
<1>1. u \in {"DEC", "GE2D", "VPP"} /\ TypeOK
  BY CtxAssumption DEF Requesters, Contexts, Inv
<1>2. /\ free_que # <<>> /\ free_que' = Tail(free_que)
      /\ Move(b, "idle", u)
      /\ UNCHANGED <<tbl, decRef, di, work, intruded>>
  BY <1>0 DEF buf_core_get, ctlVars
<1>3. b \in tbl /\ b \in Bufs /\ bst[b] = "FREE"
  <2>1. b \in Range(free_que)
    BY <1>0, <1>1, <1>2, TailFacts DEF TypeOK
  <2> QED
    BY <1>1, <2>1 DEF Inv, FreeQueExact, TypeOK
<1>4. Claims(b) = 0 /\ where[b] # "none"
  BY <1>3 DEF Inv, StateOK, RefExact, TableOK
<1>5. where[b] = "idle" /\ decRef[b] \in Nat
  BY <1>1, <1>3, <1>4 DEF Claims, B2N, TypeOK
<1>6. where' = [where EXCEPT ![b] = u]
  BY <1>2, <1>5 DEF Move
<1>7. Claims(b)' = 1 /\ OthersKeep(b)
  BY <1>1, <1>2, <1>3, <1>4, <1>5, <1>6, SMTT(30) DEF Claims, B2N, OthersKeep, TypeOK
<1>8. claimsNow[b] = 0 /\ claimsNow' = [claimsNow EXCEPT ![b] = 1]
  BY <1>3, <1>4, <1>7, OneClaim DEF claimsNow
<1>9. Pool!Take
  BY <1>0, <1>2, <1>8 DEF Pool!Take
<1> QED
  BY <1>9 DEF PoolStep, Pool!PoolNext

\* aml_buf_get_ref shares the picture with the decoder's reference set.
LEMMA GetRefShares ==
    ASSUME Inv, ~intruded, NEW b \in Bufs, buf_core_get_ref(b)
    PROVE  PoolStep
<1>1. TypeOK /\ where[b] = "DEC" /\ b \in tbl /\ decRef[b] \in Nat
  BY DEF buf_core_get_ref, Inv, TableOK, TypeOK
<1>2. decRef' = [decRef EXCEPT ![b] = @ + 1] /\ UNCHANGED <<tbl, free_que, where, di, work, intruded>>
  BY DEF buf_core_get_ref, entryVars, ctlVars
<1>3. Claims(b) > 0 /\ Claims(b)' = Claims(b) + 1 /\ OthersKeep(b)
  BY <1>1, <1>2 DEF Claims, B2N, OthersKeep, TypeOK
<1> QED
  BY <1>1, <1>2, <1>3, Shares DEF PoolStep, Pool!PoolNext

\* aml_buf_put_ref of a picture the decoder no longer predicts from.
LEMMA PutRefGivesUp ==
    ASSUME Inv, ~intruded, NEW b \in Bufs, PutRef(b)
    PROVE  PoolStep
<1>1. TypeOK /\ decRef[b] > 0 /\ decRef[b] \in Nat /\ b \in tbl
  BY DEF PutRef, Inv, TableOK, TypeOK
<1>2. decRef' = [decRef EXCEPT ![b] = @ - 1] /\ UNCHANGED <<tbl, where, di, work, intruded>>
  BY DEF PutRef, entryVars, ctlVars
<1>3. Claims(b) > 0 /\ Claims(b)' = Claims(b) - 1 /\ OthersKeep(b)
  <2>1. Claims(b) > 0
    BY <1>1 DEF Claims, B2N
  <2>2. Claims(b)' = Claims(b) - 1
    <3>1. decRef'[b] = decRef[b] - 1
      BY <1>1, <1>2 DEF TypeOK
    <3> QED
      BY <1>1, <1>2, <3>1 DEF Claims, B2N
  <2>3. OthersKeep(b)
    BY <1>1, <1>2 DEF Claims, OthersKeep, TypeOK
  <2> QED
    BY <2>1, <2>2, <2>3
<1>4. DropRef(b, "DEC")
  <2>1. ref[b] = Claims(b)
    BY <1>1 DEF Inv, RefExact
  <2> QED
    BY <1>3, <2>1 DEF PutRef, buf_core_put_ref
<1>5. Pool!GiveUp(b)
  BY <1>1, <1>2, <1>3, <1>4, GivesUp
<1> QED
  BY <1>5 DEF PoolStep, Pool!PoolNext

\* aml_buf_put_ref of a picture that will not be shown.
LEMMA DropPicGivesUp ==
    ASSUME Inv, ~intruded, NEW b \in Bufs, DropPic(b)
    PROVE  PoolStep
<1>1. TypeOK /\ where[b] = "DEC" /\ decRef[b] \in Nat /\ b \in tbl
  BY DEF DropPic, Inv, TableOK, TypeOK
<1>2. where' = [where EXCEPT ![b] = "idle"] /\ UNCHANGED <<tbl, decRef, di, work, intruded>>
  BY DEF DropPic, entryVars, ctlVars
<1>3. Claims(b) > 0 /\ Claims(b)' = Claims(b) - 1 /\ OthersKeep(b)
  <2>1. Claims(b) > 0
    BY <1>1 DEF Claims, B2N
  <2>2. Claims(b)' = Claims(b) - 1
    <3>1. where'[b] = "idle"
      BY <1>1, <1>2 DEF TypeOK
    <3> QED
      BY <1>1, <1>2, <3>1 DEF Claims, B2N
  <2>3. OthersKeep(b)
    BY <1>1, <1>2 DEF Claims, OthersKeep, TypeOK
  <2> QED
    BY <2>1, <2>2, <2>3
<1>4. DropRef(b, "DEC")
  <2>1. ref[b] = Claims(b)
    BY <1>1 DEF Inv, RefExact
  <2> QED
    BY <1>3, <2>1 DEF DropPic, buf_core_put_ref
<1>5. Pool!GiveUp(b)
  BY <1>1, <1>2, <1>3, <1>4, GivesUp
<1> QED
  BY <1>5 DEF PoolStep, Pool!PoolNext

\* The recycle work gives up the DI manager's claim.
LEMMA RecycleGivesUp ==
    ASSUME Inv, ~intruded, NEW b \in Bufs, RecycleWork(b)
    PROVE  PoolStep
<1>1. TypeOK /\ b \in work /\ decRef[b] \in Nat /\ b \in tbl /\ DropRef(b, "DI")
  BY DEF RecycleWork, Inv, TableOK, TypeOK
<1>2. work' = work \ {b} /\ UNCHANGED <<tbl, where, decRef, di, intruded>>
  BY DEF RecycleWork, entryVars
<1>3. Claims(b) > 0 /\ Claims(b)' = Claims(b) - 1 /\ OthersKeep(b)
  <2>1. Claims(b) > 0
    BY <1>1 DEF Claims, B2N
  <2>2. Claims(b)' = Claims(b) - 1
    BY <1>1, <1>2 DEF Claims, B2N, TypeOK
  <2>3. OthersKeep(b)
    BY <1>1, <1>2 DEF Claims, OthersKeep, TypeOK
  <2> QED
    BY <2>1, <2>2, <2>3
<1>4. Pool!GiveUp(b)
  BY <1>1, <1>2, <1>3, GivesUp
<1> QED
  BY <1>4 DEF PoolStep, Pool!PoolNext

\* The application queues the buffer: it gives up its claim, or the claim
\* passes to the DI manager that kept the buffer over a reset.
LEMMA QueueGivesUp ==
    ASSUME Inv, ~intruded, NEW b \in Bufs, BufQueue(b)
    PROVE  PoolStep
<1>1. TypeOK /\ where[b] = "app" /\ decRef[b] \in Nat /\ b \in tbl /\ ~off
  BY DEF BufQueue, Inv, TableOK, TypeOK
<1>2. bc_sanity_check /\ bst[b] \in {"INIT", "DONE", "REF"}
  BY <1>1 DEF Inv, bc_sanity_check, TableOK, StateOK
<1>3. where' = [where EXCEPT ![b] = "idle"] /\ UNCHANGED <<tbl, decRef, work, intruded>>
  BY DEF BufQueue, entryVars, ctlVars
<1>4. where'[b] = "idle" /\ \A c \in Bufs \ {b} : where'[c] = where[c]
  BY <1>1, <1>3 DEF TypeOK
<1>5. CASE DiPost /\ di[b] # "no" /\ ~inited[b]
  <2>1. di' = [di EXCEPT ![b] = "ref"] /\ UNCHANGED free_que
    BY <1>2, <1>5 DEF BufQueue, buf_core_fill, coreVars
  <2>2. di[b] \notin {"ref", "kept"}
    BY <1>1, <1>5 DEF Inv, FreshOK
  <2>3. di'[b] = "ref" /\ \A c \in Bufs \ {b} : di'[c] = di[c]
    BY <1>1, <2>1 DEF TypeOK
  <2>4. ASSUME NEW c \in Bufs PROVE Claims(c)' = Claims(c)
    <3>1. CASE c = b
      BY <1>1, <1>3, <1>4, <2>2, <2>3, <3>1 DEF Claims, B2N
    <3>2. CASE c # b
      BY <1>3, <1>4, <2>3, <3>2 DEF Claims
    <3> QED
      BY <3>1, <3>2
  <2> QED
    BY <1>3, <2>1, <2>4, NoStep DEF PoolStep
<1>6. CASE ~(DiPost /\ di[b] # "no" /\ ~inited[b])
  <2>1. DropRef(b, "SINK") /\ UNCHANGED di
    BY <1>2, <1>6 DEF BufQueue, buf_core_fill
  <2>2. Claims(b) > 0 /\ Claims(b)' = Claims(b) - 1
    BY <1>1, <1>3, <1>4, <2>1 DEF Claims, B2N
  <2>3. OthersKeep(b)
    BY <1>3, <1>4, <2>1 DEF Claims, OthersKeep
  <2>4. Pool!GiveUp(b)
    BY <1>1, <1>3, <2>1, <2>2, <2>3, GivesUp
  <2> QED
    BY <2>4 DEF PoolStep, Pool!PoolNext
<1> QED
  BY <1>5, <1>6

\* A buffer that is handed on to the next user of its chain, and on the way
\* perhaps lent to the DI manager.
LEMMA HandOnShares ==
    ASSUME Inv, ~intruded, NEW b \in tbl, where[b] \in {"DEC", "VPP", "GE2D"}, HandedOn(b),
           UNCHANGED <<tbl, decRef, work, intruded>>
    PROVE  PoolStep
<1>1. TypeOK /\ b \in Bufs /\ decRef[b] \in Nat /\ di[b] = "no" /\ b \notin work
  BY DEF Inv, TypeOK, DiOK, PostProcs
<1>2. PICK next \in {"GE2D", "VPP", "SINK"}, toDi \in BOOLEAN :
        /\ di'  = [di EXCEPT ![b] = IF toDi THEN "ref" ELSE @]
        /\ where' = [where EXCEPT ![b] = IF next = "SINK" /\ off THEN "lost" ELSE next]
        /\ UNCHANGED free_que
  BY DEF HandedOn
<1>3. /\ di'[b] = IF toDi THEN "ref" ELSE "no"
      /\ where'[b] \in {"GE2D", "VPP", "SINK", "lost"}
      /\ \A c \in Bufs \ {b} : di'[c] = di[c] /\ where'[c] = where[c]
  BY <1>1, <1>2 DEF TypeOK
<1>4. OthersKeep(b)
  BY <1>3 DEF Claims, OthersKeep
<1>5. Claims(b) = 1 + decRef[b]
  BY <1>1 DEF Claims, B2N
<1>6. CASE toDi
  <2>1. Claims(b)' = Claims(b) + 1 /\ Claims(b) > 0
    BY <1>1, <1>3, <1>5, <1>6 DEF Claims, B2N
  <2> QED
    BY <1>1, <1>2, <1>4, <2>1, Shares DEF PoolStep, Pool!PoolNext
<1>7. CASE ~toDi
  <2>1. Claims(b)' = Claims(b)
    BY <1>1, <1>3, <1>5, <1>7 DEF Claims, B2N
  <2> QED
    BY <1>2, <1>4, <2>1, NoStep DEF PoolStep, OthersKeep
<1> QED
  BY <1>6, <1>7

\* The decoder outputs a picture.
LEMMA DecDoneShares ==
    ASSUME Inv, ~intruded, NEW b \in Bufs, DecDone(b)
    PROVE  PoolStep
<1>1. PICK dq \in BOOLEAN : buf_core_done(b, "DEC", dq)
  BY DEF DecDone
<1>2. where[b] = "DEC" /\ b \in tbl /\ TypeOK /\ ChainOK
  BY DEF DecDone, Inv, TableOK
<1>3. ~IsLast(b, "DEC")
  BY <1>2, SourceOK DEF Inv, UsersOnChain
<1>4. HandedOn(b)
  BY <1>1, <1>2, <1>3, DoneEffect
<1>5. UNCHANGED <<tbl, decRef, work, intruded>>
  BY DEF DecDone, entryVars, ctlVars
<1> QED
  BY <1>2, <1>4, <1>5, HandOnShares

\* A completion callback gives up the buffer it has or hands it on; the one
\* that slept through STREAMOFF does nothing or ends the promise.
LEMMA PPActSteps ==
    ASSUME Inv, ~intruded, NEW b \in Bufs, PPAct(b)
    PROVE  PoolStep
<1>1. TypeOK /\ passed[b] # NoCall /\ passed[b] \in Calls
  BY DEF PPAct, Inv, TypeOK
<1>2. passed[b].u \in {"VPP", "GE2D"} /\ UNCHANGED <<tbl, decRef, work>>
  BY <1>1 DEF Calls, PostProcs, PPAct, entryVars
<1>3. CASE intruded' = TRUE
  BY <1>3 DEF PoolStep, Pool!PoolNext, Pool!Intrude
<1>4. CASE intruded' # TRUE /\ passed[b].op = "fill"
  <2>1. intruded' = FALSE /\ where[b] = passed[b].u
    BY <1>4 DEF PPAct
  <2>2. b \in tbl /\ IsLast(b, where[b]) /\ decRef[b] \in Nat
    <3>1. b \in tbl /\ decRef[b] \in Nat
      BY <1>1, <1>2, <2>1 DEF Inv, TableOK, TypeOK
    <3>2. IsLast(b, where[b])
      BY <1>1, <1>2, <1>4, <2>1 DEF Inv, PassedOK, PassedAt, StopOK
    <3> QED
      BY <3>1, <3>2
  <2>3. bst[b] \in {"REF", "DONE"}
    <3>1. bst[b] # "USE"
      BY <1>2, <2>1, <2>2, SourceOK DEF Inv, UsersOnChain, PostProcs
    <3> QED
      BY <1>2, <2>1, <2>2, <3>1 DEF Inv, StateOK, PostProcs
  <2>4. DropRef(b, where[b]) /\ UNCHANGED di /\ where' = [where EXCEPT ![b] = "idle"]
    BY <1>2, <1>4, <2>1, <2>2, <2>3 DEF Inv, PPAct, buf_core_fill, Move, bc_sanity_check, TableOK
  <2>5. where'[b] = "idle" /\ \A c \in Bufs \ {b} : where'[c] = where[c]
    BY <1>1, <2>4 DEF TypeOK
  <2>6. Claims(b) > 0 /\ Claims(b)' = Claims(b) - 1
    BY <1>2, <2>1, <2>2, <2>4, <2>5 DEF Claims, B2N
  <2>7. OthersKeep(b)
    BY <1>2, <2>4, <2>5 DEF Claims, OthersKeep
  <2>8. UNCHANGED <<tbl, intruded>>
    BY <1>1, <1>2, <2>1 DEF TypeOK
  <2>9. Pool!GiveUp(b)
    BY <1>2, <2>1, <2>2, <2>4, <2>6, <2>7, <2>8, GivesUp
  <2> QED
    BY <2>9 DEF PoolStep, Pool!PoolNext
<1>5. CASE intruded' # TRUE /\ passed[b].op # "fill"
  <2>1. intruded' = FALSE /\ UNCHANGED intruded
    BY <1>1, <1>5 DEF PPAct, TypeOK
  <2>2. PICK dq \in BOOLEAN : buf_core_done(b, passed[b].u, dq)
    BY <1>5 DEF PPAct
  <2>3. CASE where[b] = passed[b].u
    <3>1. b \in tbl /\ ~IsLast(b, where[b])
      BY <1>1, <1>2, <1>5, <2>3 DEF Inv, TableOK, PassedOK, PassedAt, StopOK
    <3>2. HandedOn(b)
      BY <1>2, <2>2, <2>3, <3>1, DoneEffect
    <3> QED
      BY <1>2, <2>1, <2>3, <3>1, <3>2, HandOnShares
  <2>4. CASE where[b] # passed[b].u
    <3>1. off /\ stop = "run"
      BY <1>1, <2>4 DEF Inv, PassedOK, PassedAt
    <3>2. bst[b] \in {"INIT", "ERR"}
      BY <1>1, <3>1 DEF Inv, TableOK, StopOK, FreshOK
    <3>3. UNCHANGED <<free_que, where, di>>
      BY <2>2, <3>2 DEF buf_core_done, coreVars
    <3>4. \A c \in Bufs : Claims(c)' = Claims(c)
      BY <1>2, <3>3 DEF Claims
    <3> QED
      BY <1>2, <2>1, <3>3, <3>4, NoStep DEF PoolStep
  <2> QED
    BY <2>3, <2>4
<1> QED
  BY <1>3, <1>4, <1>5

\* The DI manager's report turns its claim into pending work.
LEMMA DiReleaseKeeps ==
    ASSUME Inv, ~intruded, NEW b \in Bufs, DiRelease(b)
    PROVE  PoolStep
<1>1. TypeOK /\ di[b] = "ref" /\ decRef[b] \in Nat
  BY DEF DiRelease, Inv, TypeOK
<1>2. b \in tbl /\ wq_on /\ b \notin work
  BY <1>1 DEF Inv, TableOK, DiOK, StopOK
<1>3. /\ di' = [di EXCEPT ![b] = "no"] /\ work' = work \cup {b}
      /\ UNCHANGED <<tbl, free_que, where, decRef, intruded>>
  BY <1>2 DEF DiRelease, coreVars, entryVars
<1>4. di'[b] = "no" /\ \A c \in Bufs \ {b} : di'[c] = di[c]
  BY <1>1, <1>3 DEF TypeOK
<1>5. ASSUME NEW c \in Bufs PROVE Claims(c)' = Claims(c)
  <2>1. CASE c = b
    BY <1>1, <1>2, <1>3, <1>4, <2>1 DEF Claims, B2N
  <2>2. CASE c # b
    BY <1>3, <1>4, <2>2 DEF Claims
  <2> QED
    BY <2>1, <2>2
<1> QED
  BY <1>3, <1>5, NoStep DEF PoolStep

\* Posting a picture, letting a vb2 buffer go or taking it back, the stream
\* controls and the callbacks' tests change who has a buffer or nothing at all.
LEMMA QuietSteps ==
    ASSUME Inv, ~intruded,
           \/ StreamOn \/ StopBegin \/ VdecReset \/ VppReset \/ FlushWork
           \/ \E b \in Bufs : Post(b) \/ Cleanup(b) \/ AttachReuse(b) \/ PPCheck(b)
    PROVE  PoolStep
<1>1. TypeOK
  BY DEF Inv
<1>2. UNCHANGED <<tbl, free_que, decRef, work, intruded>>
  BY DEF StreamOn, StopBegin, VdecReset, VppReset, FlushWork, Post, Cleanup, AttachReuse, PPCheck,
     coreVars, entryVars, userVars, ctlVars
<1>3. ASSUME NEW c \in Bufs
      PROVE  /\ where'[c] \in {"none", "idle"} <=> where[c] \in {"none", "idle"}
             /\ di'[c] \in {"ref", "kept"} <=> di[c] \in {"ref", "kept"}
  <2>1. CASE VppReset
    BY <1>1, <2>1 DEF VppReset, TypeOK
  <2>2. CASE StreamOn \/ StopBegin \/ VdecReset \/ FlushWork
    BY <2>2 DEF StreamOn, StopBegin, VdecReset, FlushWork, userVars
  <2>3. ASSUME NEW b \in Bufs, Post(b) \/ Cleanup(b) \/ AttachReuse(b) \/ PPCheck(b)
        PROVE  /\ where'[c] \in {"none", "idle"} <=> where[c] \in {"none", "idle"}
               /\ di'[c] = di[c]
    BY <1>1, <2>3 DEF Post, Cleanup, AttachReuse, PPCheck, TypeOK
  <2> QED
    BY <2>1, <2>2, <2>3
<1>4. \A c \in Bufs : Claims(c)' = Claims(c)
  BY <1>2, <1>3 DEF Claims, B2N
<1> QED
  BY <1>2, <1>4, NoStep DEF PoolStep

\* buf_core_reset leaves every entry with the application's claim only.
LEMMA ResetRecalls ==
    ASSUME Inv, ~intruded, buf_core_reset
    PROVE  PoolStep
<1>1. TypeOK /\ stop = "flushed" /\ work = {}
  BY DEF buf_core_reset, StopStep, Inv, StopOK
<1>2. /\ free_que' = <<>> /\ UNCHANGED <<tbl, work, intruded>>
      /\ where' = [b \in Bufs |-> IF where[b] \in {"none", "parked"} THEN where[b] ELSE "app"]
      /\ decRef' = [b \in Bufs |-> 0]
      /\ di' = [b \in Bufs |-> IF di[b] = "kept" THEN "stale" ELSE di[b]]
  BY DEF buf_core_reset, StoppedUsers, entryVars
<1>3. ASSUME NEW c \in Bufs PROVE Claims(c)' = IF c \in tbl THEN 1 ELSE 0
  <2>1. decRef'[c] = 0 /\ c \notin work' /\ di'[c] \notin {"ref", "kept"}
    BY <1>1, <1>2 DEF Inv, DiOK
  <2>2. (where'[c] \notin {"none", "idle"}) <=> c \in tbl
    BY <1>2 DEF Inv, TableOK
  <2> QED
    BY <2>1, <2>2 DEF Claims, B2N
<1>4. claimsNow' = [b \in Bufs |-> IF b \in tbl THEN 1 ELSE 0]
  BY <1>3 DEF claimsNow
<1>5. Pool!Recall
  BY <1>2, <1>4 DEF Pool!Recall
<1> QED
  BY <1>5 DEF PoolStep, Pool!PoolNext

\* buf_core_attach of a new key.
LEMMA AttachAdds ==
    ASSUME Inv, ~intruded, NEW b \in Bufs, AttachNew(b)
    PROVE  PoolStep
<1>1. TypeOK /\ b \notin tbl /\ decRef[b] = 0 /\ di[b] \notin {"ref", "kept"} /\ b \notin work
  BY DEF AttachNew, Inv, TableOK
<1>2. /\ tbl' = tbl \cup {b} /\ where' = [where EXCEPT ![b] = "app"]
      /\ UNCHANGED <<free_que, decRef, di, work, intruded>>
  BY DEF AttachNew, ctlVars
<1>3. where'[b] = "app" /\ \A c \in Bufs \ {b} : where'[c] = where[c]
  BY <1>1, <1>2 DEF TypeOK
<1>4. Claims(b)' = 1 /\ OthersKeep(b)
  BY <1>1, <1>2, <1>3 DEF Claims, B2N, OthersKeep
<1>5. claimsNow' = [claimsNow EXCEPT ![b] = 1]
  BY <1>4, OneClaim
<1>6. Pool!Add(b)
  BY <1>1, <1>2, <1>5 DEF Pool!Add
<1> QED
  BY <1>6 DEF PoolStep, Pool!PoolNext

\* buf_core_detach, with the manager's destruction if it is the last.
LEMMA DetachRemoves ==
    ASSUME Inv, ~intruded, NEW b \in Bufs, buf_core_detach(b)
    PROVE  PoolStep
<1>1. /\ TypeOK /\ b \in tbl /\ free_que = <<>> /\ b \notin work /\ decRef[b] = 0
      /\ where[b] \in {"parked", "app"} /\ di[b] \notin {"ref", "kept"}
  BY DEF buf_core_detach, Inv, StopOK, TableOK
<1>2. /\ tbl' = tbl \ {b} /\ where' = [where EXCEPT ![b] = "none"] /\ free_que' = free_que
      /\ UNCHANGED <<decRef, di, work, intruded>>
  BY <1>1 DEF buf_core_detach, PutCore, ctlVars
<1>3. where'[b] = "none" /\ \A c \in Bufs \ {b} : where'[c] = where[c]
  BY <1>1, <1>2 DEF TypeOK
<1>4. Claims(b) = 1 /\ Claims(b)' = 0 /\ OthersKeep(b)
  BY <1>1, <1>2, <1>3 DEF Claims, B2N, OthersKeep
<1>5. claimsNow[b] = 1 /\ claimsNow' = [claimsNow EXCEPT ![b] = 0]
  BY <1>4, OneClaim DEF claimsNow
<1>6. DOMAIN free_que = {}
  BY <1>1
<1>7. Pool!Remove(b)
  BY <1>1, <1>2, <1>5, <1>6 DEF Pool!Remove
<1> QED
  BY <1>7 DEF PoolStep, Pool!PoolNext

\* buf_core_mgr_release finds an empty queue.
LEMMA MgrReleaseKeeps ==
    ASSUME Inv, ~intruded, MgrRelease
    PROVE  PoolStep
<1>1. free_que = <<>>
  BY DEF MgrRelease, Inv, StopOK
<1>2. free_que' = free_que /\ UNCHANGED <<tbl, where, decRef, di, work, intruded>>
  BY <1>1 DEF MgrRelease, PutCore, userVars
<1>3. \A c \in Bufs : Claims(c)' = Claims(c)
  BY <1>2 DEF Claims
<1> QED
  BY <1>2, <1>3, NoStep DEF PoolStep

-----------------------------------------------------------------------------
(* The theorem *)

\* The core starts as an empty pool.
LEMMA InitIsPool == Init => Pool!PoolInit
<1>1. SUFFICES ASSUME Init PROVE Pool!PoolInit
  OBVIOUS
<1>2. \A b \in Bufs : Claims(b) = 0
  BY <1>1 DEF Init, Claims, B2N
<1> QED
  BY <1>1, <1>2 DEF Init, Pool!PoolInit, claimsNow

\* Every step of the core is a step of the pool, or none.
LEMMA NextIsPool == Inv /\ [Next]_vars => [Pool!PoolNext]_Pool!vars
<1>1. SUFFICES ASSUME Inv, [Next]_vars PROVE PoolStep
  BY DEF PoolStep
<1>2. CASE UNCHANGED vars
  <2>1. UNCHANGED <<tbl, free_que, where, decRef, di, work, intruded>>
    BY <1>2 DEF vars, coreVars, entryVars, userVars, ctlVars
  <2>2. \A c \in Bufs : Claims(c)' = Claims(c)
    BY <2>1 DEF Claims
  <2> QED
    BY <2>1, <2>2, NoStep DEF PoolStep
<1>3. CASE Next
  <2>1. ~intruded
    BY <1>3 DEF Next
  <2>2. CASE DecGet \/ PPGet
    <3>1. "DEC" \in Requesters(Ctx)
      BY CtxAssumption DEF Requesters, Contexts
    <3> QED
      BY <1>1, <2>1, <2>2, <3>1, GetTakes DEF DecGet, PPGet
  <2>3. ASSUME NEW b \in Bufs,
               \/ buf_core_get_ref(b) \/ PutRef(b) \/ DropPic(b) \/ DecDone(b) \/ BufQueue(b)
               \/ PPAct(b) \/ DiRelease(b) \/ RecycleWork(b) \/ AttachNew(b) \/ buf_core_detach(b)
        PROVE  PoolStep
    BY <1>1, <2>1, <2>3, GetRefShares, PutRefGivesUp, DropPicGivesUp, DecDoneShares, QueueGivesUp,
       PPActSteps, DiReleaseKeeps, RecycleGivesUp, AttachAdds, DetachRemoves
  <2>4. ASSUME \/ StreamOn \/ StopBegin \/ VdecReset \/ VppReset \/ FlushWork
               \/ \E b \in Bufs : Post(b) \/ Cleanup(b) \/ AttachReuse(b) \/ PPCheck(b)
        PROVE  PoolStep
    BY <1>1, <2>1, <2>4, QuietSteps
  <2>5. CASE buf_core_reset \/ MgrRelease
    BY <1>1, <2>1, <2>5, ResetRecalls, MgrReleaseKeeps
  <2> QED
    BY <1>3, <2>2, <2>3, <2>4, <2>5 DEF Next
<1> QED
  BY <1>1, <1>2, <1>3

\* The buffer core keeps what the pool promises: a buffer is lent only when
\* nobody has it, in the order of the queue, and is queued in the step in which
\* its last user lets go, up to the first callback that acts on a buffer
\* STREAMOFF has taken from it.
THEOREM CoreImplementsPool == Spec => ImplementsPool
<1>1. Init => Pool!PoolInit
  BY InitIsPool
<1>2. Inv /\ [Next]_vars => [Pool!PoolNext]_Pool!vars
  BY NextIsPool
<1> QED
  BY <1>1, <1>2, Invariance, PTL DEF Spec, ImplementsPool, Pool!PoolSpec
=============================================================================
