----------------------------- MODULE PtsServer ------------------------------
(***************************************************************************)
(* The table of time stamp servers (vPtsServerInsList) and its users: the  *)
(* V4L2 decoder in stream mode (amvdec_ports/aml_vcodec_ts.c), players and *)
(* the audio side through /dev/ptsserver (pts_server_dev.c), and the       *)
(* transport stream demultiplexer (stream_input/parser/tsdemux.c).         *)
(*                                                                         *)
(* A dynamic instance is named by its slot.  A static one has the id its   *)
(* users agreed on: every call looks the id up, lets the slot's lock go    *)
(* and takes it again, and the slot may have changed hands in between.     *)
(***************************************************************************)
EXTENDS PtsList

CONSTANTS
    Clients,
    Setups,         \* functions from Clients to KindRecords
    DynamicNum,     \* MAX_DYNAMIC_INSTANCE_NUM
    InstanceNum,    \* MAX_INSTANCE_NUM
    Frames,         \* frames of a regular stream: [size, step] pairs, step in time
    Pieces,         \* sizes of the pieces without a time stamp
    Starts,         \* [base, align] of the start of a stream
    WildIn, WildOut,\* what an irregular user checks in, [size, pts, isOffset], and out
    Serial          \* is nothing freed or bound while a binder is between its two locks?

(* v4l: regular stream through V4L2; player: anything through the device;  *)
(* audio: bound by id, checks out; demux: bound by id, checks in.  ioctl:  *)
(* does a player call PTSSERVER_IOC_RELEASE before it closes?  opens, ins, *)
(* outs: bounds on how often it opens, its check-ins and its check-outs    *)
KindRecords == [kind : {"none", "v4l", "player", "audio", "demux"}, id : Int, ioctl : BOOLEAN,
                opens : Nat, ins : Nat, outs : Nat]

Dynamic == 0..(DynamicNum - 2)
Static == DynamicNum..(InstanceNum - 1)
Slots == 0..(InstanceNum - 1)

ASSUME ServerAssumption ==
    /\ IsFiniteSet(Clients) /\ Setups \subseteq [Clients -> KindRecords]
    /\ DynamicNum \in Nat \ {0} /\ InstanceNum \in Nat /\ DynamicNum <= InstanceNum
    /\ Serial \in BOOLEAN
ASSUME StreamAssumption ==
    /\ Frames \subseteq [size : Nat, step : Nat] /\ Pieces \subseteq Nat
    /\ Starts \subseteq [base : Offsets, align : Nat]
    /\ WildIn \subseteq [size : Offsets, pts : 0..MinusOne, isOffset : BOOLEAN]
    /\ WildOut \subseteq Offsets

(* What the proofs ask of the users, whose slots the code does not guard:  *)
(* they need no more slots than there are, no id they agreed on is a slot  *)
(* of the dynamic instances, and who releases by ioctl is alone, for its   *)
(* file names the slot as long as it is open.                              *)
Room ==
    \A f \in Setups :
        LET dyn == {c \in Clients : f[c].kind \in {"v4l", "player"}}
            byId == {c \in Clients : f[c].kind \in {"audio", "demux"}}
        IN  /\ Cardinality(dyn) < DynamicNum
            /\ Cardinality({f[c].id : c \in byId}) <= InstanceNum - DynamicNum
            /\ \A c \in byId : f[c].id \notin Dynamic
            /\ \A c, d \in dyn : f[c].kind = "player" /\ f[c].ioctl => c = d

VARIABLES
    setup,
    tab,            \* vPtsServerInsList
    cl              \* the users

vars == <<setup, tab, cl>>

\* A slot without an instance
Null == <<>>

Kind(c) == setup[c].kind
ById(c) == Kind(c) \in {"audio", "demux"}

\* st: closed, open; id: mPtsServerInsId; op: the call between its two locks, at: the
\* slot it found; holds: the slot whose reference it took; frames, out, disturbed:
\* the regular stream written so far, [at, pts], how many are checked out, and
\* whether one of them had to be guessed; pos: where the stream goes on
Closed(n) == [st |-> "closed", opens |-> n, id |-> -1, op |-> "none", at |-> -1, holds |-> -1,
              ins |-> 0, outs |-> 0, frames |-> <<>>, pos |-> -1, out |-> 0, disturbed |-> FALSE]

Init ==
    /\ setup \in Setups
    /\ tab = [s \in Slots |-> Null]
    /\ cl = [c \in Clients |-> Closed(0)]

\* get_index_from_ptsserver_id
IndexOf(id) ==
    LET S == {s \in Slots : tab[s] # Null /\ tab[s].id = id}
    IN  IF S = {} THEN -1 ELSE CHOOSE s \in S : \A t \in S : s <= t

FreeIn(S) ==
    LET F == {s \in S : tab[s] = Null}
    IN  IF F = {} THEN -1 ELSE CHOOSE s \in F : \A t \in F : s <= t

MayOpen(c) == cl[c].st = "closed" /\ cl[c].op = "none" /\ cl[c].opens < setup[c].opens
Idle(c) == cl[c].st = "open" /\ cl[c].op = "none"
Binding == \E c \in Clients : cl[c].op = "bind"
\* The instance c's id names; a dynamic id is a slot
Mine(c) == IF cl[c].id \in Slots THEN tab[cl[c].id] ELSE Null

-----------------------------------------------------------------------------
(* Opening. *)

\* ptsserver_ins_alloc.  When every slot is taken the call succeeds all the same: the
\* instance is in no slot, and the id stays -1 for a player and 0 for a V4L2 context.
Alloc(c) ==
    LET s == FreeIn(Dynamic)
        id == IF s # -1 THEN s ELSE IF Kind(c) = "v4l" THEN 0 ELSE -1
    IN
    /\ Kind(c) \in {"v4l", "player"} /\ MayOpen(c)
    /\ \E n \in {0, MaxCount} : tab' = IF s = -1 THEN tab ELSE [tab EXCEPT ![s] = NewIns(s, n)]
    /\ cl' = [cl EXCEPT ![c] = [Closed(@.opens + 1) EXCEPT !.st = "open", !.id = id, !.holds = s]]
    /\ UNCHANGED setup

\* ptsserver_static_ins_binder: the look-up
BindLook(c) ==
    /\ ById(c) /\ MayOpen(c)
    /\ Serial => ~Binding
    /\ cl' = [cl EXCEPT ![c] = [Closed(@.opens) EXCEPT
                !.id = setup[c].id, !.op = "bind", !.at = IndexOf(setup[c].id)]]
    /\ UNCHANGED <<setup, tab>>

\* Fault: the binder makes an instance of its own whatever it found
BindTake_Always(c) ==
    LET s == FreeIn(Static) IN
    /\ cl[c].op = "bind"
    /\ tab' = IF s = -1 THEN tab ELSE [tab EXCEPT ![s] = NewIns(cl[c].id, MaxCount)]
    /\ cl' = [cl EXCEPT ![c] = [cl[c] EXCEPT !.st = "open", !.opens = @ + 1, !.op = "none",
                                             !.at = -1, !.holds = s]]
    /\ UNCHANGED setup

\* ... and the slot: one more reference, or a new instance.  The slot found may be
\* empty by now; without a free slot the call succeeds all the same.
BindTake(c) ==
    LET at == cl[c].at
        s == IF at # -1 THEN at ELSE FreeIn(Static)
        lost == at # -1 /\ tab[at] = Null
    IN
    /\ cl[c].op = "bind"
    /\ tab' = IF s = -1 \/ lost THEN tab
              ELSE [tab EXCEPT ![s] = IF at # -1 THEN [tab[s] EXCEPT !.ref = @ + 1]
                                      ELSE NewIns(cl[c].id, MaxCount)]
    /\ cl' = [cl EXCEPT ![c] = IF lost THEN Closed(@.opens + 1)
                               ELSE [cl[c] EXCEPT !.st = "open", !.opens = @ + 1, !.op = "none",
                                              !.at = -1, !.holds = s]]
    /\ UNCHANGED setup

-----------------------------------------------------------------------------
(* Closing: ptsserver_ins_release.  While others hold the instance its lists *)
(* are reset, after a look-up of its own.                                    *)

ReleaseLook(c) ==
    /\ Idle(c)
    /\ Serial => ~Binding
    /\ cl' = [cl EXCEPT ![c] = [@ EXCEPT !.op = "release", !.at = IndexOf(cl[c].id)]]
    /\ UNCHANGED <<setup, tab>>

\* Fault: the instance goes with the first of its users
ReleaseDrop_First(c) ==
    LET at == cl[c].at IN
    /\ cl[c].op \in {"release", "ioctl"}
    /\ tab' = IF at = -1 THEN tab ELSE [tab EXCEPT ![at] = Null]
    /\ cl' = [cl EXCEPT ![c] = Closed(@.opens)]
    /\ UNCHANGED setup

ReleaseDrop(c) ==
    LET at == cl[c].at
        gone == at = -1 \/ tab[at] = Null
        last == ~gone /\ tab[at].ref = 1
    IN
    /\ cl[c].op \in {"release", "ioctl"}
    /\ Serial => ~Binding
    /\ tab' = IF gone THEN tab
              ELSE [tab EXCEPT ![at] = IF last THEN Null ELSE [tab[at] EXCEPT !.ref = @ - 1]]
    /\ cl' = [cl EXCEPT ![c] =
                IF ~gone /\ ~last THEN [cl[c] EXCEPT !.op = "resetting", !.at = -1, !.holds = -1,
                                                 !.st = IF cl[c].op = "ioctl" THEN @ ELSE "closed"]
                ELSE IF cl[c].op = "ioctl" THEN [@ EXCEPT !.op = "none", !.at = -1, !.holds = -1]
                ELSE Closed(@.opens)]
    /\ UNCHANGED setup

\* PTSSERVER_IOC_RELEASE: neither the id nor pServerIns of the file is cleared
Ioctl(c) ==
    /\ Kind(c) = "player" /\ setup[c].ioctl /\ Idle(c) /\ cl[c].holds # -1
    /\ cl' = [cl EXCEPT ![c] = [@ EXCEPT !.op = "ioctl", !.at = IndexOf(cl[c].id)]]
    /\ UNCHANGED <<setup, tab>>

\* ptsserver_ins_reset, called by a release or by the demultiplexer (tsdemux_reset)
ResetLook(c) ==
    /\ \/ cl[c].op = "resetting" /\ cl[c].at = -1
       \/ Kind(c) = "demux" /\ Idle(c)
    /\ cl' = [cl EXCEPT ![c] = [@ EXCEPT !.op = "reset", !.at = IndexOf(cl[c].id)]]
    /\ UNCHANGED <<setup, tab>>

ResetDo(c) ==
    LET at == cl[c].at IN
    /\ cl[c].op = "reset"
    /\ tab' = IF at = -1 \/ tab[at] = Null THEN tab ELSE [tab EXCEPT ![at] = Reset(@)]
    /\ cl' = [cl EXCEPT ![c] = IF @.st = "closed" THEN Closed(@.opens)
                               ELSE [@ EXCEPT !.op = "none", !.at = -1]]
    /\ UNCHANGED setup

-----------------------------------------------------------------------------
(* Dynamic instances: each call is one section under the lock of its slot. *)

Update(c, ins, user) ==
    /\ tab' = [tab EXCEPT ![cl[c].id] = ins]
    /\ cl' = [cl EXCEPT ![c] = user]
    /\ UNCHANGED setup

CanIn(c) == Idle(c) /\ Mine(c) # Null /\ cl[c].ins < setup[c].ins
CanOut(c) == Idle(c) /\ Mine(c) # Null /\ cl[c].outs < setup[c].outs

\* ptsserver_set_first_checkin_offset, before the first packet
SetFirst(c) ==
    /\ Kind(c) \in {"v4l", "player"} /\ Idle(c) /\ Mine(c) # Null /\ cl[c].pos = -1
    /\ \E s \in Starts :
          Update(c, [Mine(c) EXCEPT !.pieceOffset = s.base, !.align = s.align],
                    [cl[c] EXCEPT !.pos = s.base])

\* aml_vcodec_pts_checkin of a packet of n bytes; a frame follows the previous one in
\* time, and the first one may be at 0
Write(c, n, pts) ==
    LET i == CheckinPts(Mine(c), n, pts, FALSE)
        here == IF pts = 0 THEN <<>> ELSE <<[at |-> cl[c].pos, pts |-> pts]>>
    IN  Update(c, i, [cl[c] EXCEPT !.ins = @ + 1, !.frames = @ \o here,
                                   !.pos = (@ + n + Mine(c).align - i.align) % W])

WriteFrame(c) ==
    /\ Kind(c) = "v4l" /\ CanIn(c) /\ cl[c].pos # -1
    /\ \E f \in Frames :
          LET pts == IF cl[c].frames = <<>> THEN f.step ELSE Last(cl[c].frames).pts + f.step
          IN  pts < P /\ Write(c, f.size, pts)

WritePiece(c) ==
    /\ Kind(c) = "v4l" /\ CanIn(c) /\ cl[c].pos # -1
    /\ \E n \in Pieces : Write(c, n, 0)

\* aml_vcodec_pts_checkout: the next frame in order, by an offset in its first bytes
OutFrame(c) ==
    /\ Kind(c) = "v4l" /\ CanOut(c) /\ cl[c].out < Len(cl[c].frames)
    /\ LET f == cl[c].frames[cl[c].out + 1] IN
       \E k \in 1..Threshold, dur \in {0, Near + 1} :
          LET r == CheckoutPts(Mine(c), (f.at + k) % W, dur) IN
          Update(c, r.ins, [cl[c] EXCEPT !.outs = @ + 1, !.out = @ + 1,
                                         !.disturbed = @ \/ r.node = None \/ r.pts # f.pts])

\* aml_vcodec_pts_offset
PeekFrame(c) ==
    /\ Kind(c) = "v4l" /\ CanOut(c) /\ cl[c].out < Len(cl[c].frames)
    /\ Update(c, Peek(Mine(c), (cl[c].frames[cl[c].out + 1].at + 1) % W).ins,
              [cl[c] EXCEPT !.outs = @ + 1])

\* PTSSERVER_IOC_CHECKIN_PTS, and with isOffset pts_checkin_vpts_size
CheckIn(c) ==
    /\ Kind(c) = "player" /\ CanIn(c)
    /\ \E w \in WildIn :
          Update(c, CheckinPts(Mine(c), w.size, w.pts, w.isOffset), [cl[c] EXCEPT !.ins = @ + 1])

\* PTSSERVER_IOC_CHECKOUT_PTS
CheckOut(c) ==
    /\ Kind(c) = "player" /\ CanOut(c)
    /\ \E cur \in WildOut, dur \in {0, Near + 1} :
          Update(c, CheckoutPts(Mine(c), cur, dur).ins, [cl[c] EXCEPT !.outs = @ + 1])

\* PTSSERVER_IOC_PEEK_PTS
PeekPts(c) ==
    /\ Kind(c) = "player" /\ CanOut(c)
    /\ \E cur \in WildOut :
          Update(c, Peek(Mine(c), cur).ins, [cl[c] EXCEPT !.outs = @ + 1])

\* ptsserver_set_mode
SetMode(c) ==
    /\ Kind(c) \in {"v4l", "player"} /\ Idle(c) /\ Mine(c) # Null
    /\ \E on \in BOOLEAN :
          Update(c, [Mine(c) EXCEPT !.c2 = on, !.offsetMode = @ \/ on], cl[c])

\* ptsserver_set_trick_mode
SetTrick(c) ==
    /\ Kind(c) = "player" /\ Idle(c) /\ Mine(c) # Null
    /\ \E mode \in 0..2 :
          Update(c, [Mine(c) EXCEPT !.trick = mode = 1, !.offsetMode = mode # 0], cl[c])

-----------------------------------------------------------------------------
(* Static instances: the demultiplexer checks in, the audio side checks out. *)

CallLook(c) ==
    /\ ById(c) /\ Idle(c)
    /\ IF Kind(c) = "demux" THEN cl[c].ins < setup[c].ins ELSE cl[c].outs < setup[c].outs
    /\ cl' = [cl EXCEPT ![c] = [@ EXCEPT !.op = "call", !.at = IndexOf(cl[c].id)]]
    /\ UNCHANGED <<setup, tab>>

\* what the call does to instance i: ptsserver_checkin_apts_size,
\* ptsserver_checkout_apts_offset, ptsserver_set_audio_offset_margin
Calls(c, i) ==
    IF Kind(c) = "demux"
    THEN {CheckinApts(i, (cl[c].ins * f.size) % W, (f.step * (cl[c].ins + 1)) % P) : f \in Frames}
    ELSE {CheckoutApts(i, cur).ins : cur \in WildOut} \cup {[i EXCEPT !.margin = Threshold + 1]}

CallDo(c) ==
    LET at == cl[c].at IN
    /\ cl[c].op = "call"
    /\ IF at = -1 \/ tab[at] = Null THEN tab' = tab
       ELSE \E i \in Calls(c, tab[at]) : tab' = [tab EXCEPT ![at] = i]
    /\ cl' = [cl EXCEPT ![c] = [cl[c] EXCEPT !.op = "none", !.at = -1,
                  !.ins = IF Kind(c) = "demux" THEN @ + 1 ELSE @,
                  !.outs = IF Kind(c) = "audio" THEN @ + 1 ELSE @]]
    /\ UNCHANGED setup

-----------------------------------------------------------------------------
Next ==
    \E c \in Clients :
        \/ Alloc(c) \/ BindLook(c) \/ BindTake(c)
        \/ ReleaseLook(c) \/ ReleaseDrop(c) \/ Ioctl(c) \/ ResetLook(c) \/ ResetDo(c)
        \/ SetFirst(c) \/ WriteFrame(c) \/ WritePiece(c) \/ OutFrame(c) \/ PeekFrame(c)
        \/ CheckIn(c) \/ CheckOut(c) \/ PeekPts(c) \/ SetMode(c) \/ SetTrick(c)
        \/ CallLook(c) \/ CallDo(c)

Spec == Init /\ [][Next]_vars

-----------------------------------------------------------------------------
(* Properties. *)

Live == {s \in Slots : tab[s] # Null}

(* Types; a node is in pts_list or in pts_free_list of its instance and    *)
(* mListSize counts the first (every list_del of pts_server_core.c).       *)
TypeOK ==
    /\ \A c \in Clients :
          /\ cl[c].st \in {"closed", "open"} /\ cl[c].id \in Int /\ cl[c].at \in Slots \cup {-1}
          /\ cl[c].op \in {"none", "bind", "release", "ioctl", "resetting", "reset", "call"}
    /\ \A s \in Live :
          LET i == tab[s] IN
          /\ i.size = Len(i.list) /\ i.free + i.size = i.nodes
          /\ \A n \in ToSet(i.list) : n.offset \in Offsets /\ n.pts \in 0..MinusOne
          /\ i.pieceOffset \in Offsets /\ i.curOffset \in Offsets /\ i.outPts \in 0..MinusOne

(* An instance lives as long as it has users: its count is the number of   *)
(* users that took a reference and have not given it back                  *)
(* (ptsserver_ins_alloc, ptsserver_static_ins_binder, ptsserver_ins_release). *)
RefsExact ==
    \A s \in Slots :
        LET users == {c \in Clients : cl[c].holds = s}
        IN  IF tab[s] = Null THEN users = {} ELSE tab[s].ref = Cardinality(users) /\ users # {}

(* The users of one id share one instance: what the demultiplexer checks   *)
(* in, the audio side can check out (ptsserver_static_ins_binder).  A call *)
(* that looked its id up and let the lock go finds, when it takes the lock *)
(* again, that instance in the slot (get_index_from_ptsserver_id and its   *)
(* callers).                                                               *)
OneInstance ==
    /\ \A s, t \in Live : tab[s].id = tab[t].id => s = t
    /\ \A c \in Clients :
          cl[c].op \in {"call", "release"} /\ cl[c].at # -1 /\ cl[c].holds # -1 =>
              tab[cl[c].at] # Null /\ tab[cl[c].at].id = cl[c].id

(* A node carries the stream position of its frame, across pieces without  *)
(* a time stamp, the base and the alignment of the start and the wrap of   *)
(* the offsets (ptsserver_checkin_pts_size).                               *)
PositionsExact ==
    \A c \in Clients :
        Kind(c) = "v4l" /\ cl[c].st = "open" /\ Mine(c) # Null =>
            \A n \in ToSet(Mine(c).list) : [at |-> n.offset, pts |-> n.pts] \in ToSet(cl[c].frames)

(* A full list does not refuse a frame: whatever is checked in next gets a *)
(* node, at the cost of others (the start of ptsserver_checkin_pts_size).  *)
NewestKept ==
    \A s \in Live :
        tab[s].nodes > 0 =>
            \A w \in WildIn : w.pts # 0 =>
                \E n \in ToSet(CheckinPts(tab[s], w.size, w.pts, w.isOffset).list) :
                    n.pts = w.pts /\ n.index = tab[s].index

(* The decoder of a regular stream that checks every frame out in order is *)
(* given the time stamp of the frame its offset lies in, whichever of the  *)
(* candidates the heuristics prefer, as long as the frame has its node and *)
(* the offset is not within Threshold of the wrap, where cur_offset >      *)
(* ptn->offset misjudges its neighbours (ptsserver_checkout_pts_offset).   *)
OwnPts ==
    \A c \in Clients :
        LET f == cl[c].frames[cl[c].out + 1]
            i == Mine(c)
        IN  /\ Kind(c) = "v4l" /\ cl[c].st = "open" /\ i # Null /\ ~cl[c].disturbed
            /\ cl[c].out < Len(cl[c].frames)
            /\ \E n \in ToSet(i.list) : n.pts = f.pts
            => \A k \in 1..Threshold : f.at + k + Threshold < W => CheckoutPts(i, f.at + k, 0).pts = f.pts

(* Audio is given the time stamp nearest to its offset, if one is within   *)
(* the limit (ptsserver_checkout_apts_offset gives up after a few nodes).  *)
NearestApts ==
    \A s \in Live \cap Static : \A cur \in Offsets \ {NoOffset} :
        LET i == tab[s]
            Fits(n) == Dist(cur, n.offset) <= IF i.margin = 0 THEN Threshold ELSE i.margin
            k == SelectLastInSeq(i.list, LAMBDA n :
                     /\ Fits(n)
                     /\ \A m \in ToSet(i.list) : Fits(m) => Dist(cur, n.offset) <= Dist(cur, m.offset))
        IN  k # 0 => CheckoutApts(i, cur).pts = i.list[k].pts
=============================================================================
