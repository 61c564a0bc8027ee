----------------------------- MODULE TaskChain ------------------------------
(***************************************************************************)
(* The task chain of one buffer (amvdec_ports/aml_task_chain.c) and its    *)
(* life under the buffer manager: the chain is created with the buffer,    *)
(* rebuilt each time a user takes the buffer from the free queue           *)
(* (aml_buf_prepare -> task_chain_clean -> aml_creat_pipeline), extended   *)
(* by the decoder's own attach after aml_buf_get returned, walked by       *)
(* task->submit, and cleaned and released when the buffer is freed.        *)
(*                                                                         *)
(* task_chain_clean releases the items and leaves cur_type and map as they *)
(* are: the links of every generation are written over the leftovers of    *)
(* the earlier ones.  What the properties ask is that those leftovers are  *)
(* never followed.                                                         *)
(***************************************************************************)
EXTENDS Pipeline, Integers, FiniteSets

CONSTANT Ctxs     \* the V4L2 context configurations to consider

ASSUME CtxsAssumption == Ctxs \subseteq Contexts

VARIABLES
    freed,      \* task_chain_destroy ran
    ref,        \* task->ref
    list_item,  \* task->list_item, head first: records [type, is_active]
    cur_type,   \* task->cur_type
    map,        \* task->map: map[0] towards the sink, map[1] towards the source
    direction,  \* task->direction
    pipe,       \* ghost: the pipeline drawn for this generation, source first
    needDec     \* the decoder got the buffer and has not attached yet

vars == <<freed, ref, list_item, cur_type, map, direction, pipe, needDec>>

-----------------------------------------------------------------------------
Item == [type : TaskTypes, is_active : BOOLEAN]

TypeSlots == TaskTypes \cup {NoType}

\* The chain as one value, so that attach can be applied several times in a
\* row inside one action.
Chain == [ref |-> ref, items |-> list_item, cur |-> cur_type, map |-> map]

Positions(items, type) == {i \in DOMAIN items : items[i].type = type}

\* find_task_item: the first item of the list with that type.
find_task_item(items, type) ==
    CHOOSE i \in Positions(items, type) :
        \A j \in Positions(items, type) : i <= j

\* Fault: the link towards the source is not written.
task_order_attach_OneWay(c, type) ==
    [ref   |-> c.ref + 1,
     items |-> <<[type |-> type, is_active |-> FALSE]>> \o c.items,
     cur   |-> type,
     map   |-> [c.map EXCEPT ![0][type] = c.cur]]

\* task_order_attach.
task_order_attach(c, type) ==
    [ref   |-> c.ref + 1,
     items |-> <<[type |-> type, is_active |-> FALSE]>> \o c.items,
     cur   |-> type,
     map   |-> [c.map EXCEPT ![0][type] = c.cur, ![1][c.cur] = type]]

\* Attach a sequence of one to three types, first to last.
AttachAll(c, types) ==
    LET one   == task_order_attach(c, types[1])
        two   == task_order_attach(one, types[2])
        three == task_order_attach(two, types[3])
    IN  CASE Len(types) = 1 -> one [] Len(types) = 2 -> two [] OTHER -> three

\* Fault: releasing an item does not drop its reference on the chain.
task_chain_clean_KeepRef(c) == [c EXCEPT !.items = <<>>]

\* task_chain_clean: every item's last reference is dropped; each release
\* unlinks the item and drops the item's reference on the chain.
task_chain_clean(c) ==
    [c EXCEPT !.ref = c.ref - Len(c.items), !.items = <<>>]

task_chain_empty == cur_type = NoType

\* task_buffer_get_next_user / task_buffer_get_pre_user.
Neighbour(side, type) ==
    LET other == map[side][type]
    IN  IF Positions(list_item, type) # {} /\ Positions(list_item, other) # {}
        THEN other ELSE NoType

get_next_user(type) == Neighbour(0, type)
get_pre_user(type)  == Neighbour(1, type)

-----------------------------------------------------------------------------
\* task_chain_init on zeroed memory: the map starts as all TASK_TYPE_DEC (0).
Init ==
    /\ freed = FALSE
    /\ ref = 1
    /\ list_item = <<>>
    /\ cur_type = NoType
    /\ map = [s \in {0, 1} |-> [t \in TypeSlots |-> "DEC"]]
    /\ direction = "SUBMIT"
    /\ pipe = <<>>
    /\ needDec = FALSE

SetChain(c) ==
    /\ ref' = c.ref
    /\ list_item' = c.items
    /\ cur_type' = c.cur
    /\ map' = c.map

\* buf_core_get by `user' -> aml_buf_prepare: clean unless never used, then
\* draw the pipeline of that requester.
aml_buf_prepare(ctx, user) ==
    /\ ~freed
    /\ ~needDec
    /\ LET cleaned == IF task_chain_empty THEN Chain ELSE task_chain_clean(Chain)
       IN  SetChain(AttachAll(cleaned, aml_creat_pipeline(ctx, user)))
    /\ pipe' = Route(ctx, user)
    /\ needDec' = (user = "DEC")
    /\ UNCHANGED <<freed, direction>>

\* The decoder's task->attach(task, &task_dec_ops, ...) once aml_buf_get has
\* returned: outside the buffer manager's mutex.
DecAttach ==
    /\ needDec
    /\ SetChain(task_order_attach(Chain, "DEC"))
    /\ needDec' = FALSE
    /\ UNCHANGED <<freed, direction, pipe>>

\* task_buffer_submit: the submitting item goes idle and the item found
\* through map[0] becomes the active one (its fill_buffer is called).  The
\* copies of the vframe kept in the item are data and left out.
task_buffer_submit(type) ==
    /\ ~freed
    /\ ~needDec
    /\ Positions(list_item, type) # {}
    /\ LET i == find_task_item(list_item, type)
           nxt == map[0][type]
           idle == [list_item EXCEPT ![i].is_active = FALSE]
       IN  IF Positions(list_item, nxt) # {}
           THEN /\ list_item' = [idle EXCEPT
                                    ![find_task_item(list_item, nxt)].is_active = TRUE]
                /\ direction' = "SUBMIT"
           ELSE /\ list_item' = idle
                /\ UNCHANGED direction
    /\ UNCHANGED <<freed, ref, cur_type, map, pipe, needDec>>

\* aml_buf_free: task_chain_clean, then task_chain_release; the last reference
\* runs task_chain_destroy.
aml_buf_free ==
    /\ ~freed
    /\ ~needDec
    /\ LET c == task_chain_clean(Chain)
       IN  /\ ref' = c.ref - 1
           /\ list_item' = c.items
           /\ freed' = (c.ref - 1 = 0)
           /\ cur_type' = IF c.ref - 1 = 0 THEN NoType ELSE cur_type
           /\ map' = IF c.ref - 1 = 0
                     THEN [s \in {0, 1} |-> [t \in TypeSlots |-> "DEC"]] ELSE map
    /\ pipe' = <<>>
    /\ UNCHANGED <<direction, needDec>>

\* The users that call aml_buf_done on this buffer: everyone on its pipeline
\* but the last, which consumes or displays it.
Submitters == {pipe[i] : i \in 1..(Len(pipe) - 1)}

Next ==
    \/ \E ctx \in Ctxs : \E user \in Requesters(ctx) : aml_buf_prepare(ctx, user)
    \/ DecAttach
    \/ \E type \in Submitters : task_buffer_submit(type)
    \/ aml_buf_free

Spec == Init /\ [][Next]_vars

-----------------------------------------------------------------------------
\* Whatever pipelines the buffer went through before, the items on the list are
\* those of the pipeline drawn for this generation, source first, and asked on
\* behalf of one of its users the chain names the neighbour the pipeline draws
\* (get_next_user routes the buffer and decides whether DI is told,
\* get_pre_user decides whose holder count is moved), although clean left the
\* links of every earlier pipeline in the map.
LinksFollowPipeline ==
    (~freed /\ ~needDec) =>
        /\ Len(list_item) = Len(pipe)
        /\ \A i \in DOMAIN pipe : list_item[i].type = pipe[i]
        /\ \A i \in 1..(Len(pipe) - 1) :
              /\ get_next_user(pipe[i]) = pipe[i + 1]
              /\ get_pre_user(pipe[i + 1]) = pipe[i]

\* A chain holds one reference of its own and one per item, so it is
\* destroyed by the release that follows the last clean and never earlier.
RefCountsItems ==
    /\ ~freed => ref = 1 + Len(list_item)
    /\ freed => list_item = <<>> /\ ref = 0
=============================================================================
