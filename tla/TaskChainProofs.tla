-------------------------- MODULE TaskChainProofs ---------------------------
(***************************************************************************)
(* Proofs about TaskChain for every set of contexts: through any sequence  *)
(* of pipelines, the links the chain follows are those of the pipeline     *)
(* drawn last.                                                             *)
(***************************************************************************)
EXTENDS TaskChain, SequenceTheorems, TLAPS

Chains == [ref : Int, items : Seq(Item), cur : TypeSlots,
           map : [{0, 1} -> [TypeSlots -> TypeSlots]]]

Distinct(q) == \A i, j \in DOMAIN q : q[i] = q[j] => i = j

\* The chain c draws q: its items are those of q, source first, the links
\* between neighbours are those of q, and cur_type is the source.
Draws(c, q) ==
    /\ q \in Seq(TaskTypes) /\ Distinct(q)
    /\ Len(c.items) = Len(q)
    /\ \A i \in DOMAIN q : c.items[i].type = q[i]
    /\ \A i \in 1..(Len(q) - 1) : c.map[0][q[i]] = q[i + 1] /\ c.map[1][q[i + 1]] = q[i]
    /\ q # <<>> => c.cur = q[1]
    /\ c.ref = 1 + Len(q)

\* The items there are now: the decoder's own comes last.
Drawn == IF needDec THEN Tail(pipe) ELSE pipe

\* The inductive invariant.
Inv ==
    /\ freed \in BOOLEAN /\ needDec \in BOOLEAN
    /\ pipe \in Seq(TaskTypes) /\ Distinct(pipe)
    /\ Chain \in Chains
    /\ needDec => ~freed /\ Len(pipe) >= 2 /\ pipe[1] = "DEC"
    /\ ~freed => Draws(Chain, Drawn)
    /\ freed => list_item = <<>> /\ ref = 0

-----------------------------------------------------------------------------
(* Lemmas about the operators *)

\* Tuples written out.
LEMMA Consed ==
    \A x, y, z : /\ <<x>> \o <<>> = <<x>>
                /\ <<x>> \o <<y>> = <<x, y>>
                /\ <<x>> \o <<y, z>> = <<x, y, z>>
<1> TAKE x, y, z
<1> DEFINE S == {x, y, z}
<1>1. <<x>> \o <<>> = <<x>>
  BY ConcatEmptySeq, <<x>> \in Seq(S)
<1>2. /\ <<x>> \in Seq(S) /\ <<y>> \in Seq(S) /\ <<x, y>> \in Seq(S) /\ <<y, z>> \in Seq(S)
      /\ <<x, y, z>> \in Seq(S)
  OBVIOUS
<1>3. <<x>> \o <<y>> = <<x, y>>
  <2>1. <<x>> \o <<y>> \in Seq(S) /\ Len(<<x>> \o <<y>>) = 2
        /\ (<<x>> \o <<y>>)[1] = x /\ (<<x>> \o <<y>>)[2] = y
    BY <1>2
  <2>2. Len(<<x>> \o <<y>>) = Len(<<x, y>>)
        /\ \A i \in 1..Len(<<x>> \o <<y>>) : (<<x>> \o <<y>>)[i] = <<x, y>>[i]
    BY <2>1
  <2> QED
    BY <1>2, <2>1, <2>2, SeqEqual
<1>4. <<x>> \o <<y, z>> = <<x, y, z>>
  <2>1. <<x>> \o <<y, z>> \in Seq(S) /\ Len(<<x>> \o <<y, z>>) = 3
        /\ (<<x>> \o <<y, z>>)[1] = x /\ (<<x>> \o <<y, z>>)[2] = y /\ (<<x>> \o <<y, z>>)[3] = z
    BY <1>2
  <2>2. Len(<<x>> \o <<y, z>>) = Len(<<x, y, z>>)
        /\ \A i \in 1..Len(<<x>> \o <<y, z>>) : (<<x>> \o <<y, z>>)[i] = <<x, y, z>>[i]
    BY <2>1
  <2> QED
    BY <1>2, <2>1, <2>2, SeqEqual
<1> QED
  BY <1>1, <1>3, <1>4

\* A tuple with one more element.
LEMMA Appended ==
    \A x, y, z : Append(<<x>>, y) = <<x, y>> /\ Append(<<x, y>>, z) = <<x, y, z>>
<1> TAKE x, y, z
<1> DEFINE S == {x, y, z}
<1>2. <<x>> \in Seq(S) /\ <<x, y>> \in Seq(S) /\ <<x, y, z>> \in Seq(S)
  OBVIOUS
<1>3. Append(<<x>>, y) \in Seq(S) /\ Len(Append(<<x>>, y)) = 2
      /\ Append(<<x>>, y)[1] = x /\ Append(<<x>>, y)[2] = y
  BY <1>2
<1>4. Append(<<x, y>>, z) \in Seq(S) /\ Len(Append(<<x, y>>, z)) = 3
      /\ Append(<<x, y>>, z)[1] = x /\ Append(<<x, y>>, z)[2] = y /\ Append(<<x, y>>, z)[3] = z
  BY <1>2
<1>5. Append(<<x>>, y) = <<x, y>>
  <2>1. Len(Append(<<x>>, y)) = Len(<<x, y>>)
        /\ \A i \in 1..Len(Append(<<x>>, y)) : Append(<<x>>, y)[i] = <<x, y>>[i]
    BY <1>3
  <2> QED
    BY <1>2, <1>3, <2>1, SeqEqual
<1>6. Append(<<x, y>>, z) = <<x, y, z>>
  <2>1. Len(Append(<<x, y>>, z)) = Len(<<x, y, z>>)
        /\ \A i \in 1..Len(Append(<<x, y>>, z)) : Append(<<x, y>>, z)[i] = <<x, y, z>>[i]
    BY <1>4
  <2> QED
    BY <1>2, <1>4, <2>1, SeqEqual
<1> QED
  BY <1>5, <1>6

\* A tuple without its first element.
LEMMA Tails ==
    \A x, y, z : Tail(<<x, y>>) = <<y>> /\ Tail(<<x, y, z>>) = <<y, z>>
<1> TAKE x, y, z
<1> DEFINE S == {x, y, z}
<1>2. <<y>> \in Seq(S) /\ <<x, y>> \in Seq(S) /\ <<y, z>> \in Seq(S) /\ <<x, y, z>> \in Seq(S)
  OBVIOUS
<1>3. Tail(<<x, y>>) \in Seq(S) /\ Len(Tail(<<x, y>>)) = 1 /\ Tail(<<x, y>>)[1] = y
  BY <1>2
<1>4. Tail(<<x, y, z>>) \in Seq(S) /\ Len(Tail(<<x, y, z>>)) = 2
      /\ Tail(<<x, y, z>>)[1] = y /\ Tail(<<x, y, z>>)[2] = z
  BY <1>2
<1>5. Tail(<<x, y>>) = <<y>>
  BY <1>2, <1>3, SeqEqual
<1>6. Tail(<<x, y, z>>) = <<y, z>>
  BY <1>2, <1>4, SeqEqual
<1> QED
  BY <1>5, <1>6

\* Attaching an item of a new type in front of a chain that draws q makes one
\* that draws the type and then q, whatever links are left over in the map.
LEMMA AttachDraws ==
    ASSUME NEW c \in Chains, NEW q, Draws(c, q), NEW type \in TaskTypes,
           \A i \in DOMAIN q : q[i] # type
    PROVE  /\ task_order_attach(c, type) \in Chains
           /\ Draws(task_order_attach(c, type), <<type>> \o q)
<1> DEFINE d == task_order_attach(c, type)
           r == <<type>> \o q
           it == [type |-> type, is_active |-> FALSE]
<1>1. q \in Seq(TaskTypes) /\ r \in Seq(TaskTypes) /\ Len(r) = Len(q) + 1 /\ r[1] = type
      /\ \A i \in 1..Len(q) : r[i + 1] = q[i]
  BY DEF Draws
<1>2. c.items \in Seq(Item) /\ c.cur \in TypeSlots /\ c.ref \in Int
      /\ c.map \in [{0, 1} -> [TypeSlots -> TypeSlots]] /\ it \in Item
      /\ Len(c.items) = Len(q)
  BY DEF Chains, Item, Draws
<1>3. /\ d.ref = c.ref + 1 /\ d.cur = type
      /\ d.items = <<it>> \o c.items
      /\ d.map = [c.map EXCEPT ![0][type] = c.cur, ![1][c.cur] = type]
  BY DEF task_order_attach
<1>4. /\ d.items \in Seq(Item) /\ Len(d.items) = Len(r) /\ d.items[1] = it
      /\ \A i \in 1..Len(q) : d.items[i + 1] = c.items[i]
  BY <1>1, <1>2, <1>3
<1>5. type \in TypeSlots /\ \A i \in 1..Len(q) : q[i] \in TypeSlots /\ q[i] # type
  BY <1>1 DEF TypeSlots
<1>6. /\ d.map \in [{0, 1} -> [TypeSlots -> TypeSlots]]
      /\ d.map[0] = [c.map[0] EXCEPT ![type] = c.cur]
      /\ d.map[1] = [c.map[1] EXCEPT ![c.cur] = type]
  <2>1. [c.map[0] EXCEPT ![type] = c.cur] \in [TypeSlots -> TypeSlots]
        /\ [c.map[1] EXCEPT ![c.cur] = type] \in [TypeSlots -> TypeSlots]
    BY <1>2, <1>5
  <2>2. d.map = [[c.map EXCEPT ![0] = [c.map[0] EXCEPT ![type] = c.cur]]
                        EXCEPT ![1] = [c.map[1] EXCEPT ![c.cur] = type]]
    BY <1>2, <1>3, SMTT(30)
  <2> QED
    BY <1>2, <2>1, <2>2
<1>7. d \in Chains
  BY <1>2, <1>3, <1>4, <1>5, <1>6 DEF Chains, task_order_attach
<1>8. Distinct(r)
  <2> SUFFICES ASSUME NEW i \in 1..Len(r), NEW j \in 1..Len(r), r[i] = r[j] PROVE i = j
    BY <1>1 DEF Distinct
  <2>1. CASE i = 1 /\ j = 1
    BY <2>1
  <2>2. CASE i = 1 /\ j > 1
    <3>1. j - 1 \in 1..Len(q) /\ r[j] = q[j - 1]
      BY <1>1, <2>2
    <3> QED
      BY <1>1, <1>5, <2>2, <3>1
  <2>3. CASE i > 1 /\ j = 1
    <3>1. i - 1 \in 1..Len(q) /\ r[i] = q[i - 1]
      BY <1>1, <2>3
    <3> QED
      BY <1>1, <1>5, <2>3, <3>1
  <2>4. CASE i > 1 /\ j > 1
    <3>1. i - 1 \in 1..Len(q) /\ j - 1 \in 1..Len(q) /\ r[i] = q[i - 1] /\ r[j] = q[j - 1]
      BY <1>1, <2>4
    <3>2. i - 1 = j - 1
      BY <3>1, <1>1 DEF Draws, Distinct
    <3> QED
      BY <3>2
  <2> QED
    BY <2>1, <2>2, <2>3, <2>4
<1>9. \A i \in DOMAIN r : d.items[i].type = r[i]
  <2> SUFFICES ASSUME NEW i \in 1..Len(r) PROVE d.items[i].type = r[i]
    BY <1>1
  <2>1. CASE i = 1
    BY <1>1, <1>4, <2>1
  <2>2. CASE i > 1
    <3>1. i - 1 \in 1..Len(q) /\ r[i] = q[i - 1] /\ d.items[i] = c.items[i - 1]
      BY <1>1, <1>4, <2>2
    <3> QED
      BY <3>1, <1>1 DEF Draws
  <2> QED
    BY <2>1, <2>2
<1>10. ASSUME NEW i \in 1..(Len(r) - 1)
       PROVE  d.map[0][r[i]] = r[i + 1] /\ d.map[1][r[i + 1]] = r[i]
  <2>1. i \in 1..Len(q) /\ r[i + 1] = q[i]
    BY <1>1
  <2>2. q # <<>> /\ c.cur = q[1]
    BY <2>1, <1>1 DEF Draws
  <2>3. CASE i = 1
    BY <1>1, <1>2, <1>5, <1>6, <2>1, <2>2, <2>3
  <2>4. CASE i > 1
    <3>1. i - 1 \in 1..(Len(q) - 1) /\ r[i] = q[i - 1] /\ i \in DOMAIN q /\ 1 \in DOMAIN q
      BY <1>1, <2>1, <2>4
    <3>2. c.map[0][q[i - 1]] = q[(i - 1) + 1] /\ c.map[1][q[(i - 1) + 1]] = q[i - 1]
      BY <3>1 DEF Draws
    <3>3. (i - 1) + 1 = i
      OBVIOUS
    <3>4. q[i] # q[1]
      BY <3>1, <2>4 DEF Draws, Distinct
    <3>5. q[i - 1] # type /\ q[i] \in TypeSlots /\ q[i - 1] \in TypeSlots
      BY <3>1, <1>5, <2>1
    <3> QED
      BY <1>2, <1>5, <1>6, <2>1, <2>2, <3>1, <3>2, <3>3, <3>4, <3>5
  <2>5. i = 1 \/ i > 1
    BY <2>1, <1>1
  <2> QED
    BY <2>3, <2>4, <2>5
<1>11. d.ref = 1 + Len(r)
  BY <1>1, <1>2, <1>3 DEF Draws
<1> QED
  BY <1>1, <1>3, <1>4, <1>7, <1>8, <1>9, <1>10, <1>11 DEF Draws

\* task_chain_clean of a chain with a reference per item leaves one that draws
\* nothing.
LEMMA CleanDraws ==
    ASSUME NEW c \in Chains, NEW q, Draws(c, q)
    PROVE  task_chain_clean(c) \in Chains /\ Draws(task_chain_clean(c), <<>>)
<1>1. c.items \in Seq(Item) /\ c.cur \in TypeSlots /\ c.ref \in Int
      /\ c.map \in [{0, 1} -> [TypeSlots -> TypeSlots]]
      /\ Len(c.items) = Len(q) /\ c.ref = 1 + Len(q)
  BY DEF Chains, Draws
<1>2. c.ref - Len(c.items) = 1 /\ <<>> \in Seq(Item)
  BY <1>1
<1>3. /\ task_chain_clean(c).ref = 1 /\ task_chain_clean(c).items = <<>>
      /\ task_chain_clean(c) \in Chains
  <2>1. task_chain_clean(c) = [c EXCEPT !.ref = 1, !.items = <<>>]
    BY <1>2, Zenon DEF task_chain_clean
  <2>2. 1 \in Int
    OBVIOUS
  <2> QED
    BY <1>1, <1>2, <2>1, <2>2 DEF Chains
<1> QED
  BY <1>3 DEF Draws, Distinct

\* The attach calls of aml_creat_pipeline on an empty chain draw the route of
\* the requester, without the decoder if it is the requester.
LEMMA PipelineDraws ==
    ASSUME NEW c \in Chains, Draws(c, <<>>), NEW ctx \in Contexts, NEW user \in Requesters(ctx)
    PROVE  LET q == IF user = "DEC" THEN Tail(Route(ctx, user)) ELSE Route(ctx, user)
           IN  /\ AttachAll(c, aml_creat_pipeline(ctx, user)) \in Chains
               /\ Draws(AttachAll(c, aml_creat_pipeline(ctx, user)), q)
               /\ Route(ctx, user) \in Seq(TaskTypes) /\ Distinct(Route(ctx, user))
               /\ Len(Route(ctx, user)) >= 2 /\ Route(ctx, user)[1] = user
<1> DEFINE p == aml_creat_pipeline(ctx, user)
           r == Route(ctx, user)
           e == AttachAll(c, p)
           q == IF user = "DEC" THEN Tail(r) ELSE r
<1>1. ctx.avbc \in BOOLEAN /\ ctx.ge2d \in BOOLEAN /\ ctx.vpp \in BOOLEAN /\ ctx.is_prog \in BOOLEAN
  BY DEF Contexts
<1>2. user \in {"DEC", "GE2D", "VPP", "AVBCD"}
  BY <1>1 DEF Requesters
<1>3. \/ \E x \in TaskTypes : x # "DEC" /\ user = "DEC" /\ p = <<x>> /\ r = <<"DEC", x>>
      \/ user = "DEC" /\ p = <<"SINK", "VPP">> /\ r = <<"DEC", "VPP", "SINK">>
      \/ \E x \in TaskTypes : x # user /\ user # "DEC" /\ p = <<x, user>> /\ r = <<user, x>>
      \/ user = "GE2D" /\ p = <<"SINK", "VPP", "GE2D">> /\ r = <<"GE2D", "VPP", "SINK">>
  <2> USE DEF TaskTypes
  <2>1. CASE user = "DEC"
    BY <1>1, <2>1 DEF aml_creat_pipeline, Route
  <2>2. CASE user = "GE2D"
    <3>1. Append(<<"VPP">>, "GE2D") = <<"VPP", "GE2D">>
          /\ Append(<<"SINK">>, "GE2D") = <<"SINK", "GE2D">>
          /\ Append(<<"SINK", "VPP">>, "GE2D") = <<"SINK", "VPP", "GE2D">>
      BY Appended
    <3> QED
      BY <1>1, <2>2, <3>1 DEF aml_creat_pipeline, Route
  <2>3. CASE user = "VPP"
    BY <1>1, <2>3 DEF aml_creat_pipeline, Route
  <2>4. CASE user = "AVBCD"
    BY <1>1, <2>4 DEF aml_creat_pipeline, Route
  <2> QED
    BY <1>2, <2>1, <2>2, <2>3, <2>4
<1>4. ASSUME NEW x \in TaskTypes
      PROVE  task_order_attach(c, x) \in Chains /\ Draws(task_order_attach(c, x), <<x>>)
  <2>1. <<x>> \o <<>> = <<x>>
    BY Consed
  <2>2. \A i \in DOMAIN <<>> : <<>>[i] # x
    OBVIOUS
  <2> QED
    BY <2>1, <2>2, AttachDraws
<1>5. ASSUME NEW x \in TaskTypes, NEW y \in TaskTypes, x # y
      PROVE  LET d == task_order_attach(task_order_attach(c, x), y)
             IN  d \in Chains /\ Draws(d, <<y, x>>)
  <2>1. <<y>> \o <<x>> = <<y, x>>
    BY Consed
  <2>2. \A i \in DOMAIN <<x>> : <<x>>[i] # y
    BY <1>5
  <2> QED
    BY <1>4, <2>1, <2>2, AttachDraws
<1>6. ASSUME NEW x \in TaskTypes, NEW y \in TaskTypes, NEW z \in TaskTypes, x # y, x # z, y # z
      PROVE  LET d == task_order_attach(task_order_attach(task_order_attach(c, x), y), z)
             IN  d \in Chains /\ Draws(d, <<z, y, x>>)
  <2>1. <<z>> \o <<y, x>> = <<z, y, x>>
    BY Consed
  <2>2. \A i \in DOMAIN <<y, x>> : <<y, x>>[i] # z
    BY <1>6
  <2> QED
    BY <1>5, <1>6, <2>1, <2>2, AttachDraws
<1> HIDE DEF p, r
<1>7. CASE \E x \in TaskTypes : x # "DEC" /\ user = "DEC" /\ p = <<x>> /\ r = <<"DEC", x>>
  <2>1. PICK x \in TaskTypes : x # "DEC" /\ user = "DEC" /\ p = <<x>> /\ r = <<"DEC", x>>
    BY <1>7
  <2>2. e = task_order_attach(c, x)
    BY <2>1 DEF AttachAll
  <2>3. /\ q = <<x>> /\ r \in Seq(TaskTypes) /\ Distinct(r) /\ Len(r) >= 2 /\ r[1] = user
    <3>1. q = <<x>>
      BY <2>1, Tails
    <3>2. Distinct(<<"DEC", x>>)
      BY <2>1 DEF Distinct
    <3>3. Distinct(r)
      BY <2>1, <3>2
    <3>4. r \in Seq(TaskTypes) /\ Len(r) >= 2 /\ r[1] = user
      BY <2>1 DEF TaskTypes
    <3> QED
      BY <3>1, <3>3, <3>4
  <2> QED
    BY <1>4, <2>2, <2>3 DEF p, r
<1>8. CASE user = "DEC" /\ p = <<"SINK", "VPP">> /\ r = <<"DEC", "VPP", "SINK">>
  <2>2. e = task_order_attach(task_order_attach(c, "SINK"), "VPP")
    BY <1>8 DEF AttachAll
  <2>3. /\ q = <<"VPP", "SINK">> /\ r \in Seq(TaskTypes) /\ Distinct(r) /\ Len(r) >= 2 /\ r[1] = user
    <3>1. q = <<"VPP", "SINK">>
      BY <1>8, Tails
    <3>2. Distinct(<<"DEC", "VPP", "SINK">>)
      BY <1>8 DEF Distinct
    <3>3. Distinct(r)
      BY <1>8, <3>2
    <3>4. r \in Seq(TaskTypes) /\ Len(r) >= 2 /\ r[1] = user
      BY <1>8 DEF TaskTypes
    <3> QED
      BY <3>1, <3>3, <3>4
  <2>4. "SINK" \in TaskTypes /\ "VPP" \in TaskTypes
    BY DEF TaskTypes
  <2> QED
    BY <1>5, <2>2, <2>3, <2>4 DEF p, r
<1>9. CASE \E x \in TaskTypes : x # user /\ user # "DEC" /\ p = <<x, user>> /\ r = <<user, x>>
  <2>1. PICK x \in TaskTypes : x # user /\ user # "DEC" /\ p = <<x, user>> /\ r = <<user, x>>
    BY <1>9
  <2>2. e = task_order_attach(task_order_attach(c, x), user)
    BY <2>1 DEF AttachAll
  <2>4. user \in TaskTypes
    BY <1>2 DEF TaskTypes
  <2>3. q = <<user, x>> /\ r \in Seq(TaskTypes) /\ Distinct(r) /\ Len(r) >= 2 /\ r[1] = user
    BY <2>1, <2>4 DEF Distinct
  <2> QED
    BY <1>5, <2>1, <2>2, <2>3, <2>4 DEF p, r
<1>10. CASE user = "GE2D" /\ p = <<"SINK", "VPP", "GE2D">> /\ r = <<"GE2D", "VPP", "SINK">>
  <2>2. e = task_order_attach(task_order_attach(task_order_attach(c, "SINK"), "VPP"), "GE2D")
    BY <1>10 DEF AttachAll
  <2>3. /\ q = <<"GE2D", "VPP", "SINK">> /\ r \in Seq(TaskTypes) /\ Distinct(r) /\ Len(r) >= 2 /\ r[1] = user
    <3>1. q = <<"GE2D", "VPP", "SINK">>
      BY <1>10
    <3>2. Distinct(<<"GE2D", "VPP", "SINK">>)
      BY <1>10 DEF Distinct
    <3>3. Distinct(r)
      BY <1>10, <3>2
    <3>4. r \in Seq(TaskTypes) /\ Len(r) >= 2 /\ r[1] = user
      BY <1>10 DEF TaskTypes
    <3> QED
      BY <3>1, <3>3, <3>4
  <2>4. "SINK" \in TaskTypes /\ "VPP" \in TaskTypes /\ "GE2D" \in TaskTypes
    BY DEF TaskTypes
  <2> QED
    BY <1>6, <2>2, <2>3, <2>4 DEF p, r
<1> QED
  BY <1>3, <1>7, <1>8, <1>9, <1>10 DEF p, r

-----------------------------------------------------------------------------
(* The invariant *)

\* A new chain draws nothing.
LEMMA InvInit == Init => Inv
<1> SUFFICES ASSUME Init PROVE Inv
  OBVIOUS
<1>1. Chain \in Chains
  BY DEF Init, Chain, Chains, TypeSlots, TaskTypes
<1>2. Draws(Chain, <<>>)
  BY DEF Init, Chain, Draws, Distinct
<1> QED
  BY <1>1, <1>2, SMTT(30) DEF Init, Inv, Drawn, Distinct

\* SetChain(c) makes c the chain.
LEMMA ChainIs ==
    ASSUME NEW c \in Chains, SetChain(c)
    PROVE  Chain' = c
<1>1. c = [ref |-> c.ref, items |-> c.items, cur |-> c.cur, map |-> c.map]
  BY DEF Chains
<1> QED
  BY <1>1 DEF SetChain, Chain

\* aml_buf_prepare cleans the chain and draws the requester's pipeline.
LEMMA InvPrepare ==
    ASSUME Inv, NEW ctx \in Ctxs, NEW user \in Requesters(ctx), aml_buf_prepare(ctx, user)
    PROVE  Inv'
<1> DEFINE cleaned == IF task_chain_empty THEN Chain ELSE task_chain_clean(Chain)
           e == AttachAll(cleaned, aml_creat_pipeline(ctx, user))
           r == Route(ctx, user)
<1>1. ctx \in Contexts
  BY CtxsAssumption
<1>2. Chain \in Chains /\ Draws(Chain, pipe) /\ ~freed
  BY DEF Inv, Drawn, aml_buf_prepare
<1>3. cleaned \in Chains /\ Draws(cleaned, <<>>)
  <2>1. CASE task_chain_empty
    <3>1. Chain.cur = NoType /\ NoType \notin TaskTypes
      BY <2>1 DEF task_chain_empty, Chain, NoType, TaskTypes
    <3>2. pipe = <<>>
      BY <1>2, <3>1 DEF Draws
    <3> QED
      BY <1>2, <2>1, <3>2
  <2>2. CASE ~task_chain_empty
    BY <1>2, <2>2, CleanDraws
  <2> QED
    BY <2>1, <2>2
<1>4. /\ e \in Chains /\ Draws(e, IF user = "DEC" THEN Tail(r) ELSE r)
      /\ r \in Seq(TaskTypes) /\ Distinct(r) /\ Len(r) >= 2 /\ r[1] = user
  BY <1>1, <1>3, PipelineDraws
<1>5. SetChain(e) /\ pipe' = r /\ needDec' = (user = "DEC") /\ freed' = freed
  BY DEF aml_buf_prepare
<1>6. Chain' = e
  BY <1>4, <1>5, ChainIs
<1>7. Draws(Chain', Drawn')
  BY <1>4, <1>5, <1>6 DEF Drawn
<1> QED
  BY <1>2, <1>4, <1>5, <1>6, <1>7 DEF Inv

\* The decoder attaches itself in front.
LEMMA InvDecAttach ==
    ASSUME Inv, DecAttach
    PROVE  Inv'
<1> DEFINE e == task_order_attach(Chain, "DEC")
<1>1. /\ Chain \in Chains /\ Draws(Chain, Tail(pipe)) /\ ~freed /\ Len(pipe) >= 2
      /\ pipe[1] = "DEC" /\ pipe \in Seq(TaskTypes) /\ Distinct(pipe)
  BY DEF Inv, Drawn, DecAttach
<1>2. <<"DEC">> \o Tail(pipe) = pipe /\ \A i \in DOMAIN Tail(pipe) : Tail(pipe)[i] = pipe[i + 1]
      /\ Len(Tail(pipe)) = Len(pipe) - 1
  BY <1>1
<1>3. \A i \in DOMAIN Tail(pipe) : Tail(pipe)[i] # "DEC"
  BY <1>1, <1>2 DEF Distinct
<1>4. e \in Chains /\ Draws(e, pipe)
  BY <1>1, <1>2, <1>3, AttachDraws, ZenonT(30) DEF TaskTypes
<1>5. SetChain(e) /\ pipe' = pipe /\ needDec' = FALSE /\ freed' = freed
  BY DEF DecAttach
<1>6. Chain' = e
  BY <1>4, <1>5, ChainIs
<1> QED
  BY <1>1, <1>4, <1>5, <1>6 DEF Inv, Drawn

\* No type is twice on the chain: find_task_item finds the item of that type.
LEMMA FindItem ==
    ASSUME Draws(Chain, pipe), Chain \in Chains, NEW x, Positions(list_item, x) # {}
    PROVE  find_task_item(list_item, x) \in DOMAIN list_item
<1>1. list_item \in Seq(Item) /\ Len(list_item) = Len(pipe) /\ pipe \in Seq(TaskTypes)
      /\ \A i \in DOMAIN pipe : list_item[i].type = pipe[i]
  BY DEF Chains, Chain, Draws
<1>2. PICK i \in Positions(list_item, x) : TRUE
  OBVIOUS
<1>3. i \in 1..Len(pipe) /\ \A j \in Positions(list_item, x) : j = i
  BY <1>1, <1>2 DEF Positions, Draws, Distinct
<1>4. \A j \in Positions(list_item, x) : i <= j
  BY <1>3
<1> QED
  BY <1>2, <1>4 DEF find_task_item, Positions

\* Only the activity flags of items change: the chain draws what it drew.
LEMMA InvSubmit ==
    ASSUME Inv, NEW type, task_buffer_submit(type)
    PROVE  Inv'
<1>1. /\ Chain \in Chains /\ Draws(Chain, pipe) /\ ~freed /\ ~needDec
      /\ list_item \in Seq(Item)
  BY DEF Inv, Drawn, task_buffer_submit, Chain, Chains
<1>2. ref' = ref /\ cur_type' = cur_type /\ map' = map /\ pipe' = pipe /\ needDec' = needDec
      /\ freed' = freed
  BY DEF task_buffer_submit
<1>3. \E i, j \in DOMAIN list_item :
         \/ list_item' = [list_item EXCEPT ![i].is_active = FALSE]
         \/ list_item' = [[list_item EXCEPT ![i].is_active = FALSE] EXCEPT ![j].is_active = TRUE]
  BY <1>1, FindItem DEF task_buffer_submit
<1>4. /\ list_item' \in Seq(Item) /\ Len(list_item') = Len(list_item)
      /\ \A i \in DOMAIN list_item : list_item'[i].type = list_item[i].type
  <2>1. ASSUME NEW l \in Seq(Item), NEW i \in DOMAIN l, NEW b \in BOOLEAN
        PROVE  LET k == [l EXCEPT ![i].is_active = b]
               IN  /\ k \in Seq(Item) /\ Len(k) = Len(l)
                   /\ \A j \in DOMAIN l : k[j].type = l[j].type
    <3>0. l[i] \in Item
      OBVIOUS
    <3>1. [l[i] EXCEPT !.is_active = b] \in Item /\ [l[i] EXCEPT !.is_active = b].type = l[i].type
      BY <3>0 DEF Item
    <3> DEFINE k == [l EXCEPT ![i] = [l[i] EXCEPT !.is_active = b]]
    <3>2. k \in Seq(Item) /\ Len(k) = Len(l) /\ \A j \in DOMAIN l : k[j].type = l[j].type
      BY <3>1
    <3> QED
      BY <3>2
  <2>2. PICK i \in DOMAIN list_item, j \in DOMAIN list_item :
           \/ list_item' = [list_item EXCEPT ![i].is_active = FALSE]
           \/ list_item' = [[list_item EXCEPT ![i].is_active = FALSE] EXCEPT ![j].is_active = TRUE]
    BY <1>3
  <2> DEFINE k == [list_item EXCEPT ![i].is_active = FALSE]
  <2>3. k \in Seq(Item) /\ Len(k) = Len(list_item)
        /\ \A n \in DOMAIN list_item : k[n].type = list_item[n].type
    BY <1>1, <2>1
  <2>4. j \in DOMAIN k /\ DOMAIN k = DOMAIN list_item
    BY <1>1, <2>3
  <2> HIDE DEF k
  <2>5. LET h == [k EXCEPT ![j].is_active = TRUE]
        IN  h \in Seq(Item) /\ Len(h) = Len(k) /\ \A n \in DOMAIN k : h[n].type = k[n].type
    BY <2>1, <2>3, <2>4
  <2> QED
    BY <2>2, <2>3, <2>4, <2>5 DEF k
<1>5. Chain' \in Chains
  BY <1>1, <1>2, <1>4 DEF Chains, Chain
<1>6. Draws(Chain', pipe)
  BY <1>1, <1>2, <1>4 DEF Draws, Chain
<1> QED
  BY <1>1, <1>2, <1>5, <1>6 DEF Inv, Drawn

\* aml_buf_free drops the last reference.
LEMMA InvFree ==
    ASSUME Inv, aml_buf_free
    PROVE  Inv'
<1> DEFINE c == task_chain_clean(Chain)
<1>1. Chain \in Chains /\ Draws(Chain, pipe) /\ ~freed /\ ~needDec
  BY DEF Inv, Drawn, aml_buf_free
<1>2. c.ref = 1 /\ c.items = <<>>
  <2>1. c \in Chains /\ Draws(c, <<>>)
    BY <1>1, CleanDraws
  <2>2. c.items \in Seq(Item) /\ Len(c.items) = 0 /\ c.ref = 1
    BY <2>1 DEF Draws, Chains
  <2> QED
    BY <2>2
<1>3. /\ ref' = 0 /\ list_item' = <<>> /\ freed' = TRUE /\ cur_type' = NoType
      /\ map' = [s \in {0, 1} |-> [t \in TypeSlots |-> "DEC"]]
      /\ pipe' = <<>> /\ needDec' = needDec
  <2>1. c.ref - 1 = 0
    BY <1>2
  <2>2. freed' = (c.ref - 1 = 0)
    BY DEF aml_buf_free
  <2>3. freed' = TRUE
    BY <2>1, <2>2, Zenon
  <2> HIDE DEF c
  <2> QED
    BY <1>2, <2>1, <2>3 DEF aml_buf_free, c
<1>4. Chain' \in Chains
  BY <1>3 DEF Chain, Chains, TypeSlots, TaskTypes
<1> QED
  BY <1>1, <1>3, <1>4 DEF Inv, Distinct

\* Every step keeps the invariant.
LEMMA InvNext == Inv /\ [Next]_vars => Inv'
<1> SUFFICES ASSUME Inv, [Next]_vars PROVE Inv'
  OBVIOUS
<1>1. CASE \E ctx \in Ctxs : \E user \in Requesters(ctx) : aml_buf_prepare(ctx, user)
  BY <1>1, InvPrepare
<1>2. CASE DecAttach
  BY <1>2, InvDecAttach
<1>3. CASE \E type \in Submitters : task_buffer_submit(type)
  BY <1>3, InvSubmit
<1>4. CASE aml_buf_free
  BY <1>4, InvFree
<1>5. CASE UNCHANGED vars
  BY <1>5 DEF vars, Inv, Chain, Drawn
<1> QED
  BY <1>1, <1>2, <1>3, <1>4, <1>5 DEF Next

\* The chain draws the pipeline of its generation, in every reachable state.
THEOREM Invariance == Spec => []Inv
<1>1. Init => Inv
  BY InvInit
<1>2. Inv /\ [Next]_vars => Inv'
  BY InvNext
<1> QED
  BY <1>1, <1>2, PTL DEF Spec

-----------------------------------------------------------------------------
(* The properties *)

\* A chain has one reference of its own and one per item, whatever sequence of
\* pipelines, attaches and frees it went through.
THEOREM RefsCountItems == Spec => []RefCountsItems
<1>1. Inv => RefCountsItems
  BY DEF Inv, RefCountsItems, Draws, Chain
<1> QED
  BY <1>1, Invariance, PTL

\* Asked by a user of the pipeline for its neighbour, the chain names the one
\* the pipeline draws, although clean leaves the links of all earlier
\* pipelines in the map.
THEOREM LinksAreFollowed == Spec => []LinksFollowPipeline
<1>1. Inv => LinksFollowPipeline
  <2> SUFFICES ASSUME Inv, ~freed, ~needDec
               PROVE  /\ Len(list_item) = Len(pipe)
                      /\ \A i \in DOMAIN pipe : list_item[i].type = pipe[i]
                      /\ \A i \in 1..(Len(pipe) - 1) :
                            /\ get_next_user(pipe[i]) = pipe[i + 1]
                            /\ get_pre_user(pipe[i + 1]) = pipe[i]
    BY DEF LinksFollowPipeline
  <2>1. Draws(Chain, pipe) /\ list_item \in Seq(Item) /\ pipe \in Seq(TaskTypes)
    BY DEF Inv, Drawn, Chain, Chains
  <2>2. /\ Len(list_item) = Len(pipe)
        /\ \A i \in DOMAIN pipe : list_item[i].type = pipe[i]
        /\ \A i \in 1..(Len(pipe) - 1) : map[0][pipe[i]] = pipe[i + 1] /\ map[1][pipe[i + 1]] = pipe[i]
    BY <2>1 DEF Draws, Chain
  <2>3. \A i \in 1..Len(pipe) : Positions(list_item, pipe[i]) # {}
    BY <2>1, <2>2 DEF Positions
  <2>4. ASSUME NEW i \in 1..(Len(pipe) - 1)
        PROVE  get_next_user(pipe[i]) = pipe[i + 1] /\ get_pre_user(pipe[i + 1]) = pipe[i]
    <3>1. Positions(list_item, pipe[i]) # {} /\ Positions(list_item, pipe[i + 1]) # {}
      BY <2>1, <2>3
    <3> QED
      BY <2>2, <3>1 DEF get_next_user, get_pre_user, Neighbour
  <2> QED
    BY <2>2, <2>4
<1> QED
  BY <1>1, Invariance, PTL
=============================================================================
