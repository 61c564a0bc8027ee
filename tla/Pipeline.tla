------------------------------ MODULE Pipeline ------------------------------
(***************************************************************************)
(* The users of a decoded buffer and the order in which one buffer visits  *)
(* them (amvdec_ports/aml_vcodec_dec.c, aml_creat_pipeline).  A buffer     *)
(* starts at the user that took it from the free queue and is handed       *)
(* downstream by task->submit until it reaches the V4L2 sink or a post     *)
(* processor that consumes it.                                             *)
(***************************************************************************)
EXTENDS Naturals, Sequences

\* enum task_type_e without its end marker.  The buffer users of
\* enum buf_core_user map one to one onto these (user_to_task); BUF_USER_DI
\* has no task type because the DI manager is not an item of the chain.
TaskTypes == {"DEC", "VPP", "GE2D", "AVBCD", "SINK"}

\* TASK_TYPE_MAX / BUF_USER_MAX: no user.
NoType == "MAX"

\* The post processors a V4L2 context may own; is_prog is ctx->vpp->is_prog.
Contexts == [avbc : BOOLEAN, ge2d : BOOLEAN, vpp : BOOLEAN, is_prog : BOOLEAN]

\* Users that call aml_buf_get, and so own a pipeline of their own.
Requesters(ctx) ==
    {"DEC"} \cup (IF ctx.ge2d THEN {"GE2D"} ELSE {})
            \cup (IF ctx.vpp /\ ~ctx.is_prog THEN {"VPP"} ELSE {})
            \cup (IF ctx.avbc THEN {"AVBCD"} ELSE {})

\* The attach calls of aml_creat_pipeline, in call order: the most downstream
\* item is attached first.
aml_creat_pipeline(ctx, requester) ==
    LET toVpp == IF ctx.is_prog THEN <<"SINK", "VPP">> ELSE <<"VPP">>
    IN  CASE requester = "DEC" ->
               IF ctx.avbc THEN <<"AVBCD">>
               ELSE IF ctx.ge2d THEN <<"GE2D">>
               ELSE IF ctx.vpp THEN toVpp
               ELSE <<"SINK">>
          [] requester = "GE2D" ->
               Append(IF ctx.vpp THEN toVpp ELSE <<"SINK">>, "GE2D")
          [] requester = "VPP"   -> <<"SINK", "VPP">>
          [] requester = "AVBCD" -> <<"SINK", "AVBCD">>

\* The users such a buffer visits, source first: what the attach calls amount
\* to once the decoder has attached itself (TaskChain!LinksFollowPipeline).
Route(ctx, requester) ==
    LET ViaVpp == IF ~ctx.vpp THEN <<requester, "SINK">>
                  ELSE IF ctx.is_prog THEN <<requester, "VPP", "SINK">>
                  ELSE <<requester, "VPP">>
    IN  CASE requester = "DEC" ->
               IF ctx.avbc THEN <<"DEC", "AVBCD">>
               ELSE IF ctx.ge2d THEN <<"DEC", "GE2D">> ELSE ViaVpp
          [] requester = "GE2D" -> ViaVpp
          [] OTHER -> <<requester, "SINK">>
=============================================================================
