----------------------------- MODULE MC_VdecCore ----------------------------
(* Small instances of VdecCore. *)
EXTENDS VdecCore, TLC

CONSTANTS a, b

None == [drv |-> "none", stream |-> FALSE, bufs |-> 1, closes |-> FALSE, hangs |-> FALSE]
Hevc == [None EXCEPT !.drv = "hevc"]
H264 == [None EXCEPT !.drv = "h264"]
FrontBack == [None EXCEPT !.drv = "fb", !.bufs = 2]
Closes(k) == [k EXCEPT !.closes = TRUE]
Hangs(k) == [k EXCEPT !.closes = TRUE, !.hangs = TRUE]
Streams(k) == [k EXCEPT !.stream = TRUE]

SameCore == a :> Hangs(Hevc) @@ b :> Streams(Hevc)
TwoSides == a :> Hangs(FrontBack) @@ b :> None
Combined == a :> Closes(H264) @@ b :> Hevc
AllSetups == {SameCore, TwoSides, Combined}

\* For liveness
LiveSetups == {a :> Hevc @@ b :> Streams(Hevc), a :> FrontBack @@ b :> None,
               a :> Hangs(Hevc) @@ b :> None}

\* A hung instance is released while another one waits for its core
ForcedSetups == {a :> Hangs(Hevc) @@ b :> Hevc}
=============================================================================
