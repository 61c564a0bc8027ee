---------------------------- MODULE MC_PtsServer ----------------------------
(* Small instances of PtsServer. *)
EXTENDS PtsServer, TLC

CONSTANTS c1, c2, c3

User(k, id, opens, n, m) ==
    [kind |-> k, id |-> id, ioctl |-> k = "player", opens |-> opens, ins |-> n, outs |-> m]
Nobody == User("none", -1, 0, 0, 0)

\* A V4L2 decoder; a player that also releases by ioctl; the demultiplexer, its audio
\* side and the audio side of another program
Stream == c1 :> User("v4l", -1, 1, 4, 3) @@ c2 :> Nobody @@ c3 :> Nobody
Player == c1 :> User("player", -1, 1, 3, 1) @@ c2 :> Nobody @@ c3 :> Nobody
Audio == c1 :> User("demux", 5, 1, 2, 0) @@ c2 :> User("audio", 5, 1, 0, 1)
         @@ c3 :> User("audio", 6, 1, 0, 1)
AllSetups == {Stream, Player, Audio}

MCFrames == {[size |-> 3, step |-> 2], [size |-> 4, step |-> 3]}
MCStarts == {[base |-> 0, align |-> 1], [base |-> 9, align |-> 0]}
MCWildIn == {[size |-> 5, pts |-> 2, isOffset |-> FALSE], [size |-> 5, pts |-> 0, isOffset |-> FALSE],
             [size |-> 12, pts |-> 9, isOffset |-> TRUE]}

\* The hypotheses of the theorems
ASSUME Hypotheses == Serial /\ Room
=============================================================================
