---------------------------- MODULE MC_StreamIn -----------------------------
(* A small instance of StreamIn. *)
EXTENDS StreamIn

CONSTANTS b1, b2, b3

\* The check-ins whose offset takes the blocks of the write thread into account
ExactKinds == {<<"parser", "tstamp">>, <<"parser", "us64">>, <<"ring", "us64">>}
AllKinds == {"ring", "parser"} \X {"tstamp", "us64"}
=============================================================================
