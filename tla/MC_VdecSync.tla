----------------------------- MODULE MC_VdecSync ----------------------------
(* Small instances of VdecSync. *)
EXTENDS VdecSync, TLC

CONSTANTS a, b

Driver == [usage |-> "driver", v4l |-> FALSE, nofd |-> FALSE, errs |-> TRUE]
DriverV4l == [Driver EXCEPT !.v4l = TRUE, !.errs = FALSE]
App == [Driver EXCEPT !.usage = "app", !.nofd = TRUE]

\* Two instances that share the only slot
AllSetups == {a :> Driver @@ b :> Driver, a :> DriverV4l @@ b :> Driver, a :> App @@ b :> Driver}
=============================================================================
