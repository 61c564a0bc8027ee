----------------------------- MODULE MC_BufCore -----------------------------
EXTENDS BufCoreImpl

\* Pipelines of aml_creat_pipeline, by the post processors the context owns.
CtxSink   == [avbc |-> FALSE, ge2d |-> FALSE, vpp |-> FALSE, is_prog |-> FALSE]
CtxVppI   == [CtxSink EXCEPT !.vpp = TRUE]
CtxGe2d   == [CtxSink EXCEPT !.ge2d = TRUE]
=============================================================================
