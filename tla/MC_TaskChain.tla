---------------------------- MODULE MC_TaskChain ----------------------------
EXTENDS TaskChain

\* Every combination of post processors a context can own.
AllCtxs == Contexts
=============================================================================
