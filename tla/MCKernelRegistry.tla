--------------------------- MODULE MCKernelRegistry ---------------------------
\* Instance of KernelRegistry for TLC: a session, its subgraph, and another
\* session.
EXTENDS KernelRegistry, TLC

CONSTANTS session, subgraph, other

MCParent == session :> None @@ subgraph :> session @@ other :> None
=============================================================================
