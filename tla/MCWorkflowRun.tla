---------------------------- MODULE MCWorkflowRun ----------------------------
EXTENDS WorkflowRun, TLC
CONSTANTS a, b

\* a calls something outside (a tool), b is a template fed by a.
MCNode   == {a, b}
MCEdges  == {<<a, b>>}
MCImpure == {a}

OwnerSymmetry == Permutations(Owner)
=============================================================================
