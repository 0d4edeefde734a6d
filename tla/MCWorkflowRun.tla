---------------------------- MODULE MCWorkflowRun ----------------------------
EXTENDS WorkflowRun, TLC
CONSTANTS w1, w2
WorkerSymmetry == Permutations(Workers)
=============================================================================
