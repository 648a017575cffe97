----------------------------- MODULE MCWorkflow -----------------------------
\* A small instance of the workflow registry for TLC.
EXTENDS Workflow, TLC

Symmetry == Permutations(Keys)
=============================================================================
