----------------------------- MODULE MCAppPlans -----------------------------
\* An app two versions of which are older than the catalog's, and one more setting.
EXTENDS AppPlans, TLC
CONSTANTS t1, t2
Symmetry == Permutations(Tabs)

MCInputs == {[img |-> 2, rev |-> 0]}
=============================================================================
