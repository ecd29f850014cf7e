----------------------------- MODULE MCCatalog -----------------------------
EXTENDS Catalog, TLC

CONSTANTS s1, m1, m2, a, b, x, y

\* One server has every tool, and each contract its own meaning.
OneServer == [m \in Members |-> s1]
Meaning   == [c \in {a, b} |-> c]

\* Contracts differ in name only, and so do answers.
Sym       == Permutations({a, b})
SymGuides == Permutations({x, y})
=============================================================================
