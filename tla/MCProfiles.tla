----------------------------- MODULE MCProfiles -----------------------------
EXTENDS Profiles

CONSTANTS anne, bob

MCUserProfiles == {anne, bob}
Symmetry == Permutations(MCUserProfiles)

\* Services share the stack and nothing else, and no service changes it: one
\* at a time is enough.
Untouched == NewService([p \in Profiles |-> None])
OneService == Cardinality({s \in Services : svc[s] # Untouched}) <= 1
=============================================================================
