-------------------------- MODULE MCCommitReadings --------------------------
EXTENDS CommitReadings, TLC

CONSTANTS a, b, check, diff

MCRepoOf == (a :> "A") @@ (b :> "B")

\* A check reads both at a ref, which one repository may not have; a diff both
\* working trees, and one again at that ref.
MCSides ==
    (check :> <<[ref |-> "head", of |-> <<a, b>>], [ref |-> "head", of |-> <<>>]>>)
    @@ (diff :> <<[ref |-> Tree, of |-> <<a, b>>], [ref |-> "head", of |-> <<b>>]>>)

At(repo, n) == [repo |-> repo, n |-> n]

MCFirstRefs ==
    {("A" :> ("head" :> At("A", 0))) @@ ("B" :> ("head" :> x)) : x \in {At("B", 0), NoCommit}}

Left(s) ==
    [dir |-> TRUE,
     graph |-> [service |-> s, commit |-> At(MCRepoOf[s], 0), packages |-> 0, ours |-> FALSE],
     meta |-> [service |-> s, missing |-> TRUE, ours |-> FALSE]]

MCFirstEntries == {[c \in Commits |-> IF c = At("B", 0) THEN Left(b) ELSE NoEntry]}

\* Both services in one repository, which has the ref, and nothing cached.
OneRepo == (a :> "A") @@ (b :> "A")
OneFirstRefs == {"A" :> ("head" :> At("A", 0))}
NoEntries == {[c \in Commits |-> NoEntry]}
=============================================================================
