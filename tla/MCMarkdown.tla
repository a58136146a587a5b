------------------------------ MODULE MCMarkdown ------------------------------
EXTENDS Markdown, TLC

CONSTANTS w1, w2, w3, s1, s2, c1, c2

Symmetric == Permutations(Workflows) \cup Permutations(Screens) \cup Permutations(Calls)
=============================================================================
