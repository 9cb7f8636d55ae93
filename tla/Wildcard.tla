------------------------------- MODULE Wildcard -------------------------------
(***************************************************************************)
(* Wildcard matching (internal/utils/utils.go).  A string is a sequence of *)
(* code points; '*' stands for any sequence, '?' for any one character.    *)
(***************************************************************************)
EXTENDS Integers, Sequences, FiniteSets

Text == Seq(Nat)
Star == 42
Question == 63

\* Mutant: '*' must stand for at least one character.
WildcardPlus(s, p) ==
    LET lookup[c \in (0..Len(s)) \X (0..Len(p))] ==
          LET i == c[1]  j == c[2] IN
          IF j = 0 THEN i = 0
          ELSE IF p[j] = Star THEN i > 0 /\ (lookup[<<i - 1, j - 1>>] \/ lookup[<<i - 1, j>>])
          ELSE i > 0 /\ p[j] \in {Question, s[i]} /\ lookup[<<i - 1, j - 1>>]
    IN  lookup[<<Len(s), Len(p)>>]

\* lookup[<<i, j>>]: the first i characters match the first j of the pattern.
WildcardPatternMatch(s, p) ==
    LET lookup[c \in (0..Len(s)) \X (0..Len(p))] ==
          LET i == c[1]  j == c[2] IN
          IF j = 0 THEN i = 0
          ELSE IF p[j] = Star THEN lookup[<<i, j - 1>>] \/ (i > 0 /\ lookup[<<i - 1, j>>])
          ELSE i > 0 /\ p[j] \in {Question, s[i]} /\ lookup[<<i - 1, j - 1>>]
    IN  lookup[<<Len(s), Len(p)>>]

\* What matching means: the string can be cut into one piece per pattern
\* character, a single character wherever the pattern has no '*'.
Matches(s, p) ==
    \E cut \in [0..Len(p) -> 0..Len(s)] :
        /\ cut[0] = 0
        /\ cut[Len(p)] = Len(s)
        /\ \A j \in 1..Len(p) :
             IF p[j] = Star THEN cut[j] >= cut[j - 1]
             ELSE cut[j] = cut[j - 1] + 1 /\ p[j] \in {Question, s[cut[j]]}

Wildcards(p) == Cardinality({i \in DOMAIN p : p[i] \in {Star, Question}})
=============================================================================
