--------------------------- MODULE DecisionProofs ---------------------------
(***************************************************************************)
(* Proofs about the DNS decision chain, the rules engine, the time spans   *)
(* and the wildcards, for any configurations, policy data and questions.   *)
(***************************************************************************)
EXTENDS DNSDecision, FiniteSetTheorems, TLAPS

-----------------------------------------------------------------------------
(* Least elements.  The proofs below that need an induction take a least   *)
(* counterexample.                                                         *)

LEMMA LeastNat ==
    ASSUME NEW T \in SUBSET Nat, T # {}
    PROVE  \E x \in T : \A y \in T : x <= y
  <1> DEFINE less == {ss \in Nat \X Nat : ss[1] < ss[2]}
  <1>1. OpToRel(<, Nat) = less
    BY Zenon DEF OpToRel
  <1>2. IsWellFoundedOn(less, Nat)
    BY <1>1, NatLessThanWellFounded, Zenon
  <1>3. \E x \in T : \A y \in T : <<y, x>> \notin less
    BY <1>2, WFMin, Zenon
  <1>4. \E x \in T : \A y \in T : ~(y < x)
    BY <1>3
  <1> QED
    BY <1>4

LEMMA MinIsLeast ==
    ASSUME NEW T \in SUBSET Nat, T # {}
    PROVE  Min(T) \in T /\ \A y \in T : Min(T) <= y
  BY LeastNat DEF Min

-----------------------------------------------------------------------------
(* Wildcards.  The table of WildcardPatternMatch is defined by recursion:  *)
(* first that there is such a table, then that its entries say which       *)
(* prefixes match.                                                         *)

\* One entry of the table, from the entries before it.
Cell(table, s, p, i, j) ==
    IF j = 0 THEN i = 0
    ELSE IF p[j] = Star THEN table[<<i, j - 1>>] \/ (i > 0 /\ table[<<i - 1, j>>])
    ELSE i > 0 /\ p[j] \in {Question, s[i]} /\ table[<<i - 1, j - 1>>]

\* The first i characters can be cut into pieces for the first j of the
\* pattern.
PrefixMatches(s, p, i, j) ==
    \E cut \in [0..j -> 0..Len(s)] :
        /\ cut[0] = 0
        /\ cut[j] = i
        /\ \A k \in 1..j :
             IF p[k] = Star THEN cut[k] >= cut[k - 1]
             ELSE cut[k] = cut[k - 1] + 1 /\ p[k] \in {Question, s[cut[k]]}

\* A table exists: applying Cell to every entry makes one more diagonal right.
LEMMA TableExists ==
    ASSUME NEW s \in Text, NEW p \in Text
    PROVE  \E f : f = [c \in (0..Len(s)) \X (0..Len(p)) |-> Cell(f, s, p, c[1], c[2])]
  <1> DEFINE D == (0..Len(s)) \X (0..Len(p))
             Right(f, n) == \A i \in 0..Len(s), j \in 0..Len(p) :
                               i + j < n => f[<<i, j>>] = Cell(f, s, p, i, j)
             wrong == {n \in Nat : ~\E f \in [D -> BOOLEAN] : Right(f, n)}
  <1>1. Len(s) \in Nat /\ Len(p) \in Nat
    BY DEF Text
  <1>2. wrong = {}
    <2> SUFFICES ASSUME wrong # {} PROVE FALSE
      OBVIOUS
    <2>1. PICK n \in wrong : \A m \in wrong : n <= m
      BY LeastNat
    <2>2. n # 0
      <3>1. \A i \in 0..Len(s), j \in 0..Len(p) : ~(i + j < 0)
        BY <1>1
      <3>2. \E f \in [D -> BOOLEAN] : Right(f, 0)
        <4>1. [x \in D |-> TRUE] \in [D -> BOOLEAN]
          OBVIOUS
        <4> QED BY <3>1, <4>1
      <3> QED BY <2>1, <3>2
    <2>3. PICK f \in [D -> BOOLEAN] : Right(f, n - 1)
      <3>1. n - 1 \in Nat /\ ~(n <= n - 1)
        <4>1. n \in Nat
          OBVIOUS
        <4> HIDE DEF wrong
        <4> QED BY <2>2, <4>1
      <3>2. n - 1 \notin wrong
        BY <2>1, <3>1
      <3> QED BY <3>1, <3>2
    <2> DEFINE g == [c \in (0..Len(s)) \X (0..Len(p)) |-> Cell(f, s, p, c[1], c[2])]
    <2>4. \A i \in 0..Len(s), j \in 0..Len(p) : Cell(f, s, p, i, j) \in BOOLEAN
      BY DEF Cell
    <2>5. g \in [D -> BOOLEAN]
      BY <2>4
    <2>6. \A i \in 0..Len(s), j \in 0..Len(p) : g[<<i, j>>] = Cell(f, s, p, i, j)
      OBVIOUS
    <2> HIDE DEF g
    <2>7. \A i \in 0..Len(s), j \in 0..Len(p) : i + j < n - 1 => g[<<i, j>>] = f[<<i, j>>]
      BY <2>3, <2>6
    <2>8. ASSUME NEW i \in 0..Len(s), NEW j \in 0..Len(p), i + j < n
          PROVE  g[<<i, j>>] = Cell(g, s, p, i, j)
      <3>1. j > 0 => j - 1 \in 0..Len(p) /\ i + (j - 1) < n - 1
        BY <1>1, <2>1, <2>8
      <3>2. i > 0 => i - 1 \in 0..Len(s) /\ (i - 1) + j < n - 1
        BY <1>1, <2>1, <2>8
      <3>3. i > 0 /\ j > 0 => (i - 1) + (j - 1) < n - 1
        BY <1>1, <2>1, <2>8
      <3>4. j > 0 => g[<<i, j - 1>>] = f[<<i, j - 1>>]
        BY <2>7, <3>1
      <3>5. i > 0 => g[<<i - 1, j>>] = f[<<i - 1, j>>]
        BY <2>7, <3>2
      <3>6. i > 0 /\ j > 0 => g[<<i - 1, j - 1>>] = f[<<i - 1, j - 1>>]
        BY <2>7, <3>1, <3>2, <3>3
      <3>7. j = 0 \/ j > 0
        BY <1>1
      <3> QED
        BY <2>6, <3>4, <3>5, <3>6, <3>7 DEF Cell
    <2>9. Right(g, n)
      BY <2>8
    <2> QED
      BY <2>1, <2>5, <2>9
  <1>3. PICK f \in [D -> BOOLEAN] : Right(f, Len(s) + Len(p) + 1)
    <2> DEFINE n == Len(s) + Len(p) + 1
    <2>1. n \in Nat
      BY <1>1
    <2> HIDE DEF n
    <2>2. \E f \in [D -> BOOLEAN] : Right(f, n)
      <3> HIDE DEF Right, D
      <3> QED BY <1>2, <2>1
    <2> QED BY <2>2 DEF n
  <1>4. \A i \in 0..Len(s), j \in 0..Len(p) : f[<<i, j>>] = Cell(f, s, p, i, j)
    <2>1. \A i \in 0..Len(s), j \in 0..Len(p) : i + j < Len(s) + Len(p) + 1
      BY <1>1
    <2> QED BY <1>3, <2>1
  <1>5. f = [c \in (0..Len(s)) \X (0..Len(p)) |-> Cell(f, s, p, c[1], c[2])]
    BY <1>3, <1>4
  <1> QED
    BY <1>5

\* So the table that WildcardPatternMatch fills is one.
LEMMA TableFilled ==
    ASSUME NEW s \in Text, NEW p \in Text
    PROVE  \E f : /\ \A i \in 0..Len(s), j \in 0..Len(p) : f[<<i, j>>] = Cell(f, s, p, i, j)
                  /\ WildcardPatternMatch(s, p) = f[<<Len(s), Len(p)>>]
  <1> DEFINE lookup == CHOOSE f : f = [c \in (0..Len(s)) \X (0..Len(p)) |-> Cell(f, s, p, c[1], c[2])]
  <1>1. lookup = [c \in (0..Len(s)) \X (0..Len(p)) |-> Cell(lookup, s, p, c[1], c[2])]
    BY TableExists
  <1>2. WildcardPatternMatch(s, p) = lookup[<<Len(s), Len(p)>>]
    BY DEF WildcardPatternMatch, Cell
  <1> HIDE DEF lookup
  <1>3. \A i \in 0..Len(s), j \in 0..Len(p) : lookup[<<i, j>>] = Cell(lookup, s, p, i, j)
    BY <1>1
  <1> QED
    BY <1>2, <1>3

\* Prefixes match by the rule of the table.
LEMMA PrefixStep ==
    ASSUME NEW s \in Text, NEW p \in Text, NEW i \in 0..Len(s), NEW j \in 0..Len(p)
    PROVE  PrefixMatches(s, p, i, j) <=>
             IF j = 0 THEN i = 0
             ELSE IF p[j] = Star
             THEN PrefixMatches(s, p, i, j - 1) \/ (i > 0 /\ PrefixMatches(s, p, i - 1, j))
             ELSE i > 0 /\ p[j] \in {Question, s[i]} /\ PrefixMatches(s, p, i - 1, j - 1)
  <1> DEFINE Cuts(cut, k) ==
                IF p[k] = Star THEN cut[k] >= cut[k - 1]
                ELSE cut[k] = cut[k - 1] + 1 /\ p[k] \in {Question, s[cut[k]]}
             Way(cut, m, n) == cut[0] = 0 /\ cut[n] = m /\ \A k \in 1..n : Cuts(cut, k)
  <1>0. Len(s) \in Nat /\ Len(p) \in Nat /\ i \in Nat /\ j \in Nat
    BY DEF Text
  <1>1. \A m, n : PrefixMatches(s, p, m, n) <=> \E cut \in [0..n -> 0..Len(s)] : Way(cut, m, n)
    BY DEF PrefixMatches
  <1>2. CASE j = 0
    <2>1. i = 0 => Way([k \in 0..0 |-> 0], i, 0) /\ [k \in 0..0 |-> 0] \in [0..0 -> 0..Len(s)]
      BY <1>0
    <2>2. ASSUME NEW cut \in [0..0 -> 0..Len(s)], Way(cut, i, 0) PROVE i = 0
      BY <2>2
    <2> QED
      BY <1>1, <1>2, <2>1, <2>2
  <1>3. ASSUME NEW cut \in [0..j -> 0..Len(s)], Way(cut, i, j), j # 0
        PROVE  /\ cut[j - 1] \in 0..Len(s) /\ cut[j] = i /\ Cuts(cut, j)
               /\ \A m \in 0..Len(s) : m = cut[j - 1] => PrefixMatches(s, p, m, j - 1)
               /\ \A m \in 0..Len(s) : m >= cut[j - 1] /\ p[j] = Star => PrefixMatches(s, p, m, j)
    <2>1. j - 1 \in 0..j /\ j \in 1..j /\ cut[j - 1] \in 0..Len(s) /\ cut[j] = i /\ Cuts(cut, j)
      BY <1>0, <1>3
    <2>2. PrefixMatches(s, p, cut[j - 1], j - 1)
      <3> DEFINE c == [k \in 0..(j - 1) |-> cut[k]]
      <3>1. c \in [0..(j - 1) -> 0..Len(s)]
        BY <1>0, <1>3
      <3>2. c[0] = 0 /\ c[j - 1] = cut[j - 1]
        BY <1>0, <1>3
      <3>3. \A k \in 1..(j - 1) : c[k] = cut[k] /\ c[k - 1] = cut[k - 1] /\ k \in 1..j
        BY <1>0, <1>3
      <3>4. \A k \in 1..(j - 1) : Cuts(c, k)
        BY <1>3, <3>3
      <3> HIDE DEF c, Cuts
      <3>5. Way(c, cut[j - 1], j - 1)
        BY <3>2, <3>4
      <3> HIDE DEF Way
      <3> QED
        BY <1>1, <2>1, <3>1, <3>5
    <2>3. ASSUME NEW m \in 0..Len(s), m >= cut[j - 1], p[j] = Star PROVE PrefixMatches(s, p, m, j)
      <3> DEFINE c == [k \in 0..j |-> IF k = j THEN m ELSE cut[k]]
      <3>1. c \in [0..j -> 0..Len(s)]
        BY <1>0, <1>3
      <3>2. c[0] = 0 /\ c[j] = m /\ c[j - 1] = cut[j - 1]
        BY <1>0, <1>3
      <3>3. \A k \in 1..(j - 1) : c[k] = cut[k] /\ c[k - 1] = cut[k - 1] /\ k \in 1..j
        BY <1>0, <1>3
      <3>4. \A k \in 1..(j - 1) : Cuts(c, k)
        BY <1>3, <3>3
      <3>5. Cuts(c, j)
        BY <2>3, <3>2
      <3>6. \A k \in 1..j : k = j \/ k \in 1..(j - 1)
        BY <1>0
      <3> HIDE DEF c, Cuts
      <3>7. Way(c, m, j)
        BY <3>2, <3>4, <3>5, <3>6
      <3> HIDE DEF Way
      <3> QED
        BY <1>1, <3>1, <3>7
    <2> QED
      BY <2>1, <2>2, <2>3
  <1>4. ASSUME j # 0, NEW m \in 0..Len(s), PrefixMatches(s, p, m, j - 1),
               IF p[j] = Star THEN i >= m ELSE i = m + 1 /\ p[j] \in {Question, s[i]}
        PROVE  PrefixMatches(s, p, i, j)
    <2>1. PICK cut \in [0..(j - 1) -> 0..Len(s)] : Way(cut, m, j - 1)
      <3> HIDE DEF Way
      <3> QED BY <1>1, <1>4
    <2> DEFINE c == [k \in 0..j |-> IF k = j THEN i ELSE cut[k]]
    <2>2. c \in [0..j -> 0..Len(s)]
      BY <1>0, <1>4
    <2>3. c[0] = 0 /\ c[j] = i /\ c[j - 1] = m
      BY <1>0, <1>4, <2>1
    <2>4. \A k \in 1..(j - 1) : c[k] = cut[k] /\ c[k - 1] = cut[k - 1]
      BY <1>0, <1>4
    <2>5. \A k \in 1..(j - 1) : Cuts(c, k)
      BY <2>1, <2>4
    <2>6. Cuts(c, j)
      BY <1>4, <2>3
    <2>7. \A k \in 1..j : k = j \/ k \in 1..(j - 1)
      BY <1>0
    <2> HIDE DEF c, Cuts
    <2>8. Way(c, i, j)
      BY <2>3, <2>5, <2>6, <2>7
    <2> HIDE DEF Way
    <2> QED
      BY <1>1, <2>2, <2>8
  <1>5. CASE j # 0 /\ p[j] = Star
    <2>1. ASSUME PrefixMatches(s, p, i, j)
          PROVE  PrefixMatches(s, p, i, j - 1) \/ (i > 0 /\ PrefixMatches(s, p, i - 1, j))
      <3>1. PICK cut \in [0..j -> 0..Len(s)] : Way(cut, i, j)
        <4> HIDE DEF Way
        <4> QED BY <1>1, <2>1
      <3>2. cut[j - 1] \in 0..Len(s) /\ i >= cut[j - 1]
        BY <1>3, <1>5, <3>1
      <3>3. CASE cut[j - 1] = i
        BY <1>3, <1>5, <3>1, <3>3
      <3>4. CASE cut[j - 1] # i
        <4>1. i > 0 /\ i - 1 \in 0..Len(s) /\ i - 1 >= cut[j - 1]
          BY <1>0, <3>2, <3>4
        <4> QED BY <1>3, <1>5, <3>1, <4>1
      <3> QED BY <3>3, <3>4
    <2>2. ASSUME PrefixMatches(s, p, i, j - 1) PROVE PrefixMatches(s, p, i, j)
      <3>1. i >= i
        BY <1>0
      <3> QED BY <1>4, <1>5, <2>2, <3>1
    <2>3. ASSUME i > 0, PrefixMatches(s, p, i - 1, j) PROVE PrefixMatches(s, p, i, j)
      <3>1. PICK cut \in [0..j -> 0..Len(s)] : Way(cut, i - 1, j)
        <4> HIDE DEF Way
        <4> QED BY <1>1, <2>3
      <3> DEFINE c == [k \in 0..j |-> IF k = j THEN i ELSE cut[k]]
      <3>2. c \in [0..j -> 0..Len(s)]
        BY <1>0
      <3>3. j - 1 \in 0..j /\ j \in 1..j /\ cut[j - 1] \in 0..Len(s)
        BY <1>0, <1>5
      <3>4. Cuts(cut, j) /\ cut[j] = i - 1
        BY <3>1, <3>3
      <3>5. c[0] = 0 /\ c[j] = i /\ c[j - 1] = cut[j - 1] /\ i >= cut[j - 1]
        BY <1>0, <1>5, <3>1, <3>3, <3>4
      <3>6. \A k \in 1..(j - 1) : c[k] = cut[k] /\ c[k - 1] = cut[k - 1] /\ k \in 1..j
        BY <1>0, <1>5
      <3>7. \A k \in 1..(j - 1) : Cuts(c, k)
        BY <3>1, <3>6
      <3>8. Cuts(c, j)
        BY <1>5, <3>5
      <3>9. \A k \in 1..j : k = j \/ k \in 1..(j - 1)
        BY <1>0
      <3> HIDE DEF c, Cuts
      <3>10. Way(c, i, j)
        BY <3>5, <3>7, <3>8, <3>9
      <3> HIDE DEF Way
      <3> QED
        BY <1>1, <3>2, <3>10
    <2> QED
      BY <1>5, <2>1, <2>2, <2>3
  <1>6. CASE j # 0 /\ p[j] # Star
    <2>1. ASSUME PrefixMatches(s, p, i, j)
          PROVE  i > 0 /\ p[j] \in {Question, s[i]} /\ PrefixMatches(s, p, i - 1, j - 1)
      <3>1. PICK cut \in [0..j -> 0..Len(s)] : Way(cut, i, j)
        <4> HIDE DEF Way
        <4> QED BY <1>1, <2>1
      <3>2. /\ cut[j - 1] \in 0..Len(s) /\ i = cut[j - 1] + 1 /\ p[j] \in {Question, s[i]}
            /\ \A m \in 0..Len(s) : m = cut[j - 1] => PrefixMatches(s, p, m, j - 1)
        BY <1>3, <1>6, <3>1
      <3>3. i > 0 /\ i - 1 = cut[j - 1]
        BY <1>0, <3>2
      <3> QED BY <3>2, <3>3
    <2>2. ASSUME i > 0, p[j] \in {Question, s[i]}, PrefixMatches(s, p, i - 1, j - 1)
          PROVE  PrefixMatches(s, p, i, j)
      <3>1. i - 1 \in 0..Len(s) /\ i = (i - 1) + 1
        BY <1>0, <2>2
      <3> QED BY <1>4, <1>6, <2>2, <3>1
    <2> QED
      BY <1>6, <2>1, <2>2
  <1> QED
    BY <1>2, <1>5, <1>6

\* WildcardPatternMatch decides what matching means, for every name and
\* every pattern.
THEOREM WildcardCorrect ==
    ASSUME NEW s \in Text, NEW p \in Text
    PROVE  WildcardPatternMatch(s, p) <=> Matches(s, p)
  <1>1. PICK f : /\ \A i \in 0..Len(s), j \in 0..Len(p) : f[<<i, j>>] = Cell(f, s, p, i, j)
                 /\ WildcardPatternMatch(s, p) = f[<<Len(s), Len(p)>>]
    BY TableFilled
  <1> DEFINE Same(i, j) == f[<<i, j>>] <=> PrefixMatches(s, p, i, j)
             wrong == {n \in Nat : \E i \in 0..Len(s), j \in 0..Len(p) : n = i + j /\ ~Same(i, j)}
  <1>2. Len(s) \in Nat /\ Len(p) \in Nat
    BY DEF Text
  <1>3. wrong = {}
    <2> SUFFICES ASSUME wrong # {} PROVE FALSE
      OBVIOUS
    <2>1. PICK n \in wrong : \A m \in wrong : n <= m
      BY LeastNat
    <2>2. PICK i \in 0..Len(s), j \in 0..Len(p) : n = i + j /\ ~Same(i, j)
      BY <2>1
    <2>3. \A k \in 0..Len(s), l \in 0..Len(p) : k + l < n => Same(k, l)
      <3>1. \A k \in 0..Len(s), l \in 0..Len(p) : k + l \in Nat /\ (k + l < n => ~(n <= k + l))
        BY <1>2, <2>1
      <3> QED BY <2>1, <3>1
    <2>4. j > 0 => j - 1 \in 0..Len(p) /\ i + (j - 1) < n
      BY <1>2, <2>2
    <2>5. i > 0 => i - 1 \in 0..Len(s) /\ (i - 1) + j < n
      BY <1>2, <2>2
    <2>6. i > 0 /\ j > 0 => (i - 1) + (j - 1) < n
      BY <1>2, <2>2
    <2> HIDE DEF wrong
    <2>7. /\ j > 0 => Same(i, j - 1)
          /\ i > 0 => Same(i - 1, j)
          /\ i > 0 /\ j > 0 => Same(i - 1, j - 1)
      BY <2>3, <2>4, <2>5, <2>6
    <2>8. j = 0 \/ j > 0
      BY <1>2
    <2>9. f[<<i, j>>] = Cell(f, s, p, i, j)
      BY <1>1
    <2>10. PrefixMatches(s, p, i, j) <=>
             IF j = 0 THEN i = 0
             ELSE IF p[j] = Star
             THEN PrefixMatches(s, p, i, j - 1) \/ (i > 0 /\ PrefixMatches(s, p, i - 1, j))
             ELSE i > 0 /\ p[j] \in {Question, s[i]} /\ PrefixMatches(s, p, i - 1, j - 1)
      BY PrefixStep
    <2>11. CASE j = 0
      BY <2>2, <2>9, <2>10, <2>11 DEF Cell
    <2>12. CASE j > 0 /\ j # 0 /\ p[j] = Star
      BY <2>2, <2>7, <2>9, <2>10, <2>12 DEF Cell
    <2>13. CASE j > 0 /\ j # 0 /\ p[j] # Star
      BY <2>2, <2>7, <2>9, <2>10, <2>13 DEF Cell
    <2> QED
      BY <2>8, <2>11, <2>12, <2>13
  <1>4. Same(Len(s), Len(p))
    <2>1. Len(s) \in 0..Len(s) /\ Len(p) \in 0..Len(p) /\ Len(s) + Len(p) \in Nat
      BY <1>2
    <2> HIDE DEF Same
    <2> QED BY <1>3, <2>1
  <1>5. PrefixMatches(s, p, Len(s), Len(p)) <=> Matches(s, p)
    BY DEF PrefixMatches, Matches
  <1> QED
    BY <1>1, <1>4, <1>5

-----------------------------------------------------------------------------
(* The chain of decisions.                                                 *)

\* The stages after the rules engine has answered.
Evaluated == {"device", "window", "budget", "rule", "answer", "done"}

Typed == \E k \in DOMAIN Inputs : in \in Inputs[k]

\* The configuration in force is one of the two, and valid.
InForce ==
    /\ engine = config /\ Validate(config)
    /\ \/ config = WithDefaults(in.boot)
       \/ config = WithDefaults(in.file) /\ Validate(WithDefaults(in.file))

\* What the configuration blocks stays blocked; what it answers stands for a
\* client without a user, or with one that does not exist.
BlocksStand ==
    stage \in Evaluated /\ Verdicts \subseteq BlockingActions => action \in BlockingActions
NobodyUnaffected ==
    /\ stage \in Evaluated /\ user \in {NoUser, ZeroUser} => action \in Verdicts
    /\ user \in in.users \cup {NoUser, ZeroUser}

\* The three ways a user's policy blocks.
OutsideWindow ==
    /\ reason = "outside window" /\ action = "BlockedTimeSpan"
    /\ ~InAllowWindow(user) /\ ~charged
BudgetExceeded ==
    /\ reason = "budget exceeded" /\ action = "BlockedTimeSpan"
    /\ user.budget > 0 /\ charged /\ InAllowWindow(user)
PolicyBlock ==
    /\ reason = "policy block" /\ action = "BlockedSiteBan"
    /\ charged /\ InAllowWindow(user)
    /\ \E i \in DOMAIN in.rules :
         /\ in.rules[i].user = user.id /\ in.rules[i].action = "block"
         /\ WildcardPatternMatch(in.domain, in.rules[i].pattern)

\* Or none of them does: the action is that of the rules engine, or a rule of
\* the user opened what was open already.
Unblocked == reason = "none" /\ action \in Verdicts
ChargedIfOpen == charged <=> action \notin BlockingActions

Settled(none) ==
    \/ user = NoUser /\ reason = none /\ action \in Verdicts /\ ~charged
    \/ /\ user # NoUser /\ reason = none /\ action \in Verdicts \cup {"Pass"}
       /\ InAllowWindow(user) /\ ChargedIfOpen
    \/ user # NoUser /\ (OutsideWindow \/ BudgetExceeded \/ PolicyBlock)

\* What is known of the request at each stage.
Reasons ==
    /\ charged \in BOOLEAN
    /\ stage \in {"evaluate", "device"} => user = NoUser /\ reason = "none" /\ ~charged
    /\ stage = "device" => action \in Verdicts
    /\ stage \in {"window", "budget", "rule"} => user # NoUser
    /\ stage = "window" => Unblocked /\ ~charged
    /\ stage = "budget" => (Unblocked /\ InAllowWindow(user) /\ ~charged) \/ OutsideWindow
    /\ stage = "rule" =>
         \/ Unblocked /\ InAllowWindow(user) /\ ChargedIfOpen
         \/ OutsideWindow \/ BudgetExceeded
    /\ stage = "answer" => Settled("none")
    /\ stage = "done" => Settled(IF action \in BlockingActions THEN "config block" ELSE "none")

Inv == Typed /\ InForce /\ BlocksStand /\ NobodyUnaffected /\ Reasons /\ BlockedAnswerIsClosed

\* Neither the verdicts nor the windows change while a request is decided.
LEMMA InputsStay ==
    ASSUME in' = in
    PROVE  Verdicts' = Verdicts /\ (user' = user => (InAllowWindow(user))' = InAllowWindow(user))
  BY DEF Verdicts, InAllowWindow

\* A user who does not exist has no window, no budget and no rule.
LEMMA ZeroUserUntouched ==
    InAllowWindow(ZeroUser) /\ ZeroUser.budget = 0 /\ ~MatchDomainRule(ZeroUser.id).found
  <1>1. ZeroUser.windows = <<>> /\ ZeroUser.budget = 0 /\ ZeroUser.id = ""
    BY DEF ZeroUser
  <1>2. ~MatchDomainRule("").found
    BY DEF MatchDomainRule
  <1> QED
    BY <1>1, <1>2 DEF InAllowWindow

LEMMA UserFound ==
    ASSUME NEW d PROVE UserOf(d) \in in.users \cup {NoUser, ZeroUser}
  BY DEF UserOf

LEMMA VerdictInForce ==
    ASSUME InForce
    PROVE  Evaluate(engine, in.domain, in.client, in.name, in.now).action \in Verdicts
  BY DEF InForce, Verdicts

LEMMA InitInv ==
    Init => Inv
  BY DEF Init, Inv, Typed, InForce, BlocksStand, NobodyUnaffected, Reasons,
         BlockedAnswerIsClosed, Evaluated

\* The rule that decides is one of the user's, and matches.
LEMMA RuleFound ==
    ASSUME Typed, NEW id, MatchDomainRule(id).found
    PROVE  \E i \in DOMAIN in.rules :
             /\ MatchDomainRule(id).rule = in.rules[i] /\ in.rules[i].user = id
             /\ WildcardPatternMatch(in.domain, in.rules[i].pattern)
  <1> DEFINE rules == {i \in DOMAIN in.rules :
                         /\ in.rules[i].user = id /\ id # ""
                         /\ WildcardPatternMatch(in.domain, in.rules[i].pattern)}
             best == {i \in rules : \A j \in rules : Score(in.rules[j]) <= Score(in.rules[i])}
  <1>1. in.rules \in Seq(UserRules)
    BY InputsAssumption DEF Typed
  <1>2. best \in SUBSET Nat
    <2>1. DOMAIN in.rules \subseteq Nat
      BY <1>1
    <2> QED BY <2>1
  <1>3. best # {} /\ MatchDomainRule(id).rule = in.rules[Min(best)]
    BY DEF MatchDomainRule
  <1>4. Min(best) \in best
    BY <1>2, <1>3, MinIsLeast
  <1> QED
    BY <1>3, <1>4

\* Every step keeps the chain of decisions in order.
LEMMA StepInv ==
    ASSUME Inv, [Next]_vars PROVE Inv'
  <1> USE DEF Inv
  <1>1. ASSUME in' = in, UNCHANGED request, UNCHANGED <<engine, config>> \/ ReloadConfig
        PROVE  Inv'
    <2>1. Verdicts' = Verdicts /\ (InAllowWindow(user))' = InAllowWindow(user)
      BY <1>1, InputsStay DEF request
    <2>2. InForce'
      BY <1>1 DEF InForce, ReloadConfig
    <2> QED
      BY <1>1, <2>1, <2>2
      DEF request, Typed, BlocksStand, NobodyUnaffected, Reasons, BlockedAnswerIsClosed, Settled,
          Unblocked, OutsideWindow, BudgetExceeded, PolicyBlock, ChargedIfOpen
  <1>2. ASSUME in' = in, UNCHANGED <<engine, config>> PROVE Typed' /\ InForce' /\ Verdicts' = Verdicts
    BY <1>2, InputsStay DEF Typed, InForce
  <1>3. CASE EvaluateStep
    <2>1. action' \in Verdicts
      BY <1>3, VerdictInForce DEF EvaluateStep
    <2> QED
      BY <1>2, <1>3, <2>1
      DEF EvaluateStep, BlocksStand, NobodyUnaffected, Reasons, BlockedAnswerIsClosed, Evaluated
  <1>4. CASE FindUser
    <2>1. stage' \in {"answer", "window"} /\ (stage' = "answer" <=> user' = NoUser)
      BY <1>4 DEF FindUser
    <2>2. user' \in in.users \cup {NoUser, ZeroUser}
      BY <1>4, UserFound DEF FindUser
    <2>3. /\ stage = "device" /\ action \in Verdicts /\ reason = "none" /\ ~charged
          /\ charged \in BOOLEAN
      BY <1>4 DEF FindUser, Reasons
    <2> QED
      BY <1>2, <1>4, <2>1, <2>2, <2>3
      DEF FindUser, BlocksStand, NobodyUnaffected, Reasons, BlockedAnswerIsClosed, Evaluated,
          Settled, Unblocked
  <1>5. CASE CheckWindow
    <2>1. /\ stage = "window" /\ user # NoUser /\ Unblocked /\ ~charged /\ charged \in BOOLEAN
          /\ stage' = "budget" /\ UNCHANGED <<in, user, charged>>
      BY <1>5 DEF CheckWindow, Reasons
    <2>2. Verdicts' = Verdicts /\ (InAllowWindow(user))' = InAllowWindow(user)
      BY <2>1, InputsStay
    <2>3. CASE InAllowWindow(user)
      <3>1. UNCHANGED <<action, reason>>
        BY <1>5, <2>3 DEF CheckWindow
      <3> QED
        BY <1>2, <1>5, <2>1, <2>2, <2>3, <3>1
        DEF CheckWindow, BlocksStand, NobodyUnaffected, Reasons, BlockedAnswerIsClosed, Evaluated,
            Unblocked
    <2>4. CASE ~InAllowWindow(user)
      <3>1. action' = "BlockedTimeSpan" /\ reason' = "outside window"
        BY <1>5, <2>4 DEF CheckWindow
      <3>2. user # ZeroUser
        BY <2>4, ZeroUserUntouched
      <3>3. OutsideWindow'
        BY <2>1, <2>2, <2>4, <3>1 DEF OutsideWindow
      <3>4. BlocksStand' /\ NobodyUnaffected'
        BY <2>1, <3>1, <3>2 DEF BlocksStand, NobodyUnaffected, BlockingActions
      <3>5. UNCHANGED <<engine, config>>
        BY <1>5 DEF CheckWindow
      <3> QED
        BY <1>2, <2>1, <3>3, <3>4, <3>5 DEF Reasons, BlockedAnswerIsClosed
    <2> QED
      BY <2>3, <2>4
  <1>6. CASE ChargeBudget
    <2>1. /\ stage = "budget" /\ user # NoUser /\ charged \in BOOLEAN
          /\ (Unblocked /\ InAllowWindow(user) /\ ~charged) \/ OutsideWindow
          /\ stage' = "rule" /\ UNCHANGED <<in, user>> /\ charged' = (action \notin BlockingActions)
      BY <1>6 DEF ChargeBudget, Reasons, IsBlocking
    <2>2. Verdicts' = Verdicts /\ (InAllowWindow(user))' = InAllowWindow(user)
      BY <2>1, InputsStay
    <2>3. charged' \in BOOLEAN
      BY <2>1
    <2>4. CASE UNCHANGED <<action, reason>>
      BY <1>2, <1>6, <2>1, <2>2, <2>3, <2>4
      DEF ChargeBudget, BlocksStand, NobodyUnaffected, Reasons, BlockedAnswerIsClosed, Evaluated,
          Unblocked, OutsideWindow, ChargedIfOpen, BlockingActions
    <2>5. CASE /\ ~IsBlocking(action) /\ user.budget > 0
               /\ action' = "BlockedTimeSpan" /\ reason' = "budget exceeded"
      <3>1. user # ZeroUser
        <4>1. ~(ZeroUser.budget > 0)
          BY DEF ZeroUser
        <4> QED BY <2>5, <4>1
      <3>2. InAllowWindow(user)
        BY <2>1, <2>5 DEF OutsideWindow, IsBlocking, BlockingActions
      <3> QED
        BY <1>2, <1>6, <2>1, <2>2, <2>3, <2>5, <3>1, <3>2
        DEF ChargeBudget, BlocksStand, NobodyUnaffected, Reasons, BlockedAnswerIsClosed, Evaluated,
            BudgetExceeded, BlockingActions, IsBlocking
    <2> QED
      BY <1>6, <2>4, <2>5 DEF ChargeBudget
  <1>7. CASE ApplyDomainRule
    <2> DEFINE match == MatchDomainRule(user.id)
    <2>1. /\ stage = "rule" /\ user # NoUser /\ charged \in BOOLEAN
          /\ \/ Unblocked /\ InAllowWindow(user) /\ ChargedIfOpen
             \/ OutsideWindow \/ BudgetExceeded
          /\ stage' = "answer" /\ UNCHANGED <<in, user, charged>>
      BY <1>7 DEF ApplyDomainRule, Reasons
    <2>2. Verdicts' = Verdicts /\ (InAllowWindow(user))' = InAllowWindow(user)
      BY <2>1, InputsStay
    <2>3. CASE ~IsBlocking(action) /\ match.found
      <3>1. /\ action' = IF match.rule.action = "block" THEN "BlockedSiteBan"
                          ELSE IF match.rule.action = "allow" THEN "Pass" ELSE action
            /\ reason' = IF match.rule.action = "block" THEN "policy block" ELSE reason
        BY <1>7, <2>3 DEF ApplyDomainRule, DomainAction
      <3>2. user # ZeroUser
        BY <2>3, ZeroUserUntouched
      <3>3. Unblocked /\ InAllowWindow(user) /\ charged /\ ~(Verdicts \subseteq BlockingActions)
        BY <2>1, <2>3
        DEF OutsideWindow, BudgetExceeded, IsBlocking, BlockingActions, ChargedIfOpen, Unblocked
      <3>4. PICK i \in DOMAIN in.rules :
              /\ match.rule = in.rules[i] /\ in.rules[i].user = user.id
              /\ WildcardPatternMatch(in.domain, in.rules[i].pattern)
        BY <2>3, RuleFound
      <3> HIDE DEF match
      <3>5. Settled("none")'
        <4>1. CASE match.rule.action = "block"
          BY <2>1, <2>2, <3>1, <3>3, <3>4, <4>1 DEF Settled, PolicyBlock
        <4>2. CASE match.rule.action # "block" /\ match.rule.action = "allow"
          BY <2>1, <2>2, <3>1, <3>3, <4>2 DEF Settled, Unblocked, ChargedIfOpen, BlockingActions
        <4>3. CASE match.rule.action # "block" /\ match.rule.action # "allow"
          BY <2>1, <2>2, <2>3, <3>1, <3>3, <4>3
          DEF Settled, Unblocked, ChargedIfOpen, BlockingActions, IsBlocking
        <4> QED BY <4>1, <4>2, <4>3
      <3> QED
        BY <1>2, <1>7, <2>1, <2>2, <3>2, <3>3, <3>5
        DEF ApplyDomainRule, BlocksStand, NobodyUnaffected, Reasons, BlockedAnswerIsClosed, Evaluated
    <2>4. CASE ~(~IsBlocking(action) /\ match.found)
      <3>1. UNCHANGED <<action, reason>>
        BY <1>7, <2>4 DEF ApplyDomainRule
      <3>2. Settled("none")'
        BY <2>1, <2>2, <3>1
        DEF Settled, Unblocked, OutsideWindow, BudgetExceeded, ChargedIfOpen
      <3> QED
        BY <1>2, <1>7, <2>1, <2>2, <3>1, <3>2
        DEF ApplyDomainRule, BlocksStand, NobodyUnaffected, Reasons, BlockedAnswerIsClosed, Evaluated
    <2> QED
      BY <2>3, <2>4
  <1>8. CASE AnswerBlocked
    <2>1. /\ stage = "answer" /\ Settled("none") /\ action \in BlockingActions /\ charged \in BOOLEAN
          /\ stage' = "done" /\ UNCHANGED <<in, user, charged, action>>
          /\ reason' = IF reason = "none" THEN "config block" ELSE reason
      BY <1>8 DEF AnswerBlocked, Reasons, IsBlocking
    <2>2. Verdicts' = Verdicts /\ (InAllowWindow(user))' = InAllowWindow(user)
      BY <2>1, InputsStay
    <2>3. Settled("config block")'
      BY <2>1, <2>2
      DEF Settled, OutsideWindow, BudgetExceeded, PolicyBlock, ChargedIfOpen
    <2>4. reply' \in {"NXDOMAIN", "REFUSED"} \/ ParsesAsIP(reply')
      <3>1. /\ config.strategy \in {"nxdomain", "refuse", "nullroute", "sinkhole"}
            /\ config.strategy \in {"nullroute", "sinkhole"} =>
                 ParsesAsIP(Sinkhole4(config)) /\ ParsesAsIP(Sinkhole6(config))
        BY DEF InForce, Validate, ValidateBlockStrategy
      <3>2. /\ reply' = BlockedResponse(config)
            /\ \A address : ParsesAsIP(address) => address # ""
        BY <1>8 DEF AnswerBlocked, ParsesAsIP
      <3> QED
        BY <3>1, <3>2 DEF BlockedResponse
    <2> QED
      BY <1>2, <1>8, <2>1, <2>2, <2>3, <2>4
      DEF AnswerBlocked, BlocksStand, NobodyUnaffected, Reasons, BlockedAnswerIsClosed, Evaluated
  <1>9. CASE AnswerOpen
    <2>1. /\ stage = "answer" /\ Settled("none") /\ action \notin BlockingActions /\ charged \in BOOLEAN
          /\ stage' = "done" /\ UNCHANGED <<in, user, charged, action, reason>>
      BY <1>9 DEF AnswerOpen, Reasons, IsBlocking
    <2>2. Verdicts' = Verdicts /\ (InAllowWindow(user))' = InAllowWindow(user)
      BY <2>1, InputsStay
    <2>3. Settled("none")'
      BY <2>1, <2>2
      DEF Settled, OutsideWindow, BudgetExceeded, PolicyBlock, ChargedIfOpen
    <2> QED
      BY <1>2, <1>9, <2>1, <2>2, <2>3
      DEF AnswerOpen, BlocksStand, NobodyUnaffected, Reasons, BlockedAnswerIsClosed, Evaluated,
          IsBlocking
  <1>10. CASE LogCannotOpen
    BY <1>2, <1>10, InputsStay
    DEF LogCannotOpen, BlocksStand, NobodyUnaffected, Reasons, BlockedAnswerIsClosed, Evaluated
  <1>11. CASE ReloadConfig \/ LogStaysClosed \/ Done \/ UNCHANGED vars
    BY <1>1, <1>11 DEF ReloadConfig, LogStaysClosed, Done, vars, request
  <1> QED
    BY <1>3, <1>4, <1>5, <1>6, <1>7, <1>8, <1>9, <1>10, <1>11 DEF Next

\* The invariant of the chain of decisions.
THEOREM Invariant ==
    Spec => []Inv
  <1>1. Init => Inv
    BY InitInv
  <1>2. Inv /\ [Next]_vars => Inv'
    BY StepInv
  <1> QED
    BY <1>1, <1>2, PTL DEF Spec

\* EngineFollowsConfig: whatever a reload fails at, the rules engine and the
\* configuration belong together and have been validated.
THEOREM EngineInForce ==
    Spec => []EngineFollowsConfig
  <1>1. Inv => EngineFollowsConfig
    BY DEF Inv, InForce, EngineFollowsConfig
  <1> QED
    BY <1>1, Invariant, PTL

\* ConfigBlockStands: no device, window, budget or rule of a user opens what
\* the configuration blocks.
THEOREM ConfigBlocksAreKept ==
    Spec => []ConfigBlockStands
  <1>1. Inv => ConfigBlockStands
    BY DEF Inv, BlocksStand, ConfigBlockStands, Evaluated, IsBlocking
  <1> QED
    BY <1>1, Invariant, PTL

\* DanglingOwnerHarmless: the user Compile invents for a device whose owner
\* was deleted changes nothing.
THEOREM DanglingOwnerIsHarmless ==
    Spec => []DanglingOwnerHarmless
  <1>1. Inv => DanglingOwnerHarmless
    BY DEF Inv, NobodyUnaffected, DanglingOwnerHarmless, Evaluated
  <1> QED
    BY <1>1, Invariant, PTL

\* BlockedAnswerIsClosed: a blocked question never gets the upstream's answer.
THEOREM BlockedNeverReachesUpstream ==
    Spec => []BlockedAnswerIsClosed
  <1>1. Inv => BlockedAnswerIsClosed
    BY DEF Inv
  <1> QED
    BY <1>1, Invariant, PTL

\* ReasonHolds: the reason that is logged holds, and the budget is charged
\* exactly for what rules and windows let through.
THEOREM LoggedReasonHolds ==
    Spec => []ReasonHolds
  <1>1. ASSUME Inv PROVE ReasonHolds
    <2> SUFFICES ASSUME stage = "done" PROVE ReasonHolds
      BY DEF ReasonHolds
    <2> DEFINE none == IF action \in BlockingActions THEN "config block" ELSE "none"
    <2>1. Settled(none) /\ charged \in BOOLEAN
      BY <1>1 DEF Inv, Reasons
    <2>2. CASE reason = none /\ action \in BlockingActions
      <3>1. user = NoUser => action \in Verdicts /\ ~charged
        BY <2>1, <2>2 DEF Settled, OutsideWindow, BudgetExceeded, PolicyBlock
      <3>2. user # NoUser => action \in Verdicts \cup {"Pass"} /\ ~charged /\ InAllowWindow(user)
        BY <2>1, <2>2 DEF Settled, OutsideWindow, BudgetExceeded, PolicyBlock, ChargedIfOpen
      <3> QED
        BY <2>2, <3>1, <3>2 DEF ReasonHolds, IsBlocking, BlockingActions
    <2>3. CASE reason = none /\ action \notin BlockingActions
      <3>1. charged <=> user # NoUser
        BY <2>1, <2>3 DEF Settled, OutsideWindow, BudgetExceeded, PolicyBlock, ChargedIfOpen
      <3> QED
        BY <2>3, <3>1 DEF ReasonHolds, IsBlocking
    <2>4. CASE OutsideWindow
      BY <2>4 DEF ReasonHolds, OutsideWindow, IsBlocking, BlockingActions
    <2>5. CASE BudgetExceeded
      BY <2>5 DEF ReasonHolds, BudgetExceeded, IsBlocking, BlockingActions
    <2>6. CASE PolicyBlock
      <3>1. PICK i \in DOMAIN in.rules :
              /\ in.rules[i].user = user.id /\ in.rules[i].action = "block"
              /\ WildcardPatternMatch(in.domain, in.rules[i].pattern)
        BY <2>6 DEF PolicyBlock
      <3>2. /\ in.domain \in Text
            /\ in.rules \in Seq(UserRules)
        BY <1>1, InputsAssumption DEF Inv, Typed
      <3>3. Matches(in.domain, in.rules[i].pattern)
        <4>1. in.rules[i] \in UserRules
          BY <3>2
        <4>2. in.rules[i].pattern \in Text
          BY <4>1 DEF UserRules
        <4> QED BY <3>1, <3>2, <4>2, WildcardCorrect
      <3> QED
        BY <2>6, <3>1, <3>3 DEF ReasonHolds, PolicyBlock, IsBlocking, BlockingActions
    <2> QED
      BY <2>1, <2>2, <2>3, <2>4, <2>5, <2>6 DEF Settled
  <1> QED
    BY <1>1, Invariant, PTL

\* The configuration in force is well formed.
LEMMA TypedInForce ==
    ASSUME Inv
    PROVE  /\ {"hosts", "domains", "defaultRule", "onErrorRule"} \subseteq DOMAIN engine
           /\ engine.hosts \in Seq(Hosts) /\ engine.domains \in Seq(Domains)
           /\ in.domain \in Text /\ in.client \in Text /\ in.name \in Text
  <1>1. /\ in.boot \in Configs /\ in.file \in Configs
        /\ in.domain \in Text /\ in.client \in Text /\ in.name \in Text
    BY InputsAssumption DEF Inv, Typed
  <1>2. ASSUME NEW c \in Configs
        PROVE  /\ {"hosts", "domains", "defaultRule", "onErrorRule"} \subseteq DOMAIN WithDefaults(c)
               /\ WithDefaults(c).hosts \in Seq(Hosts) /\ WithDefaults(c).domains \in Seq(Domains)
    BY DEF WithDefaults, Configs
  <1> QED
    BY <1>1, <1>2 DEF Inv, InForce

\* WildcardMatches: every domain of the configuration is matched as its
\* pattern says.
THEOREM WildcardsMatch ==
    Spec => []WildcardMatches
  <1>1. ASSUME Inv PROVE WildcardMatches
    <2>1. \A i \in DOMAIN engine.domains : engine.domains[i].name \in Text
      <3>1. \A x \in Domains : x.name \in Text
        BY DEF Domains
      <3> QED BY <1>1, <3>1, TypedInForce
    <2> QED
      BY <1>1, <2>1, TypedInForce, WildcardCorrect DEF WildcardMatches
  <1> QED
    BY <1>1, Invariant, PTL
-----------------------------------------------------------------------------
(* Time spans.                                                             *)

LEMMA Modulo ==
    ASSUME NEW D \in Nat \ {0}, NEW x \in Int
    PROVE  /\ x % D \in 0..(D - 1)
           /\ 0 <= x /\ x < D => x % D = x
           /\ -D <= x /\ x < 0 => x % D = x + D
  <1>1. x % D \in 0..(D - 1)
    OBVIOUS
  <1>2. 0 <= x /\ x < D => x % D = x
    OBVIOUS
  <1>3. -D <= x /\ x < 0 => x % D = x + D
    OBVIOUS
  <1> QED
    BY <1>1, <1>2, <1>3

\* The clock of a time zone shows a minute of the day.
LEMMA MinuteOfTheDay ==
    ASSUME NEW now \in 0..(Week - 1), NEW loc
    PROVE  Minute(In(now, loc)) \in 0..(MinutesPerDay - 1)
  <1>1. MinutesPerDay \in Nat \ {0} /\ Week \in Nat \ {0} /\ ZoneShift \in Nat
    BY MinutesAssumption DEF Week
  <1>2. now \in Int /\ now + ZoneShift \in Int
    BY <1>1
  <1>3. (now + ZoneShift) % Week \in Int
    BY <1>1, <1>2, Modulo
  <1>4. In(now, loc) \in Int
    BY <1>2, <1>3 DEF In
  <1> QED
    BY <1>1, <1>4, Modulo DEF Minute

\* The days of a range: those the rules engine counts back from, and those
\* the policies reach from its first day on.
LEMMA RangesAgree ==
    ASSUME NEW x \in 0..6, NEW y \in 0..6
    PROVE  {d \in 0..6 : (d - x) % 7 <= (y - x) % 7} = {(x + k) % 7 : k \in 0..((y - x) % 7)}
  <1> DEFINE n == (y - x) % 7
  <1>1. n \in 0..6
    OBVIOUS
  <1> HIDE DEF n
  <1>2. ASSUME NEW d \in 0..6, (d - x) % 7 <= n PROVE \E k \in 0..n : d = (x + k) % 7
    <2>1. (d - x) % 7 \in 0..n
      BY <1>1, <1>2
    <2>2. d = (x + ((d - x) % 7)) % 7
      OBVIOUS
    <2> QED BY <2>1, <2>2
  <1>3. ASSUME NEW k \in 0..n PROVE (x + k) % 7 \in 0..6 /\ (((x + k) % 7) - x) % 7 <= n
    <2>1. k \in 0..6
      BY <1>1
    <2>2. (x + k) % 7 \in 0..6
      BY <2>1
    <2>3. (((x + k) % 7) - x) % 7 = k
      BY <2>1
    <2> QED BY <1>1, <2>1, <2>2, <2>3
  <1>4. {d \in 0..6 : (d - x) % 7 <= n} = {(x + k) % 7 : k \in 0..n}
    BY <1>2, <1>3
  <1> QED
    BY <1>4 DEF n

LEMMA WeekdaysAgree ==
    ASSUME NEW def \in SpanDefs
    PROVE  RulesWeekdays(def) = PolicyWeekdays(def)
  <1> DEFINE parts == {def.days[i] : i \in DOMAIN def.days}
             ofRules(part) == {d \in 0..6 : (d - part[1].day) % 7 <= (part[Len(part)].day - part[1].day) % 7}
             ofPolicy(part) == {(part[1].day + k) % 7 : k \in 0..((part[Len(part)].day - part[1].day) % 7)}
  <1>1. \A part \in parts : ofRules(part) = ofPolicy(part)
    <2> SUFFICES ASSUME NEW part \in parts PROVE ofRules(part) = ofPolicy(part)
      OBVIOUS
    <2> DEFINE x == part[1].day
               y == part[Len(part)].day
    <2>1. part \in Seq(Tokens) /\ Len(part) \in {1, 2}
      <3>1. def.days \in Seq(DayParts)
        BY DEF SpanDefs
      <3>2. part \in DayParts
        BY <3>1
      <3> QED BY <3>2 DEF DayParts
    <2>2. part[1] \in Tokens /\ part[Len(part)] \in Tokens
      BY <2>1
    <2>3. x \in 0..6 /\ y \in 0..6
      BY <2>2 DEF Tokens
    <2> HIDE DEF x, y
    <2>4. {d \in 0..6 : (d - x) % 7 <= (y - x) % 7} = {(x + k) % 7 : k \in 0..((y - x) % 7)}
      BY <2>3, RangesAgree
    <2> QED BY <2>4 DEF x, y
  <1>2. RulesWeekdays(def) = UNION {ofRules(part) : part \in parts}
    BY DEF RulesWeekdays
  <1>3. PolicyWeekdays(def) = UNION {ofPolicy(part) : part \in parts}
    BY DEF PolicyWeekdays
  <1> HIDE DEF ofRules, ofPolicy, parts
  <1>4. {ofRules(part) : part \in parts} = {ofPolicy(part) : part \in parts}
    BY <1>1
  <1> QED
    BY <1>2, <1>3, <1>4

\* What each parser makes of a definition it accepts.
LEMMA RulesParsed ==
    ASSUME NEW def, ParseTimeSpan(def).ok
    PROVE  LET ts == ParseTimeSpan(def)
           IN  /\ def \notin {NoSpan, BlankSpan} /\ def.start # Bad /\ def.end # Bad
               /\ def.opt # "unknown zone" /\ RulesWeekdaysOk(def)
               /\ ts.start = def.start /\ ts.end = def.end
               /\ ts.crossMidnight <=> def.start > def.end
               /\ ts.weekdays = RulesWeekdays(def)
               /\ ts.loc = IF def.opt = "zone" THEN "zone" ELSE "local"
  BY DEF ParseTimeSpan, ParseError

LEMMA PolicyParsed ==
    ASSUME NEW def, ParsePolicyTimeSpan(def).ok
    PROVE  LET ts == ParsePolicyTimeSpan(def)
           IN  /\ def \notin {NoSpan, BlankSpan} /\ def.start # Bad /\ def.end # Bad
               /\ PolicyWeekdaysOk(def)
               /\ ts.start = def.start /\ ts.end = def.end
               /\ ts.crossMidnight <=> def.start > def.end
               /\ ts.weekdays = PolicyWeekdays(def)
               /\ ts.loc = IF def.opt = "zone" THEN "zone" ELSE "local"
  BY DEF ParsePolicyTimeSpan, ParseError

\* Each parser takes what the other takes, but for the spellings of its own.
LEMMA AcceptanceAgrees ==
    ASSUME NEW def
    PROVE  /\ ParsePolicyTimeSpan(def).ok => ParseTimeSpan(def).ok \/ OnlyForWindows(def)
           /\ ParseTimeSpan(def).ok => ParsePolicyTimeSpan(def).ok \/ OnlyForRules(def)
  <1>1. ASSUME ParsePolicyTimeSpan(def).ok, ~OnlyForWindows(def) PROVE ParseTimeSpan(def).ok
    <2>1. /\ def \notin {NoSpan, BlankSpan} /\ def.start # Bad /\ def.end # Bad
          /\ PolicyWeekdaysOk(def) /\ def.opt # "unknown zone"
      BY <1>1, PolicyParsed DEF OnlyForWindows
    <2>2. RulesWeekdaysOk(def)
      BY <1>1, <2>1 DEF OnlyForWindows, PolicyWeekdaysOk, PolicyWeekday, RulesWeekdaysOk, RulesWeekday
    <2> QED BY <2>1, <2>2 DEF ParseTimeSpan
  <1>2. ASSUME ParseTimeSpan(def).ok, ~OnlyForRules(def) PROVE ParsePolicyTimeSpan(def).ok
    <2>1. /\ def \notin {NoSpan, BlankSpan} /\ def.start # Bad /\ def.end # Bad
          /\ RulesWeekdaysOk(def)
      BY <1>2, RulesParsed
    <2>2. PolicyWeekdaysOk(def)
      BY <1>2, <2>1 DEF OnlyForRules, PolicyWeekdaysOk, PolicyWeekday, RulesWeekdaysOk, RulesWeekday
    <2> QED BY <2>1, <2>2 DEF ParsePolicyTimeSpan
  <1> QED
    BY <1>1, <1>2

\* The two evaluations of a definition both packages accept.
LEMMA EvaluationsAgree ==
    ASSUME NEW def \in SpanDefs, NEW now,
           ParseTimeSpan(def).ok, ParsePolicyTimeSpan(def).ok
    PROVE  InTimeSpan(def, now) <=> EvaluateTimeSpanBlock(def, "Pass", now).action = "Pass"
  <1> DEFINE p == ParsePolicyTimeSpan(def)
             r == ParseTimeSpan(def)
             inside == /\ r.weekdays # {} => Weekday(In(now, r.loc)) \in r.weekdays
                       /\ IF r.crossMidnight
                          THEN Minute(In(now, r.loc)) >= r.start \/ Minute(In(now, r.loc)) <= r.end
                          ELSE Minute(In(now, r.loc)) >= r.start /\ Minute(In(now, r.loc)) < r.end
  <1>1. /\ p.start = r.start /\ p.end = r.end /\ p.loc = r.loc
        /\ p.weekdays = r.weekdays
        /\ p.crossMidnight <=> r.crossMidnight
    BY RulesParsed, PolicyParsed, WeekdaysAgree
  <1>2. EvaluateTimeSpanBlock(def, "Pass", now).action = "Pass" <=> inside
    BY DEF EvaluateTimeSpanBlock
  <1>3. InTimeSpan(def, now) <=>
          /\ p.weekdays = {} \/ Weekday(In(now, p.loc)) \in p.weekdays
          /\ \/ p.crossMidnight /\ (Minute(In(now, p.loc)) >= p.start \/ Minute(In(now, p.loc)) <= p.end)
             \/ ~p.crossMidnight /\ Minute(In(now, p.loc)) >= p.start /\ Minute(In(now, p.loc)) < p.end
    BY DEF InTimeSpan
  <1> HIDE DEF p, r
  <1> QED
    BY <1>1, <1>2, <1>3

\* A window or a span that does not parse has no minute.
LEMMA UnparsedIsNever ==
    ASSUME NEW def, NEW now
    PROVE  /\ InTimeSpan(def, now) => ParsePolicyTimeSpan(def).ok
           /\ EvaluateTimeSpanBlock(def, "Pass", now).action = "Pass" => ParseTimeSpan(def).ok
           /\ EvaluateTimeSpanBlock(def, "Pass", now).err => ~ParseTimeSpan(def).ok
  BY DEF InTimeSpan, EvaluateTimeSpanBlock

\* SpansAgree: the rules engine and the allow windows cover the same minutes,
\* but for tues, thurs and zones that do not load on one side and for blanks
\* inside a range on the other.
THEOREM TimeSpansAgree ==
    Spec => []SpansAgree
  <1>1. ASSUME Inv PROVE SpansAgree
    <2> SUFFICES ASSUME NEW def \in Spans
                 PROVE  LET rule == EvaluateTimeSpanBlock(def, "Pass", in.now)
                        IN  /\ InTimeSpan(def, in.now) => rule.action = "Pass" \/ OnlyForWindows(def)
                            /\ rule.action = "Pass" => InTimeSpan(def, in.now) \/ OnlyForRules(def)
                            /\ rule.err => ~ParsePolicyTimeSpan(def).ok \/ OnlyForWindows(def)
      BY DEF SpansAgree
    <2>1. def \in SpanTexts
      <3>1. \A u \in in.users : u.windows \in Seq(SpanTexts)
        BY <1>1, InputsAssumption DEF Inv, Typed
      <3> QED BY <3>1 DEF Spans, Range
    <2>2. ASSUME ParseTimeSpan(def).ok, ParsePolicyTimeSpan(def).ok
          PROVE  InTimeSpan(def, in.now) <=> EvaluateTimeSpanBlock(def, "Pass", in.now).action = "Pass"
      <3>1. def \in SpanDefs
        BY <2>1, <2>2, RulesParsed DEF SpanTexts
      <3> QED BY <2>2, <3>1, EvaluationsAgree
    <2> QED
      BY <2>2, AcceptanceAgrees, UnparsedIsNever
  <1> QED
    BY <1>1, Invariant, PTL

\* What the comparison with start and end means, counted around the clock.
LEMMA AroundTheClock ==
    ASSUME NEW D \in Nat \ {0}, NEW start \in 0..(D - 1), NEW end \in 0..(D - 1),
           NEW at \in 0..(D - 1)
    PROVE  (IF start > end THEN at >= start \/ at <= end ELSE at >= start /\ at < end)
             <=> \/ (at - start) % D < (end - start) % D
                 \/ start > end /\ at = end
  <1>1. \A m \in 0..(D - 1) :
          /\ m >= start => (m - start) % D = m - start
          /\ m < start => (m - start) % D = (m - start) + D
    <2> SUFFICES ASSUME NEW m \in 0..(D - 1)
                 PROVE  /\ m >= start => (m - start) % D = m - start
                        /\ m < start => (m - start) % D = (m - start) + D
      OBVIOUS
    <2> DEFINE x == m - start
    <2>1. /\ x \in Int
          /\ m >= start => 0 <= x /\ x < D
          /\ m < start => -D <= x /\ x < 0
      OBVIOUS
    <2> HIDE DEF x
    <2>2. /\ m >= start => x % D = x
          /\ m < start => x % D = x + D
      BY <2>1, Modulo
    <2> QED
      BY <2>2 DEF x
  <1> DEFINE A == (at - start) % D
             E == (end - start) % D
  <1>2. /\ at >= start => A = at - start
        /\ at < start => A = (at - start) + D
        /\ end >= start => E = end - start
        /\ end < start => E = (end - start) + D
    BY <1>1
  <1> HIDE DEF A, E
  <1>3. (IF start > end THEN at >= start \/ at <= end ELSE at >= start /\ at < end)
           <=> A < E \/ (start > end /\ at = end)
    BY <1>2
  <1> QED
    BY <1>3 DEF A, E

\* WindowIsAStretch: a window without weekdays is the stretch of the clock
\* from its start to its end, whatever the length of the day and the zone.
THEOREM WindowsAreStretches ==
    Spec => []WindowIsAStretch
  <1>1. ASSUME Inv PROVE WindowIsAStretch
    <2> DEFINE after(def, m) == (m - def.start) % MinutesPerDay
               at(def) == Minute(In(in.now, IF def.opt = "zone" THEN "zone" ELSE "local"))
    <2> SUFFICES ASSUME NEW def \in Spans, ParsePolicyTimeSpan(def).ok, def.days = <<>>
                 PROVE  InTimeSpan(def, in.now) <=>
                          \/ after(def, at(def)) < after(def, def.end)
                          \/ def.start > def.end /\ at(def) = def.end
      BY DEF WindowIsAStretch
    <2>1. in.now \in 0..(Week - 1) /\ \A u \in in.users : u.windows \in Seq(SpanTexts)
      BY <1>1, InputsAssumption DEF Inv, Typed
    <2>2. def \in SpanDefs
      <3>1. def \in SpanTexts
        BY <2>1 DEF Spans, Range
      <3> QED BY <3>1, PolicyParsed DEF SpanTexts
    <2>3. def.start \in 0..(MinutesPerDay - 1) /\ def.end \in 0..(MinutesPerDay - 1)
      BY <2>2, PolicyParsed DEF SpanDefs
    <2>4. at(def) \in 0..(MinutesPerDay - 1)
      BY <2>1, MinuteOfTheDay
    <2>5. InTimeSpan(def, in.now) <=>
            IF def.start > def.end THEN at(def) >= def.start \/ at(def) <= def.end
            ELSE at(def) >= def.start /\ at(def) < def.end
      <3> DEFINE ts == ParsePolicyTimeSpan(def)
      <3>1. /\ ts.ok /\ ts.start = def.start /\ ts.end = def.end
            /\ ts.loc = IF def.opt = "zone" THEN "zone" ELSE "local"
            /\ ts.crossMidnight <=> def.start > def.end
            /\ ts.weekdays = PolicyWeekdays(def)
        BY PolicyParsed
      <3>2. PolicyWeekdays(def) = {}
        BY DEF PolicyWeekdays
      <3>3. InTimeSpan(def, in.now) <=>
              /\ ts.ok
              /\ ts.weekdays = {} \/ Weekday(In(in.now, ts.loc)) \in ts.weekdays
              /\ \/ ts.crossMidnight /\ (Minute(In(in.now, ts.loc)) >= ts.start
                                          \/ Minute(In(in.now, ts.loc)) <= ts.end)
                 \/ /\ ~ts.crossMidnight
                    /\ Minute(In(in.now, ts.loc)) >= ts.start /\ Minute(In(in.now, ts.loc)) < ts.end
        BY DEF InTimeSpan
      <3> HIDE DEF ts
      <3> QED
        BY <3>1, <3>2, <3>3
    <2> HIDE DEF at
    <2> QED
      BY <2>3, <2>4, <2>5, AroundTheClock, MinutesAssumption
  <1> QED
    BY <1>1, Invariant, PTL
-----------------------------------------------------------------------------
(* The rules engine.                                                       *)

\* First picks an entry of the list.
LEMMA FirstIsOfList ==
    ASSUME NEW list, NEW score, DOMAIN score \subseteq Nat
    PROVE  First(list, score) = Nothing \/ \E i \in DOMAIN score : First(list, score) = list[i]
  <1> DEFINE best == {i \in DOMAIN score : \A j \in DOMAIN score : ~MoreSpecific(score[j], score[i])}
  <1>1. best = {} => First(list, score) = Nothing
    BY DEF First
  <1>2. ASSUME best # {} PROVE Min(best) \in DOMAIN score /\ First(list, score) = list[Min(best)]
    <2>1. Min(best) \in best
      BY <1>2, MinIsLeast
    <2>2. First(list, score) = list[Min(best)]
      BY <1>2 DEF First
    <2> QED BY <2>1, <2>2
  <1> QED
    BY <1>1, <1>2

LEMMA BestHostIsOne ==
    ASSUME NEW host, NEW name, NEW hosts \in Seq(Hosts)
    PROVE  PickBestHost(host, name, hosts) = Nothing
             \/ \E i \in DOMAIN hosts : PickBestHost(host, name, hosts) = hosts[i]
  <1> DEFINE found == {i \in DOMAIN hosts : HostMatch(host, name, hosts[i].name)}
             score == [i \in found |-> ScorePattern(hosts[i].name,
                          Wildcards(hosts[i].name) = 0 /\ host = hosts[i].name)]
  <1>1. PickBestHost(host, name, hosts) = First(hosts, score)
    BY DEF PickBestHost
  <1>2. DOMAIN score = found /\ found \subseteq DOMAIN hosts /\ DOMAIN hosts \subseteq Nat
    OBVIOUS
  <1> HIDE DEF score, found
  <1> QED
    BY <1>1, <1>2, FirstIsOfList

LEMMA BestDomainIsOne ==
    ASSUME NEW domain, NEW domains \in Seq(Domains)
    PROVE  PickBestDomain(domain, domains) = Nothing
             \/ \E i \in DOMAIN domains : PickBestDomain(domain, domains) = domains[i]
  <1> DEFINE found == {i \in DOMAIN domains : DomainMatch(domain, domains[i].name)}
             score == [i \in found |-> ScorePattern(domains[i].name, domain = domains[i].name)]
  <1>1. PickBestDomain(domain, domains) = First(domains, score)
    BY DEF PickBestDomain
  <1>2. DOMAIN score = found /\ found \subseteq DOMAIN domains /\ DOMAIN domains \subseteq Nat
    OBVIOUS
  <1> HIDE DEF score, found
  <1> QED
    BY <1>1, <1>2, FirstIsOfList

\* A list of rules fails when one of its rules does.
LEMMA SomeRuleFails ==
    ASSUME NEW conf, NEW rules \in Seq(Rules), NEW now, EvaluateRules(conf, rules, now).err
    PROVE  \E i \in DOMAIN rules : EvaluateRule(rules[i], now).err
  <1> DEFINE answers == {i \in 1..Len(rules) : EvaluateRule(rules[i], now).err
                                                 \/ EvaluateRule(rules[i], now).action # None}
  <1>1. CASE answers = {}
    BY <1>1 DEF EvaluateRules, SelectInSeq
  <1>2. CASE answers # {}
    <2>1. Min(answers) \in answers
      <3>1. answers \subseteq Nat
        OBVIOUS
      <3> QED BY <1>2, <3>1, MinIsLeast
    <2>2. Min(answers) # 0 /\ Min(answers) \in DOMAIN rules
      BY <2>1
    <2>3. EvaluateRules(conf, rules, now) =
            IF EvaluateRule(rules[Min(answers)], now).err
            THEN [err |-> TRUE, action |-> conf.onErrorRule]
            ELSE EvaluateRule(rules[Min(answers)], now)
      BY <1>2, <2>2 DEF EvaluateRules, SelectInSeq
    <2> QED
      BY <2>2, <2>3
  <1> QED
    BY <1>1, <1>2

\* A rule that was validated fails for its weekdays, for a missing span or
\* for one of blanks.
LEMMA ValidRuleFails ==
    ASSUME NEW r, NEW now, ValidateRule(r), EvaluateRule(r, now).err
    PROVE  \/ r.span = NoSpan /\ r.type = "BlockedTimeSpan"
           \/ r.span = BlankSpan
           \/ r.span \notin {NoSpan, BlankSpan} /\ ~RulesWeekdaysOk(r.span)
  <1>1. /\ r.span # NoSpan \/ r.type = "BlockedTimeSpan"
        /\ ~ParseTimeSpan(r.span).ok
    BY DEF EvaluateRule, EvaluateTimeSpanBlock
  <1>2. r.span \notin {NoSpan, BlankSpan} => ValidateTimeSpan(r.span)
    BY DEF ValidateRule
  <1> QED
    BY <1>1, <1>2 DEF ValidateTimeSpan, ParseTimeSpan

\* ValidatedRulesEvaluate: the validation leaves the rules engine three ways
\* to fail, whatever the configuration, the question and the time: a weekday
\* it does not know, no span where the type asks for one, and a span of
\* blanks, which validate.go:162 skips and rulesengine.go:347 parses.
THEOREM ValidatedRulesFailThreeWays ==
    Spec => []ValidatedRulesEvaluate
  <1>1. ASSUME Inv PROVE ValidatedRulesEvaluate
    <2> DEFINE Fails(hosts) == \E i \in DOMAIN hosts : \E k \in DOMAIN hosts[i].rules :
                                  EvaluateRule(hosts[i].rules[k], in.now).err
               Known(r) == \/ r.span = NoSpan /\ r.type = "BlockedTimeSpan"
                           \/ r.span = BlankSpan
                           \/ r.span \notin {NoSpan, BlankSpan} /\ ~RulesWeekdaysOk(r.span)
    <2> SUFFICES ASSUME Evaluate(engine, in.domain, in.client, in.name, in.now).err
                 PROVE  \E r \in RulesOf(engine) : Known(r)
      BY DEF ValidatedRulesEvaluate
    <2>1. engine.hosts \in Seq(Hosts) /\ engine.domains \in Seq(Domains)
      BY <1>1, TypedInForce
    <2>2. Validate(engine)
      BY <1>1 DEF Inv, InForce
    <2>3. ASSUME NEW hosts \in Seq(Hosts), NEW best, best = PickBestHost(in.client, in.name, hosts),
                 best # Nothing, EvaluateRules(engine, best.rules, in.now).err
          PROVE  Fails(hosts)
      <3>1. PICK i \in DOMAIN hosts : best = hosts[i]
        BY <2>3, BestHostIsOne
      <3>2. hosts[i] \in Hosts
        BY <2>3
      <3>3. best.rules \in Seq(Rules)
        BY <3>1, <3>2 DEF Hosts
      <3> QED
        BY <2>3, <3>1, <3>3, SomeRuleFails
    <2>4. \/ Fails(engine.hosts)
          \/ \E i \in DOMAIN engine.domains : Fails(engine.domains[i].hosts)
      <3> DEFINE bestHost == PickBestHost(in.client, in.name, engine.hosts)
                 bestDomain == PickBestDomain(in.domain, engine.domains)
                 domainHost == PickBestHost(in.client, in.name, bestDomain.hosts)
      <3> HIDE DEF Fails
      <3>1. \/ bestHost # Nothing /\ EvaluateRules(engine, bestHost.rules, in.now).err
            \/ /\ bestDomain # Nothing /\ domainHost # Nothing
               /\ EvaluateRules(engine, domainHost.rules, in.now).err
        BY DEF Evaluate
      <3>2. CASE bestHost # Nothing /\ EvaluateRules(engine, bestHost.rules, in.now).err
        BY <2>1, <2>3, <3>2
      <3>3. CASE /\ bestDomain # Nothing /\ domainHost # Nothing
                 /\ EvaluateRules(engine, domainHost.rules, in.now).err
        <4>1. PICK i \in DOMAIN engine.domains : bestDomain = engine.domains[i]
          BY <2>1, <3>3, BestDomainIsOne
        <4>2. engine.domains[i] \in Domains
          BY <2>1
        <4>3. bestDomain.hosts \in Seq(Hosts)
          BY <4>1, <4>2 DEF Domains
        <4>4. Fails(bestDomain.hosts)
          BY <2>3, <3>3, <4>3
        <4> QED BY <4>1, <4>4
      <3> QED BY <3>1, <3>2, <3>3
    <2>5. ASSUME NEW hosts, Fails(hosts), \A i \in DOMAIN hosts : ValidateHost(hosts[i])
          PROVE  \E r \in UNION {Range(hosts[i].rules) : i \in DOMAIN hosts} : Known(r)
      <3>1. PICK i \in DOMAIN hosts : \E k \in DOMAIN hosts[i].rules :
              EvaluateRule(hosts[i].rules[k], in.now).err
        BY <2>5
      <3>2. PICK k \in DOMAIN hosts[i].rules : EvaluateRule(hosts[i].rules[k], in.now).err
        BY <3>1
      <3>3. ValidateRule(hosts[i].rules[k])
        BY <2>5 DEF ValidateHost
      <3>4. Known(hosts[i].rules[k])
        BY <3>2, <3>3, ValidRuleFails
      <3>5. hosts[i].rules[k] \in Range(hosts[i].rules)
        BY DEF Range
      <3> QED BY <3>4, <3>5
    <2>6. CASE Fails(engine.hosts)
      BY <2>2, <2>5, <2>6 DEF Validate, RulesOf
    <2>7. CASE \E i \in DOMAIN engine.domains : Fails(engine.domains[i].hosts)
      <3> HIDE DEF Fails, Known
      <3>1. PICK i \in DOMAIN engine.domains : Fails(engine.domains[i].hosts)
        BY <2>7
      <3>2. \A k \in DOMAIN engine.domains[i].hosts : ValidateHost(engine.domains[i].hosts[k])
        BY <2>2 DEF Validate, ValidateDomain
      <3>3. \E r \in UNION {Range(engine.domains[i].hosts[k].rules) :
                             k \in DOMAIN engine.domains[i].hosts} : Known(r)
        BY <2>5, <3>1, <3>2
      <3> QED BY <3>3 DEF RulesOf
    <2> QED
      BY <2>4, <2>6, <2>7
  <1> QED
    BY <1>1, Invariant, PTL
\* Two patterns are never equally specific.
LEMMA StringLessIsTotal ==
    ASSUME NEW p \in Text, NEW q \in Text, p # q, Len(p) = Len(q)
    PROVE  StringLess(p, q) \/ StringLess(q, p)
  <1> DEFINE differ == {k \in 1..Len(p) : p[k] # q[k]}
  <1>1. Len(p) \in Nat /\ DOMAIN p = 1..Len(p) /\ DOMAIN q = 1..Len(p)
        /\ \A k \in 1..Len(p) : p[k] \in Nat /\ q[k] \in Nat
    BY DEF Text
  <1>2. differ # {}
    BY <1>1 DEF Text
  <1>3. differ \subseteq Nat
    BY <1>1
  <1>4. PICK i \in differ : \A k \in differ : i <= k
    BY <1>2, <1>3, LeastNat
  <1>5. i \in 1..Len(p) /\ p[i] # q[i] /\ i \in Nat
    BY <1>3, <1>4
  <1>6. \A k \in 1..(i - 1) : k \in 1..Len(p) /\ k <= Len(p) /\ ~(i <= k)
    <2> HIDE DEF differ
    <2> QED BY <1>1, <1>5
  <1>7. \A k \in 1..(i - 1) : k <= Len(p) /\ p[k] = q[k]
    BY <1>4, <1>6
  <1>8. p[i] < q[i] \/ q[i] < p[i]
    BY <1>1, <1>5
  <1> HIDE DEF differ
  <1> QED
    BY <1>1, <1>5, <1>7, <1>8 DEF StringLess

LEMMA WildcardsCounted ==
    ASSUME NEW p \in Text PROVE Wildcards(p) \in Nat /\ Len(p) \in Nat
  <1>1. Len(p) \in Nat /\ DOMAIN p = 1..Len(p)
    BY DEF Text
  <1>2. IsFiniteSet(1..Len(p))
    BY <1>1, FS_Interval
  <1>3. IsFiniteSet({i \in DOMAIN p : p[i] \in {Star, Question}})
    BY <1>1, <1>2, FS_Subset
  <1> QED
    BY <1>1, <1>3, FS_CardinalityType DEF Wildcards

LEMMA SpecificityIsTotal ==
    ASSUME NEW p \in Text, NEW q \in Text, p # q, NEW e \in BOOLEAN, NEW f \in BOOLEAN
    PROVE  MoreSpecific(ScorePattern(p, e), ScorePattern(q, f))
             \/ MoreSpecific(ScorePattern(q, f), ScorePattern(p, e))
  <1>1. /\ Wildcards(p) \in Nat /\ Len(p) \in Nat
        /\ Wildcards(q) \in Nat /\ Len(q) \in Nat
    BY WildcardsCounted
  <1>2. Len(p) = Len(q) => StringLess(p, q) \/ StringLess(q, p)
    BY StringLessIsTotal
  <1>3. CASE e # f
    BY <1>3 DEF MoreSpecific, ScorePattern
  <1>4. CASE e = f
    BY <1>1, <1>2, <1>4 DEF MoreSpecific, ScorePattern
  <1> QED
    BY <1>3, <1>4

\* The scores of a list of n entries, those of the list written backwards,
\* and that no two of them are equal.
Mirrored(score, flipped, n) ==
    /\ DOMAIN score \subseteq 1..n
    /\ DOMAIN flipped = {i \in 1..n : (n - i) + 1 \in DOMAIN score}
    /\ \A i \in DOMAIN flipped : flipped[i] = score[(n - i) + 1]
Untied(score) ==
    \A i, j \in DOMAIN score :
        i # j => MoreSpecific(score[i], score[j]) \/ MoreSpecific(score[j], score[i])

\* First picks the same entry of a list written backwards.
LEMMA FirstBackwards ==
    ASSUME NEW n \in Nat, NEW list, NEW other, NEW score, NEW flipped,
           Mirrored(score, flipped, n), Untied(score)
    PROVE  \/ First(list, score) = Nothing /\ First(other, flipped) = Nothing
           \/ \E i \in DOMAIN score : /\ First(list, score) = list[i]
                                      /\ First(other, flipped) = other[(n - i) + 1]
  <1> DEFINE Best(sc) == {i \in DOMAIN sc : \A j \in DOMAIN sc : ~MoreSpecific(sc[j], sc[i])}
             back(i) == (n - i) + 1
  <1>1. \A i \in 1..n : back(i) \in 1..n /\ back(back(i)) = i
    OBVIOUS
  <1> HIDE DEF back
  <1>2. DOMAIN flipped = {i \in 1..n : back(i) \in DOMAIN score}
        /\ \A i \in DOMAIN flipped : flipped[i] = score[back(i)]
    BY DEF back, Mirrored
  <1>3. ASSUME NEW i \in DOMAIN score
        PROVE  i \in 1..n /\ back(i) \in DOMAIN flipped /\ back(back(i)) = i /\ flipped[back(i)] = score[i]
    <2>1. i \in 1..n /\ back(i) \in 1..n /\ back(back(i)) = i
      BY <1>1 DEF Mirrored
    <2> QED BY <1>2, <2>1
  <1>4. ASSUME NEW i \in Best(flipped) PROVE back(i) \in Best(score) /\ i \in 1..n /\ back(back(i)) = i
    <2>1. i \in 1..n /\ back(i) \in DOMAIN score /\ flipped[i] = score[back(i)]
      BY <1>2
    <2>2. ASSUME NEW j \in DOMAIN score PROVE ~MoreSpecific(score[j], score[back(i)])
      BY <1>3, <2>1
    <2> QED BY <1>1, <2>1, <2>2
  <1>5. ASSUME NEW i \in Best(score) PROVE back(i) \in Best(flipped)
    <2>1. back(i) \in DOMAIN flipped /\ flipped[back(i)] = score[i]
      BY <1>3
    <2>2. ASSUME NEW j \in DOMAIN flipped PROVE ~MoreSpecific(flipped[j], flipped[back(i)])
      BY <1>2, <2>1
    <2> QED BY <2>1, <2>2
  <1>6. \A i, j \in Best(score) : i = j
    BY DEF Untied
  <1>7. CASE Best(score) = {}
    <2>1. Best(flipped) = {}
      BY <1>4, <1>7
    <2> QED BY <1>7, <2>1 DEF First
  <1>8. CASE Best(score) # {}
    <2>1. PICK b \in Best(score) : TRUE
      BY <1>8
    <2>2. Best(score) \subseteq Nat /\ Best(flipped) \subseteq Nat /\ Best(flipped) # {}
      BY <1>2, <1>3, <1>5, <2>1
    <2>3. Min(Best(score)) \in Best(score) /\ Min(Best(flipped)) \in Best(flipped)
      BY <1>8, <2>2, MinIsLeast
    <2>4. Min(Best(score)) = b
      BY <1>6, <2>3
    <2>5. back(Min(Best(flipped))) = b /\ Min(Best(flipped)) = back(b)
      BY <1>4, <1>6, <2>3
    <2>6. First(list, score) = list[Min(Best(score))]
      BY <1>8 DEF First
    <2>7. First(other, flipped) = other[Min(Best(flipped))]
      BY <2>2 DEF First
    <2>8. b \in DOMAIN score
      BY <2>1
    <2> HIDE DEF Best
    <2> QED BY <2>4, <2>5, <2>6, <2>7, <2>8 DEF back
  <1> QED
    BY <1>7, <1>8

\* The best host of a list is the best of the list written backwards.
LEMMA BestHostBackwards ==
    ASSUME NEW host, NEW name, NEW hosts \in Seq(Hosts), DistinctNames(hosts)
    PROVE  PickBestHost(host, name, Reverse(hosts)) = PickBestHost(host, name, hosts)
  <1> DEFINE n == Len(hosts)
             other == Reverse(hosts)
             Found(list) == {i \in DOMAIN list : HostMatch(host, name, list[i].name)}
             exact(x) == Wildcards(x.name) = 0 /\ host = x.name
             Score2(list) == [i \in Found(list) |-> ScorePattern(list[i].name, exact(list[i]))]
  <1>1. n \in Nat /\ DOMAIN hosts = 1..n /\ \A i \in 1..n : hosts[i] \in Hosts
    OBVIOUS
  <1>2. DOMAIN other = 1..n /\ \A i \in 1..n : (n - i) + 1 \in 1..n /\ other[i] = hosts[(n - i) + 1]
    BY <1>1 DEF Reverse
  <1>3. \A i \in 1..n : ((n - i) + 1) \in 1..n /\ (n - ((n - i) + 1)) + 1 = i
    BY <1>1
  <1>4. PickBestHost(host, name, hosts) = First(hosts, Score2(hosts))
    BY DEF PickBestHost
  <1>5. PickBestHost(host, name, other) = First(other, Score2(other))
    BY DEF PickBestHost
  <1>6. \A i \in 1..n : hosts[i].name \in Text
    BY <1>1 DEF Hosts
  <1> HIDE DEF n, other, exact
  <1>7. DOMAIN Score2(hosts) = Found(hosts) /\ Found(hosts) \subseteq 1..n
    BY <1>1
  <1>8. DOMAIN Score2(other) = {i \in 1..n : (n - i) + 1 \in Found(hosts)}
    BY <1>1, <1>2
  <1>9. \A i \in DOMAIN Score2(other) : Score2(other)[i] = Score2(hosts)[(n - i) + 1]
    BY <1>1, <1>2
  <1>10. ASSUME NEW i \in Found(hosts), NEW j \in Found(hosts), i # j
         PROVE  \/ MoreSpecific(Score2(hosts)[i], Score2(hosts)[j])
                \/ MoreSpecific(Score2(hosts)[j], Score2(hosts)[i])
    <2>1. i \in DOMAIN hosts /\ j \in DOMAIN hosts /\ hosts[i].name # hosts[j].name
      BY <1>10 DEF DistinctNames
    <2>2. exact(hosts[i]) \in BOOLEAN /\ exact(hosts[j]) \in BOOLEAN
      BY DEF exact
    <2>3. /\ Score2(hosts)[i] = ScorePattern(hosts[i].name, exact(hosts[i]))
          /\ Score2(hosts)[j] = ScorePattern(hosts[j].name, exact(hosts[j]))
      OBVIOUS
    <2> HIDE DEF Score2
    <2> QED BY <1>1, <1>6, <2>1, <2>2, <2>3, SpecificityIsTotal
  <1> HIDE DEF Score2, Found
  <1>11. \/ First(hosts, Score2(hosts)) = Nothing /\ First(other, Score2(other)) = Nothing
         \/ \E i \in DOMAIN Score2(hosts) : /\ First(hosts, Score2(hosts)) = hosts[i]
                                            /\ First(other, Score2(other)) = other[(n - i) + 1]
    <2> DEFINE score == Score2(hosts)
               flipped == Score2(other)
    <2>1. Mirrored(score, flipped, n) /\ n \in Nat
      BY <1>1, <1>7, <1>8, <1>9 DEF Mirrored
    <2>2. Untied(score)
      BY <1>7, <1>10 DEF Untied
    <2> HIDE DEF score, flipped
    <2>3. \/ First(hosts, score) = Nothing /\ First(other, flipped) = Nothing
          \/ \E i \in DOMAIN score : /\ First(hosts, score) = hosts[i]
                                     /\ First(other, flipped) = other[(n - i) + 1]
      BY <2>1, <2>2, FirstBackwards
    <2> QED BY <2>3 DEF score, flipped
  <1>12. \A i \in Found(hosts) : other[(n - i) + 1] = hosts[i]
    BY <1>2, <1>3, <1>7
  <1> QED
    BY <1>4, <1>5, <1>7, <1>11, <1>12 DEF other

LEMMA BestDomainBackwards ==
    ASSUME NEW domain, NEW domains \in Seq(Domains), DistinctNames(domains)
    PROVE  \/ /\ PickBestDomain(domain, domains) = Nothing
              /\ PickBestDomain(domain, Backwards(domains)) = Nothing
           \/ \E i \in DOMAIN domains :
                /\ PickBestDomain(domain, domains) = domains[i]
                /\ PickBestDomain(domain, Backwards(domains))
                     = [domains[i] EXCEPT !.hosts = Reverse(@)]
  <1> DEFINE n == Len(domains)
             turned == [i \in DOMAIN domains |-> [domains[i] EXCEPT !.hosts = Reverse(@)]]
             other == Reverse(turned)
             Found(list) == {i \in DOMAIN list : DomainMatch(domain, list[i].name)}
             exact(x) == domain = x.name
             Score2(list) == [i \in Found(list) |-> ScorePattern(list[i].name, exact(list[i]))]
  <1>1. n \in Nat /\ DOMAIN domains = 1..n /\ \A i \in 1..n : domains[i] \in Domains
    OBVIOUS
  <1>2. Len(turned) = n
    BY <1>1
  <1>3. DOMAIN other = 1..n /\ \A i \in 1..n : other[i] = turned[(n - i) + 1]
    BY <1>1, <1>2 DEF Reverse
  <1>4. \A i \in 1..n : (n - i) + 1 \in 1..n /\ (n - ((n - i) + 1)) + 1 = i
    BY <1>1
  <1>5. PickBestDomain(domain, domains) = First(domains, Score2(domains))
    BY DEF PickBestDomain
  <1>6. PickBestDomain(domain, Backwards(domains)) = First(other, Score2(other))
    BY DEF PickBestDomain, Backwards
  <1>7. \A i \in 1..n : /\ domains[i].name \in Text
                        /\ turned[i] = [domains[i] EXCEPT !.hosts = Reverse(@)]
                        /\ turned[i].name = domains[i].name
    BY <1>1 DEF Domains
  <1> HIDE DEF n, turned, other, exact
  <1>8. \A i \in 1..n : (n - i) + 1 \in 1..n /\ other[i].name = domains[(n - i) + 1].name
    BY <1>3, <1>4, <1>7
  <1>9. DOMAIN Score2(domains) = Found(domains) /\ Found(domains) \subseteq 1..n
    BY <1>1
  <1>10. DOMAIN Score2(other) = {i \in 1..n : (n - i) + 1 \in Found(domains)}
    BY <1>1, <1>3, <1>8
  <1>11. \A i \in DOMAIN Score2(other) : Score2(other)[i] = Score2(domains)[(n - i) + 1]
    BY <1>1, <1>3, <1>8 DEF exact
  <1>12. ASSUME NEW i \in Found(domains), NEW j \in Found(domains), i # j
         PROVE  \/ MoreSpecific(Score2(domains)[i], Score2(domains)[j])
                \/ MoreSpecific(Score2(domains)[j], Score2(domains)[i])
    <2>1. i \in DOMAIN domains /\ j \in DOMAIN domains /\ domains[i].name # domains[j].name
      BY <1>12 DEF DistinctNames
    <2>2. exact(domains[i]) \in BOOLEAN /\ exact(domains[j]) \in BOOLEAN
      BY DEF exact
    <2>3. /\ Score2(domains)[i] = ScorePattern(domains[i].name, exact(domains[i]))
          /\ Score2(domains)[j] = ScorePattern(domains[j].name, exact(domains[j]))
      OBVIOUS
    <2>4. domains[i].name \in Text /\ domains[j].name \in Text
      BY <1>1, <1>7, <2>1
    <2> HIDE DEF Score2
    <2> QED BY <2>1, <2>2, <2>3, <2>4, SpecificityIsTotal
  <1> HIDE DEF Score2, Found
  <1>13. \/ First(domains, Score2(domains)) = Nothing /\ First(other, Score2(other)) = Nothing
         \/ \E i \in DOMAIN Score2(domains) : /\ First(domains, Score2(domains)) = domains[i]
                                              /\ First(other, Score2(other)) = other[(n - i) + 1]
    <2> DEFINE score == Score2(domains)
               flipped == Score2(other)
    <2>1. Mirrored(score, flipped, n) /\ n \in Nat
      BY <1>1, <1>9, <1>10, <1>11 DEF Mirrored
    <2>2. Untied(score)
      BY <1>9, <1>12 DEF Untied
    <2> HIDE DEF score, flipped
    <2>3. \/ First(domains, score) = Nothing /\ First(other, flipped) = Nothing
          \/ \E i \in DOMAIN score : /\ First(domains, score) = domains[i]
                                     /\ First(other, flipped) = other[(n - i) + 1]
      BY <2>1, <2>2, FirstBackwards
    <2> QED BY <2>3 DEF score, flipped
  <1>14. \A i \in Found(domains) :
           i \in DOMAIN domains /\ other[(n - i) + 1] = [domains[i] EXCEPT !.hosts = Reverse(@)]
    BY <1>1, <1>3, <1>4, <1>7, <1>9
  <1> QED
    BY <1>5, <1>6, <1>9, <1>13, <1>14

LEMMA ReversedFields ==
    ASSUME NEW c, {"hosts", "domains", "defaultRule", "onErrorRule"} \subseteq DOMAIN c
    PROVE  /\ Reversed(c).hosts = Reverse(c.hosts)
           /\ Reversed(c).domains = Backwards(c.domains)
           /\ Reversed(c).defaultRule = c.defaultRule
           /\ Reversed(c).onErrorRule = c.onErrorRule
  BY DEF Reversed

\* OrderDoesNotMatter: the order of the configuration never decides.
THEOREM PrecedenceIsDeterministic ==
    Spec => []OrderDoesNotMatter
  <1>1. ASSUME Inv PROVE OrderDoesNotMatter
    <2> SUFFICES ASSUME Unambiguous(engine)
                 PROVE  Evaluate(engine, in.domain, in.client, in.name, in.now)
                          = Evaluate(Reversed(engine), in.domain, in.client, in.name, in.now)
      BY DEF OrderDoesNotMatter
    <2> DEFINE turned == Reversed(engine)
               Best(hosts) == PickBestHost(in.client, in.name, hosts)
               dom == PickBestDomain(in.domain, engine.domains)
               other == PickBestDomain(in.domain, turned.domains)
    <2>1. engine.hosts \in Seq(Hosts) /\ engine.domains \in Seq(Domains)
      BY <1>1, TypedInForce
    <2>2. /\ turned.hosts = Reverse(engine.hosts) /\ turned.domains = Backwards(engine.domains)
          /\ turned.defaultRule = engine.defaultRule /\ turned.onErrorRule = engine.onErrorRule
      BY <1>1, TypedInForce, ReversedFields
    <2> HIDE DEF turned
    <2>3. Best(turned.hosts) = Best(engine.hosts)
      BY <2>1, <2>2, BestHostBackwards DEF Unambiguous
    <2>4. \/ dom = Nothing /\ other = Nothing
          \/ dom # Nothing /\ other # Nothing /\ Best(other.hosts) = Best(dom.hosts)
      <3>1. ASSUME NEW i \in DOMAIN engine.domains, dom = engine.domains[i],
                   other = [dom EXCEPT !.hosts = Reverse(@)]
            PROVE  dom # Nothing /\ other # Nothing /\ Best(other.hosts) = Best(dom.hosts)
        <4>1. dom \in Domains
          BY <2>1, <3>1
        <4>2. dom.hosts \in Seq(Hosts) /\ other.hosts = Reverse(dom.hosts)
          BY <3>1, <4>1 DEF Domains
        <4>3. DOMAIN dom = {"name", "hosts"} /\ DOMAIN other = DOMAIN dom
          BY <3>1, <4>1 DEF Domains
        <4>4. DOMAIN Nothing = {"none"}
          BY DEF Nothing
        <4>5. DistinctNames(dom.hosts)
          BY <3>1 DEF Unambiguous
        <4> HIDE DEF dom, other
        <4>6. dom # Nothing /\ other # Nothing
          BY <4>3, <4>4
        <4> QED BY <4>2, <4>5, <4>6, BestHostBackwards
      <3> QED BY <2>1, <2>2, <3>1, BestDomainBackwards DEF Unambiguous
    <2>5. \A rules : EvaluateRules(turned, rules, in.now) = EvaluateRules(engine, rules, in.now)
      BY <2>2 DEF EvaluateRules
    <2> HIDE DEF dom, other
    <2>6. dom = PickBestDomain(in.domain, engine.domains) /\ other = PickBestDomain(in.domain, turned.domains)
      BY DEF dom, other
    <2>7. Evaluate(engine, in.domain, in.client, in.name, in.now)
            = Evaluate(turned, in.domain, in.client, in.name, in.now)
      BY <2>2, <2>3, <2>4, <2>5, <2>6 DEF Evaluate
    <2> QED
      BY <2>7 DEF turned
  <1> QED
    BY <1>1, Invariant, PTL
=============================================================================
