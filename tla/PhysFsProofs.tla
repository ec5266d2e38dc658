---------------------------- MODULE PhysFsProofs ----------------------------
(***************************************************************************)
(* Proofs about PhysFs and its refinement, for any number of inodes,       *)
(* blocks, pointers and files.                                             *)
(***************************************************************************)
EXTENDS PhysFsRefinement, Induction

-----------------------------------------------------------------------------
(***************************************************************************)
(* The operators on sequences and sets.                                    *)
(***************************************************************************)

\* Append adds one place at the end, and o joins.
LEMMA AppendFacts ==
  ASSUME NEW X, NEW s \in Seq(X), NEW x \in X
  PROVE  /\ Append(s, x) \in Seq(X) /\ Len(Append(s, x)) = Len(s) + 1
         /\ \A i \in 1 .. Len(s) : Append(s, x)[i] = s[i]
         /\ Append(s, x)[Len(s) + 1] = x
OBVIOUS

LEMMA JoinFacts ==
  ASSUME NEW X, NEW s \in Seq(X), NEW t \in Seq(X)
  PROVE  /\ s \o t \in Seq(X) /\ Len(s \o t) = Len(s) + Len(t)
         /\ \A i \in 1 .. Len(s) : (s \o t)[i] = s[i]
         /\ \A i \in 1 .. Len(t) : (s \o t)[Len(s) + i] = t[i]
OBVIOUS

LEMMA TailFacts ==
  ASSUME NEW X, NEW s \in Seq(X), s # <<>>
  PROVE  /\ Tail(s) \in Seq(X) /\ Len(Tail(s)) = Len(s) - 1
         /\ \A i \in 1 .. Len(Tail(s)) : Tail(s)[i] = s[i + 1]
OBVIOUS

LEMMA PrefixFacts ==
  ASSUME NEW X, NEW s, NEW n \in Int, \A i \in 1 .. n : s[i] \in X
  PROVE  /\ SubSeq(s, 1, n) \in Seq(X)
         /\ Len(SubSeq(s, 1, n)) = IF 1 <= n THEN n ELSE 0
OBVIOUS

\* Only goes through the sequence element by element: at[i] is what it has
\* kept of the first i.
Walk(at, X, s, S) ==
  /\ at \in [0 .. Len(s) -> Seq(X)]
  /\ at[0] = <<>>
  /\ \A i \in 1 .. Len(s) :
       at[i] = IF s[i] \in S THEN Append(at[i - 1], s[i]) ELSE at[i - 1]
  /\ Only(s, S) = at[Len(s)]

LEMMA OnlySteps ==
  ASSUME NEW X, NEW s \in Seq(X), NEW S
  PROVE  \E at : Walk(at, X, s, S)
<1> DEFINE n == Len(s)
           Step(i, q) == IF s[i] \in S THEN Append(q, s[i]) ELSE q
           IsTo(f, m) == f = [i \in 0 .. m |-> IF i = 0 THEN <<>>
                                               ELSE IF s[i] \in S THEN Append(f[i - 1], s[i])
                                               ELSE f[i - 1]]
           Is(f) == IsTo(f, n)
           Upto == {m \in Nat : \E f : IsTo(f, m)}
<1>1. n \in Nat /\ <<>> \in Seq(X) OBVIOUS
<1>2. 0 \in Upto
  <2> DEFINE f == [i \in 0 .. 0 |-> <<>>]
  <2>1. IsTo(f, 0) OBVIOUS
  <2> QED BY <2>1, Zenon
<1>3. ASSUME NEW m \in Nat, m \in Upto PROVE m + 1 \in Upto
  <2>1. PICK f : IsTo(f, m) BY <1>3, Zenon
  <2> DEFINE g == [i \in 0 .. m + 1 |-> IF i = m + 1 THEN Step(m + 1, f[m]) ELSE f[i]]
  <2>2. \A i \in 0 .. m + 1 : g[i] = IF i = 0 THEN <<>> ELSE Step(i, g[i - 1])
    <3> HIDE DEF Step
    <3>1. f = [i \in 0 .. m |-> IF i = 0 THEN <<>> ELSE Step(i, f[i - 1])]
      BY <2>1, Zenon DEF Step
    <3> QED BY <3>1
  <2>3. IsTo(g, m + 1)
    <3>1. g = [i \in 0 .. m + 1 |-> g[i]] BY Zenon
    <3> HIDE DEF g
    <3> QED BY <2>2, <3>1, Zenon
  <2>4. \E h : IsTo(h, m + 1)
    <3> HIDE DEF g
    <3> QED BY <2>3, Zenon
  <2>5. m + 1 \in Nat OBVIOUS
  <2> HIDE DEF IsTo
  <2> QED BY <2>4, <2>5, Zenon
<1>5. \E f : Is(f)
  <2>1. n \in Upto
    <3> HIDE DEF Upto
    <3> QED BY <1>1, <1>2, <1>3, SetInduction, Zenon
  <2> QED BY <2>1, Zenon
<1> DEFINE at == CHOOSE g : Is(g)
<1>6. Is(at) BY <1>5, Zenon
<1>7. Only(s, S) = at[n] BY Zenon DEF Only
<1> HIDE DEF at
<1>12. DOMAIN at = 0 .. n /\ at[0] = <<>> BY <1>6
<1>13. \A i \in 1 .. n : at[i] = IF s[i] \in S THEN Append(at[i - 1], s[i]) ELSE at[i - 1]
  <2> SUFFICES ASSUME NEW i \in 1 .. n
               PROVE  at[i] = IF s[i] \in S THEN Append(at[i - 1], s[i]) ELSE at[i - 1]
    BY Zenon
  <2>1. i \in 0 .. n /\ i # 0 OBVIOUS
  <2> QED BY <1>6, <2>1, Zenon
<1> DEFINE T == {i \in Nat : i <= n => at[i] \in Seq(X)}
<1>8. 0 \in T BY <1>1, <1>6
<1>9. ASSUME NEW i \in Nat, i \in T PROVE i + 1 \in T
  <2> SUFFICES ASSUME i + 1 <= n PROVE at[i + 1] \in Seq(X) OBVIOUS
  <2>1. at[i] \in Seq(X) /\ s[i + 1] \in X BY <1>9
  <2>2. at[i + 1] = IF s[i + 1] \in S THEN Append(at[i], s[i + 1]) ELSE at[i]
    <3>1. i + 1 \in 1 .. n /\ (i + 1) - 1 = i OBVIOUS
    <3> HIDE DEF n
    <3> QED BY <1>13, <3>1, Zenon
  <2> QED BY <2>1, <2>2, AppendFacts
<1>10. \A i \in 0 .. n : at[i] \in Seq(X)
  <2>1. Nat \subseteq T
    <3> HIDE DEF T
    <3> QED BY <1>8, <1>9, SetInduction, Zenon
  <2> QED BY <2>1
<1>11. at \in [0 .. n -> Seq(X)]
  <2>1. DOMAIN at = 0 .. n /\ at = [i \in 0 .. n |-> at[i]] BY <1>6, Zenon
  <2> HIDE DEF Is, n
  <2> QED BY <1>10, <2>1, Zenon
<1> QED BY <1>7, <1>11, <1>12, <1>13, Zenon DEF Walk

\* Where the elements in S are the first n, Only returns them.
LEMMA OnlyPrefix ==
  ASSUME NEW X, NEW s \in Seq(X), NEW S, NEW n \in 0 .. Len(s),
         \A i \in 1 .. Len(s) : s[i] \in S <=> i <= n
  PROVE  /\ Only(s, S) \in Seq(X)
         /\ Len(Only(s, S)) = n
         /\ \A i \in 1 .. n : Only(s, S)[i] = s[i]
<1>0. PICK at : Walk(at, X, s, S) BY OnlySteps, Zenon
<1>1. /\ at \in [0 .. Len(s) -> Seq(X)]
      /\ at[0] = <<>>
      /\ \A i \in 1 .. Len(s) :
           at[i] = IF s[i] \in S THEN Append(at[i - 1], s[i]) ELSE at[i - 1]
      /\ Only(s, S) = at[Len(s)]
  BY <1>0, Zenon DEF Walk
<1> DEFINE Upto(i) == IF i <= n THEN i ELSE n
           Prefix(i) == /\ Len(at[i]) = Upto(i)
                        /\ \A k \in 1 .. Upto(i) : at[i][k] = s[k]
           T == {i \in Nat : i <= Len(s) => Prefix(i)}
<1>2. Len(s) \in Nat OBVIOUS
<1>3. 0 \in T BY <1>1, <1>2
<1>4. ASSUME NEW i \in Nat, i \in T PROVE i + 1 \in T
  <2> SUFFICES ASSUME i + 1 <= Len(s) PROVE Prefix(i + 1) OBVIOUS
  <2>0. i \in 0 .. Len(s) /\ i + 1 \in 1 .. Len(s) BY <1>2
  <2>1. at[i] \in Seq(X) /\ s[i + 1] \in X /\ Prefix(i)
    <3>1. Prefix(i)
      <4> HIDE DEF Prefix
      <4> QED BY <1>2, <1>4
    <3> QED BY <1>1, <2>0, <3>1
  <2>2. at[i + 1] = IF s[i + 1] \in S THEN Append(at[i], s[i + 1]) ELSE at[i] BY <1>1
  <2>3. CASE i + 1 <= n
    <3>1. at[i + 1] = Append(at[i], s[i + 1]) BY <2>2, <2>3
    <3>2. Upto(i + 1) = i + 1 /\ Upto(i) = i /\ Len(at[i]) = i BY <2>1, <2>3
    <3>3. /\ Len(at[i + 1]) = i + 1 /\ at[i + 1][i + 1] = s[i + 1]
          /\ \A k \in 1 .. i : at[i + 1][k] = at[i][k]
      BY <2>1, <3>1, <3>2, AppendFacts
    <3>4. \A k \in 1 .. i : at[i][k] = s[k] BY <2>1, <3>2, Zenon
    <3> QED BY <3>2, <3>3, <3>4
  <2>4. CASE ~ (i + 1 <= n)
    <3>1. at[i + 1] = at[i] BY <2>2, <2>4
    <3>2. Upto(i + 1) = Upto(i) BY <2>4
    <3> QED BY <2>1, <3>1, <3>2, Zenon
  <2> QED BY <2>3, <2>4, Zenon
<1>5. Len(s) \in T
  <2> HIDE DEF T
  <2> QED BY <1>2, <1>3, <1>4, SetInduction, Zenon
<1> QED BY <1>1, <1>2, <1>5

\* Only keeps the elements in S, each once and none else.
LEMMA OnlyFacts ==
  ASSUME NEW X, NEW s \in Seq(X), NEW S
  PROVE  /\ Only(s, S) \in Seq(X)
         /\ Len(Only(s, S)) <= Len(s)
         /\ \E g \in [1 .. Len(Only(s, S)) -> 1 .. Len(s)] :
              /\ \A k \in 1 .. Len(Only(s, S)) : Only(s, S)[k] = s[g[k]] /\ s[g[k]] \in S
              /\ \A k, l \in 1 .. Len(Only(s, S)) : k # l => g[k] # g[l]
              /\ \A j \in 1 .. Len(s) : s[j] \in S => \E k \in 1 .. Len(Only(s, S)) : g[k] = j
<1>0. PICK at : Walk(at, X, s, S) BY OnlySteps, Zenon
<1>1. /\ at \in [0 .. Len(s) -> Seq(X)]
      /\ at[0] = <<>>
      /\ \A i \in 1 .. Len(s) :
           at[i] = IF s[i] \in S THEN Append(at[i - 1], s[i]) ELSE at[i - 1]
      /\ Only(s, S) = at[Len(s)]
  BY <1>0, Zenon DEF Walk
<1> DEFINE Picks(g, i) ==
             /\ g \in [1 .. Len(at[i]) -> 1 .. i]
             /\ \A k \in 1 .. Len(at[i]) : at[i][k] = s[g[k]] /\ s[g[k]] \in S
             /\ \A k, l \in 1 .. Len(at[i]) : k # l => g[k] # g[l]
             /\ \A j \in 1 .. i : s[j] \in S => \E k \in 1 .. Len(at[i]) : g[k] = j
           Good(i) == Len(at[i]) <= i /\ \E g : Picks(g, i)
           T == {i \in Nat : i <= Len(s) => Good(i)}
<1>2. Len(s) \in Nat OBVIOUS
<1>3. 0 \in T
  <2>1. Picks([k \in 1 .. 0 |-> 0], 0) BY <1>1
  <2>2. \E g : Picks(g, 0) BY <2>1, Zenon
  <2>3. Len(at[0]) <= 0 BY <1>1
  <2> QED BY <2>2, <2>3, Zenon
<1>4. ASSUME NEW i \in Nat, i \in T PROVE i + 1 \in T
  <2> SUFFICES ASSUME i + 1 <= Len(s) PROVE Good(i + 1)
    <3> HIDE DEF Good
    <3> QED OBVIOUS
  <2>0. i \in 0 .. Len(s) /\ i + 1 \in 1 .. Len(s) BY <1>2
  <2>1. at[i] \in Seq(X) /\ s[i + 1] \in X BY <1>1, <2>0
  <2>2. Len(at[i]) <= i /\ \E g : Picks(g, i)
    <3>1. Good(i)
      <4> HIDE DEF Good
      <4> QED BY <1>2, <1>4
    <3> QED BY <3>1, Zenon
  <2>3. PICK g : Picks(g, i) BY <2>2, Zenon
  <2>4. at[i + 1] = IF s[i + 1] \in S THEN Append(at[i], s[i + 1]) ELSE at[i] BY <1>1
  <2> DEFINE m == Len(at[i])
  <2>5. m \in Nat BY <2>1
  <2>6. CASE s[i + 1] \in S
    <3> DEFINE h == [k \in 1 .. m + 1 |-> IF k = m + 1 THEN i + 1 ELSE g[k]]
    <3>1. /\ Len(at[i + 1]) = m + 1 /\ at[i + 1][m + 1] = s[i + 1]
          /\ \A k \in 1 .. m : at[i + 1][k] = at[i][k]
      BY <2>1, <2>4, <2>6, AppendFacts
    <3>2. g \in [1 .. m -> 1 .. i] BY <2>3, Zenon
    <3> HIDE DEF m
    <3>3. /\ h \in [1 .. m + 1 -> 1 .. i + 1] /\ h[m + 1] = i + 1
          /\ \A k \in 1 .. m : h[k] = g[k] /\ h[k] \in 1 .. i
      BY <2>5, <3>2
    <3> HIDE DEF h
    <3>4. \A k \in 1 .. m + 1 : k # m + 1 => k \in 1 .. m BY <2>5
    <3>5. \A k \in 1 .. m + 1 : at[i + 1][k] = s[h[k]] /\ s[h[k]] \in S
      BY <2>3, <2>6, <3>1, <3>3, <3>4, Zenon DEF m
    <3>6. \A k, l \in 1 .. m + 1 : k # l => h[k] # h[l]
      BY <2>3, <3>3, <3>4 DEF m
    <3>7. ASSUME NEW j \in 1 .. i + 1, s[j] \in S PROVE \E k \in 1 .. m + 1 : h[k] = j
      <4>1. CASE j = i + 1 BY <2>5, <3>3, <4>1
      <4>2. CASE j # i + 1
        <5>1. j \in 1 .. i BY <4>2
        <5>2. PICK k \in 1 .. m : g[k] = j BY <2>3, <3>7, <5>1, Zenon DEF m
        <5> QED BY <2>5, <3>3, <5>2
      <4> QED BY <4>1, <4>2, Zenon
    <3>8. Picks(h, i + 1) BY <3>1, <3>3, <3>5, <3>6, <3>7, Zenon
    <3>9. Len(at[i + 1]) <= i + 1 BY <2>2, <2>5, <3>1 DEF m
    <3> QED BY <3>8, <3>9, Zenon
  <2>7. CASE s[i + 1] \notin S
    <3>1. at[i + 1] = at[i] BY <2>4, <2>7, Zenon
    <3>2. g \in [1 .. Len(at[i]) -> 1 .. i + 1] BY <2>3
    <3>3. ASSUME NEW j \in 1 .. i + 1, s[j] \in S PROVE j \in 1 .. i BY <2>7, <3>3
    <3>4. Picks(g, i + 1) BY <2>3, <3>1, <3>2, <3>3, Zenon
    <3>5. Len(at[i + 1]) <= i + 1 BY <2>2, <2>5, <3>1
    <3> QED BY <3>4, <3>5, Zenon
  <2> QED BY <2>6, <2>7, Zenon
<1>5. Good(Len(s))
  <2>1. Len(s) \in T
    <3> HIDE DEF T
    <3> QED BY <1>2, <1>3, <1>4, SetInduction, Zenon
  <2> QED BY <1>2, <2>1
<1>6. Only(s, S) \in Seq(X) BY <1>1
<1>7. PICK g : Picks(g, Len(s)) BY <1>5, Zenon
<1> DEFINE o == Only(s, S)
<1>8. /\ g \in [1 .. Len(o) -> 1 .. Len(s)]
      /\ \A k \in 1 .. Len(o) : o[k] = s[g[k]] /\ s[g[k]] \in S
      /\ \A k, l \in 1 .. Len(o) : k # l => g[k] # g[l]
      /\ \A j \in 1 .. Len(s) : s[j] \in S => \E k \in 1 .. Len(o) : g[k] = j
  BY <1>1, <1>7, Zenon
<1>9. Len(o) <= Len(s) BY <1>1, <1>5, Zenon
<1> QED BY <1>6, <1>8, <1>9, Zenon

\* Where an element is not in S, the result is shorter.
LEMMA OnlyShorter ==
  ASSUME NEW X, NEW s \in Seq(X), NEW S, NEW j \in 1 .. Len(s), s[j] \notin S
  PROVE  Len(Only(s, S)) < Len(s)
<1>0. PICK at : Walk(at, X, s, S) BY OnlySteps, Zenon
<1>1. /\ at \in [0 .. Len(s) -> Seq(X)]
      /\ at[0] = <<>>
      /\ \A i \in 1 .. Len(s) :
           at[i] = IF s[i] \in S THEN Append(at[i - 1], s[i]) ELSE at[i - 1]
      /\ Only(s, S) = at[Len(s)]
  BY <1>0, Zenon DEF Walk
<1> DEFINE Short(i) == Len(at[i]) <= i /\ (j <= i => Len(at[i]) < i)
           T == {i \in Nat : i <= Len(s) => Short(i)}
<1>2. Len(s) \in Nat /\ j \in Nat \ {0} OBVIOUS
<1>3. 0 \in T BY <1>1, <1>2
<1>4. ASSUME NEW i \in Nat, i \in T PROVE i + 1 \in T
  <2> SUFFICES ASSUME i + 1 <= Len(s) PROVE Short(i + 1)
    <3> HIDE DEF Short
    <3> QED OBVIOUS
  <2>0. i \in 0 .. Len(s) /\ i + 1 \in 1 .. Len(s) BY <1>2
  <2>1. at[i] \in Seq(X) /\ s[i + 1] \in X BY <1>1, <2>0, SMTT(30)
  <2>2. Short(i)
    <3> HIDE DEF Short
    <3> QED BY <1>2, <1>4
  <2>3. at[i + 1] = IF s[i + 1] \in S THEN Append(at[i], s[i + 1]) ELSE at[i] BY <1>1, <2>0
  <2>4. Len(at[i]) \in Nat BY <2>1
  <2>5. Len(at[i + 1]) = IF s[i + 1] \in S THEN Len(at[i]) + 1 ELSE Len(at[i])
    BY <2>1, <2>3, AppendFacts
  <2>6. j = i + 1 => s[i + 1] \notin S BY Zenon
  <2> QED BY <1>2, <2>2, <2>4, <2>5, <2>6
<1>5. Short(Len(s))
  <2>1. Len(s) \in T
    <3> HIDE DEF T
    <3> QED BY <1>2, <1>3, <1>4, SetInduction, Zenon
  <2> QED BY <1>2, <2>1
<1> QED BY <1>1, <1>2, <1>5

\* The first element of a set, where there is one.
LEMMA LowestFacts ==
  ASSUME NEW S, S \subseteq Nat, S # {}
  PROVE  Lowest(S) \in S
<1>1. \E b \in S : \A c \in S : b <= c BY LeastNatural, Zenon
<1> QED BY <1>1, Zenon DEF Lowest

-----------------------------------------------------------------------------
(***************************************************************************)
(* Inodes and the blocks they point to, whether or not a file needs its    *)
(* indirect block.                                                         *)
(***************************************************************************)
Index == 0 .. NumDirect - 1

\* An inode uses its direct pointers from the first on, as many as it has
\* blocks, and the pointer block only when they are not enough.  An inode
\* without blocks is one without a name.
Inodes ==
  { inode \in [name : Names \cup {NoName}, num : 0 .. MaxBlocks + 1,
               direct : [Index -> Blocks], single : Blocks] :
      /\ \A k \in Index : inode.direct[k] # 0 <=> k < inode.num
      /\ inode.num <= NumDirect => inode.single = 0
      /\ inode.num = 0 <=> inode.name = NoName }

Array == [Blocks -> [Words -> Nat]]

\* The part of the inductive invariant that holds for files of any size.
GInv ==
  /\ inode_table \in Seq(Inodes) /\ Len(inode_table) <= NumInodes
  /\ data_blocks \in Array
  /\ disk \in [inodes : Seq(Inodes), blocks : Array] /\ Len(disk.inodes) = NumInodes
  /\ kernel \in {"running", "panicked"}
  /\ shifted \in BOOLEAN

LEMMA ConstantTypes ==
  /\ NumInodes \in Nat \ {0} /\ NumBlocks \in Nat \ {0} /\ NumDirect \in Nat \ {0}
  /\ PointersPerBlock \in Nat \ {0, 1}
  /\ MaxBlocks \in Nat \ {0}
  /\ 0 \in Blocks /\ 0 \in Index /\ 0 \in Words /\ 1 \in Words
BY PhysFsAssumption DEF Blocks, Index, Words

\* find_inode_by_name returns the first inode of that name.
LEMMA IndexOfFacts ==
  ASSUME NEW table \in Seq(Inodes), NEW f, Exists(table, f)
  PROVE  /\ IndexOf(table, f) \in 1 .. Len(table)
         /\ table[IndexOf(table, f)].name = f
<1> DEFINE T == {i \in 1 .. Len(table) : table[i].name = f}
<1>1. DOMAIN table = 1 .. Len(table) /\ Len(table) \in Nat OBVIOUS
<1>2. T \subseteq Nat /\ T # {} BY <1>1 DEF Exists
<1>3. PICK i \in T : \A j \in T : i <= j
  <2> HIDE DEF T
  <2> QED BY <1>2, LeastNatural, Zenon
<1>4. \A j \in 1 .. i - 1 : table[j].name # f
  <2> SUFFICES ASSUME NEW j \in 1 .. i - 1, table[j].name = f PROVE FALSE BY Zenon
  <2>1. j \in T /\ j < i BY <1>1, <1>3
  <2> QED BY <1>1, <1>3, <2>1
<1>5. \E k \in DOMAIN table : table[k].name = f /\ \A j \in 1 .. k - 1 : table[j].name # f
  BY <1>1, <1>3, <1>4, Zenon
<1>6. IndexOf(table, f) \in DOMAIN table /\ table[IndexOf(table, f)].name = f
  BY <1>5, Zenon DEF IndexOf
<1> QED BY <1>1, <1>6, Zenon

\* The direct pointers in use come first in the list of addresses; no address
\* is 0.
LEMMA AddressesFacts ==
  ASSUME NEW inode \in Inodes, NEW blocks \in Array
  PROVE  /\ Addresses(inode, blocks) \in Seq(Nat \ {0})
         /\ \A i \in 1 .. NumDirect : i <= inode.num =>
              i <= Len(Addresses(inode, blocks)) /\ Addresses(inode, blocks)[i] = inode.direct[i - 1]
         /\ inode.num <= NumDirect => Len(Addresses(inode, blocks)) = inode.num
<1> DEFINE d == Direct(inode)
           S == Nat \ {0}
           m == IF inode.num <= NumDirect THEN inode.num ELSE NumDirect
           rest == IF inode.single = 0 THEN <<>>
                   ELSE Only(Pointers(blocks[inode.single]), S)
<1>1. /\ inode.num \in Nat /\ inode.single \in Blocks
      /\ inode.direct \in [Index -> Blocks]
      /\ \A k \in Index : inode.direct[k] # 0 <=> k < inode.num
      /\ inode.num <= NumDirect => inode.single = 0
  BY ConstantTypes DEF Inodes
<1>2. NumDirect \in Nat /\ m \in 0 .. NumDirect BY <1>1, ConstantTypes
<1>3. d \in Seq(Blocks) /\ Len(d) = NumDirect /\ \A i \in 1 .. NumDirect : d[i] = inode.direct[i - 1]
  <2>1. \A i \in 1 .. NumDirect : i - 1 \in Index BY <1>2 DEF Index
  <2>2. d \in [1 .. NumDirect -> Blocks] BY <1>1, <2>1, Zenon DEF Direct
  <2> QED BY <1>2, <2>2 DEF Direct
<1>4. \A i \in 1 .. Len(d) : d[i] \in S <=> i <= m
  <2> SUFFICES ASSUME NEW i \in 1 .. NumDirect PROVE d[i] \in S <=> i <= m BY <1>3, Zenon
  <2>1. i - 1 \in Index BY <1>2 DEF Index
  <2>2. d[i] = inode.direct[i - 1] BY <1>3, Zenon
  <2>3. d[i] \in Nat BY <1>1, <2>1, <2>2 DEF Blocks
  <2>4. d[i] # 0 <=> i - 1 < inode.num BY <1>1, <2>1, <2>2, Zenon
  <2> HIDE DEF d
  <2> QED BY <1>1, <1>2, <2>3, <2>4
<1> HIDE DEF d, S
<1>5. /\ Only(d, S) \in Seq(Blocks) /\ Len(Only(d, S)) = m
      /\ \A i \in 1 .. m : Only(d, S)[i] = d[i]
  <2>1. m \in 0 .. Len(d) BY <1>2, <1>3, Zenon
  <2> HIDE DEF m
  <2> QED BY <1>3, <1>4, <2>1, OnlyPrefix, ZenonT(30)
<1>6. Only(d, S) \in Seq(S)
  <2>1. \A i \in 1 .. m : Only(d, S)[i] \in S BY <1>2, <1>3, <1>4, <1>5
  <2>2. Only(d, S) \in [1 .. m -> S] BY <1>5, <2>1
  <2> QED BY <1>2, <2>2
<1>7. rest \in Seq(S) /\ (inode.num <= NumDirect => rest = <<>>)
  <2>1. CASE inode.single = 0 BY <2>1
  <2>2. CASE inode.single # 0
    <3> DEFINE p == Pointers(blocks[inode.single])
    <3>1. p \in Seq(Nat)
      <4>1. blocks[inode.single] \in [Words -> Nat] BY <1>1, Zenon DEF Array
      <4>2. \A i \in 1 .. PointersPerBlock : i - 1 \in Words BY ConstantTypes DEF Words
      <4>3. p \in [1 .. PointersPerBlock -> Nat] BY <4>1, <4>2, Zenon DEF Pointers
      <4> QED BY <4>3, ConstantTypes
    <3> HIDE DEF p
    <3> DEFINE o == Only(p, S)
    <3>2. o \in Seq(Nat) BY <3>1, OnlyFacts, Zenon
    <3>3. \A k \in 1 .. Len(o) : o[k] \in S BY <3>1, OnlyFacts, SMTT(30)
    <3>4. o \in Seq(S)
      <4> HIDE DEF o
      <4> QED BY <3>2, <3>3
    <3> QED BY <1>1, <2>2, <3>4, Zenon DEF p
  <2> QED BY <2>1, <2>2, Zenon
<1>8. Addresses(inode, blocks) = Only(d, S) \o rest BY Zenon DEF Addresses, d, S
<1> HIDE DEF rest
<1> DEFINE o == Only(d, S)
<1> HIDE DEF o
<1>9. /\ o \o rest \in Seq(S) /\ Len(o \o rest) = Len(o) + Len(rest)
      /\ \A i \in 1 .. Len(o) : (o \o rest)[i] = o[i]
  BY <1>6, <1>7, JoinFacts DEF o
<1>10. Len(o) = m /\ \A i \in 1 .. m : o[i] = d[i] BY <1>5, Zenon DEF o
<1>11. Addresses(inode, blocks) = o \o rest BY <1>8, Zenon DEF o
<1>12. Addresses(inode, blocks) \in Seq(Nat \ {0}) BY <1>9, <1>11, Zenon DEF S
<1>13. inode.num <= NumDirect => Len(Addresses(inode, blocks)) = inode.num
  <2> SUFFICES ASSUME inode.num <= NumDirect PROVE Len(o \o rest) = inode.num BY <1>11, Zenon
  <2>1. rest = <<>> BY <1>7, Zenon
  <2> QED BY <1>1, <1>9, <1>10, <2>1
<1>14. ASSUME NEW i \in 1 .. NumDirect, i <= inode.num
       PROVE  i <= Len(Addresses(inode, blocks)) /\ Addresses(inode, blocks)[i] = inode.direct[i - 1]
  <2>1. i \in 1 .. m BY <1>1, <1>2, <1>14
  <2>2. Len(rest) \in Nat BY <1>7
  <2>3. i <= Len(o \o rest) BY <1>2, <1>9, <1>10, <2>1, <2>2
  <2>4. (o \o rest)[i] = d[i] BY <1>9, <1>10, <2>1, Zenon
  <2> QED BY <1>3, <1>11, <2>3, <2>4, Zenon
<1> QED BY <1>12, <1>13, <1>14, Zenon

\* find_empty_data_block returns a block number other than 0.
LEMMA EmptyBlocksFacts ==
  ASSUME NEW table, NEW blocks, NEW ignore
  PROVE  LET empty == EmptyBlocks(table, blocks, ignore)
         IN /\ empty \subseteq Blocks \ {0} /\ empty \subseteq Nat
            /\ empty # {} => Lowest(empty) \in empty
<1> DEFINE empty == EmptyBlocks(table, blocks, ignore)
<1>1. empty \subseteq 1 .. NumBlocks - 1 BY Zenon DEF EmptyBlocks
<1>2. 1 .. NumBlocks - 1 \subseteq Blocks \ {0} /\ 1 .. NumBlocks - 1 \subseteq Nat
  BY ConstantTypes DEF Blocks
<1> HIDE DEF empty
<1>3. empty \subseteq Nat /\ empty \subseteq Blocks \ {0} BY <1>1, <1>2, Zenon
<1>4. empty # {} => Lowest(empty) \in empty BY <1>3, LowestFacts, Zenon
<1> QED BY <1>3, <1>4, Zenon DEF empty

\* A write takes each empty block once.
LEMMA InOrderFacts ==
  ASSUME NEW S
  PROVE  /\ InOrder(S) \in Seq(S)
         /\ \A i, j \in 1 .. Len(InOrder(S)) : i # j => InOrder(S)[i] # InOrder(S)[j]
<1> DEFINE n == NumBlocks - 1
           s == [b \in 1 .. n |-> b]
           o == Only(s, S)
<1>1. n \in Nat BY ConstantTypes
<1> HIDE DEF n
<1>2. s \in Seq(Nat) /\ Len(s) = n /\ \A b \in 1 .. n : s[b] = b BY <1>1
<1> HIDE DEF s
<1>3. PICK g \in [1 .. Len(o) -> 1 .. Len(s)] :
        /\ \A k \in 1 .. Len(o) : o[k] = s[g[k]] /\ s[g[k]] \in S
        /\ \A k, l \in 1 .. Len(o) : k # l => g[k] # g[l]
  BY <1>2, OnlyFacts
<1>4. o \in Seq(Nat) BY <1>2, OnlyFacts, Zenon
<1>5. InOrder(S) = o BY Zenon DEF InOrder, o, s, n
<1> HIDE DEF o
<1>6. \A k \in 1 .. Len(o) : o[k] = g[k] /\ o[k] \in S BY <1>2, <1>3, Zenon
<1>7. o \in Seq(S) BY <1>4, <1>6
<1> QED BY <1>3, <1>5, <1>6, <1>7

\* The list of blocks a write goes to begins with the file's own direct
\* blocks; the block numbers are not 0.
LEMMA TargetsFacts ==
  ASSUME data_blocks \in Array, NEW inode \in Inodes, inode.num # 0, NEW len \in Nat
  PROVE  /\ Targets(inode, len) \in Seq(Nat \ {0})
         /\ Len(Targets(inode, len)) <= len
         /\ \A k \in 1 .. Len(Targets(inode, len)) :
              k < inode.num /\ k < NumDirect => Targets(inode, len)[k] = inode.direct[k]
         /\ inode.num <= NumDirect =>
              \A k \in 1 .. Len(Targets(inode, len)) : inode.num <= k =>
                /\ Targets(inode, len)[k] \in
                     EmptyBlocks(inode_table, data_blocks, Range(Tail(Addresses(inode, data_blocks))))
                /\ \A l \in 1 .. Len(Targets(inode, len)) :
                     inode.num <= l /\ l # k => Targets(inode, len)[l] # Targets(inode, len)[k]
<1> DEFINE S == Nat \ {0}
           addr == Addresses(inode, data_blocks)
           own == Tail(addr)
           E == EmptyBlocks(inode_table, data_blocks, Range(own))
           fresh == InOrder(E)
           all == own \o fresh
           top == IF len <= Len(all) THEN len ELSE Len(all)
<1>1. inode.num \in Nat /\ NumDirect \in Nat \ {0} BY ConstantTypes DEF Inodes
<1>2. /\ addr \in Seq(S)
      /\ \A i \in 1 .. NumDirect : i <= inode.num =>
           i <= Len(addr) /\ addr[i] = inode.direct[i - 1]
      /\ inode.num <= NumDirect => Len(addr) = inode.num
  BY AddressesFacts, Zenon
<1>3. addr # <<>>
  <2>1. 1 <= Len(addr) BY <1>1, <1>2
  <2> QED BY <2>1
<1> HIDE DEF addr, S
<1>4. own \in Seq(S) /\ Len(own) = Len(addr) - 1 /\ \A i \in 1 .. Len(own) : own[i] = addr[i + 1]
  BY <1>2, <1>3, TailFacts, Zenon
<1> HIDE DEF own
<1>5. /\ fresh \in Seq(S) /\ fresh \in Seq(E)
      /\ \A i, j \in 1 .. Len(fresh) : i # j => fresh[i] # fresh[j]
  <2>1. E \subseteq S /\ E \subseteq Nat BY EmptyBlocksFacts, Zenon DEF S, Blocks
  <2> HIDE DEF E
  <2>2. /\ InOrder(E) \in Seq(E)
        /\ \A i, j \in 1 .. Len(InOrder(E)) : i # j => InOrder(E)[i] # InOrder(E)[j]
    BY InOrderFacts, Zenon
  <2>3. fresh \in Seq(E) /\ \A i, j \in 1 .. Len(fresh) : i # j => fresh[i] # fresh[j]
    BY <2>2, Zenon
  <2> HIDE DEF fresh
  <2>4. fresh \in Seq(S)
    <3>1. fresh \in Seq(E) /\ E \subseteq S BY <2>1, <2>3, Zenon
    <3> QED BY ONLY <3>1
  <2> QED BY <2>3, <2>4, Zenon
<1> HIDE DEF fresh, E
<1>6. /\ all \in Seq(S) /\ Len(all) = Len(own) + Len(fresh)
      /\ \A i \in 1 .. Len(own) : all[i] = own[i]
      /\ \A i \in 1 .. Len(all) : i > Len(own) =>
           i - Len(own) \in 1 .. Len(fresh) /\ all[i] = fresh[i - Len(own)]
  <2>1. own \in Seq(S) /\ fresh \in Seq(S) /\ Len(own) \in Nat /\ Len(fresh) \in Nat BY <1>4, <1>5
  <2>2. /\ own \o fresh \in Seq(S) /\ Len(own \o fresh) = Len(own) + Len(fresh)
        /\ \A i \in 1 .. Len(own) + Len(fresh) : (own \o fresh)[i] =
             IF i <= Len(own) THEN own[i] ELSE fresh[i - Len(own)]
    BY <2>1, JoinFacts
  <2>3. \A i \in 1 .. Len(own) : all[i] = own[i] BY <2>1, <2>2
  <2>4. ASSUME NEW i \in 1 .. Len(all), i > Len(own)
        PROVE  i - Len(own) \in 1 .. Len(fresh) /\ all[i] = fresh[i - Len(own)]
    <3>1. i \in 1 .. Len(own) + Len(fresh) /\ ~ (i <= Len(own)) BY <2>1, <2>2, <2>4
    <3>2. i - Len(own) \in 1 .. Len(fresh) BY <2>1, <3>1
    <3> QED BY <2>2, <3>1, <3>2, Zenon
  <2> QED BY <2>2, <2>3, <2>4, Zenon
<1> HIDE DEF all
<1>7. Len(all) \in Nat /\ top \in 0 .. Len(all) /\ top <= len BY <1>6
<1>8. Targets(inode, len) = SubSeq(all, 1, top) BY Zenon DEF Targets, all, own, addr, fresh, E
<1> HIDE DEF top
<1>9. /\ SubSeq(all, 1, top) \in Seq(S) /\ Len(SubSeq(all, 1, top)) = top
      /\ \A i \in 1 .. top : SubSeq(all, 1, top)[i] = all[i]
  BY <1>6, <1>7
<1>10. ASSUME NEW k \in 1 .. top, k < inode.num, k < NumDirect
       PROVE  all[k] = inode.direct[k]
  <2>1. k + 1 \in 1 .. NumDirect /\ k + 1 <= inode.num /\ (k + 1) - 1 = k BY <1>1, <1>7, <1>10
  <2>2. k + 1 <= Len(addr) /\ addr[k + 1] = inode.direct[k] BY <1>2, <2>1, Zenon
  <2>3. k \in 1 .. Len(own) BY <1>2, <1>4, <1>7, <2>2
  <2> QED BY <1>4, <1>6, <2>2, <2>3, Zenon
<1>11. Targets(inode, len) \in Seq(S) /\ Len(Targets(inode, len)) = top BY <1>8, <1>9, Zenon
<1>12. \A k \in 1 .. top : k < inode.num /\ k < NumDirect => Targets(inode, len)[k] = inode.direct[k]
  BY <1>8, <1>9, <1>10, Zenon
<1>13. ASSUME inode.num <= NumDirect, NEW k \in 1 .. top, inode.num <= k
       PROVE  /\ Targets(inode, len)[k] \in E
              /\ \A l \in 1 .. top :
                   inode.num <= l /\ l # k => Targets(inode, len)[l] # Targets(inode, len)[k]
  <2>1. Len(own) = inode.num - 1 BY <1>2, <1>4, <1>13, Zenon
  <2>2. ASSUME NEW l \in 1 .. top, inode.num <= l
        PROVE  /\ l - Len(own) \in 1 .. Len(fresh)
               /\ Targets(inode, len)[l] = fresh[l - Len(own)]
    <3>1. l \in 1 .. Len(all) /\ l > Len(own) BY <1>1, <1>7, <2>1, <2>2
    <3> QED BY <1>6, <1>8, <1>9, <3>1, Zenon
  <2>3. Targets(inode, len)[k] \in E BY <1>5, <1>13, <2>2
  <2>4. ASSUME NEW l \in 1 .. top, inode.num <= l, l # k
        PROVE  Targets(inode, len)[l] # Targets(inode, len)[k]
    <3>1. Len(own) \in Int BY <1>1, <2>1
    <3>2. l - Len(own) # k - Len(own) BY <1>7, <2>4, <3>1
    <3> QED BY <1>5, <1>13, <2>2, <2>4, <3>2, Zenon
  <2> QED BY <2>3, <2>4, Zenon
<1>14. top = Len(Targets(inode, len)) BY <1>11, Zenon
<1> HIDE DEF top
<1> QED BY <1>7, <1>11, <1>12, <1>13, <1>14, Zenon DEF S, E, own, addr

-----------------------------------------------------------------------------
(***************************************************************************)
(* Types of what write_file computes.                                      *)
(***************************************************************************)
Content == [Words -> Nat]

LEMMA ContentTypes ==
  /\ Zero \in Content
  /\ \A v \in Values : Data(v) \in Content
  /\ \A a \in Nat : Metadata(a) \in Content /\ Metadata(a)[1] = a
<1>1. NumBlocks \in Nat /\ Values \subseteq Nat /\ 1 \in Words BY ConstantTypes, PhysFsAssumption, Zenon
<1>2. \A v \in Nat : DataWord(v) \in Nat BY <1>1 DEF DataWord
<1>3. Zero \in Content BY Zenon DEF Zero, Content
<1>4. \A v \in Values : Data(v) \in Content BY <1>1, <1>2, Zenon DEF Data, Content
<1>5. \A a \in Nat : Metadata(a) \in Content
  <2> SUFFICES ASSUME NEW a \in Nat, NEW w \in Words
               PROVE  (IF w = 0 THEN DataWord(0) ELSE IF w = 1 THEN a ELSE 0) \in Nat
    BY Zenon DEF Metadata, Content
  <2> QED BY <1>2, Zenon
<1>6. \A a \in Nat : Metadata(a)[1] = a BY <1>1 DEF Metadata
<1> QED BY <1>3, <1>4, <1>5, <1>6, Zenon

\* What is written covers the old contents and the new ones.
LEMMA PaddedLenFacts ==
  ASSUME NEW len \in Nat, NEW from \in Nat, NEW n \in Nat, NEW aligned
  PROVE  LET new == PaddedLen(len, from, n, aligned)
         IN new \in Nat /\ new >= len /\ new >= from + n /\ new >= 1
<1>1. CASE aligned BY <1>1 DEF PaddedLen
<1>2. CASE ~ aligned BY <1>2 DEF PaddedLen
<1> QED BY <1>1, <1>2, Zenon

LEMMA ContentsType ==
  ASSUME NEW inode \in Inodes, inode.num # 0, NEW blocks \in Array, Readable(inode, blocks)
  PROVE  Contents(inode, blocks) \in Seq(Content) /\ Len(Contents(inode, blocks)) = inode.num - 1
<1> DEFINE addr == Addresses(inode, blocks)
           n == inode.num - 1
<1>1. inode.num \in Nat \ {0} /\ n \in Nat BY ConstantTypes DEF Inodes
<1>2. \A i \in 1 .. n : blocks[addr[i + 1]] \in Content
  <2> SUFFICES ASSUME NEW i \in 1 .. n PROVE blocks[addr[i + 1]] \in Content BY Zenon
  <2>1. i + 1 \in 2 .. inode.num BY <1>1
  <2>2. addr[i + 1] \in Blocks BY <2>1, Zenon DEF Readable
  <2> QED BY <2>2, Zenon DEF Array, Content
<1>3. Contents(inode, blocks) = [i \in 1 .. n |-> blocks[addr[i + 1]]] BY Zenon DEF Contents
<1> HIDE DEF n, addr
<1>4. Contents(inode, blocks) \in [1 .. n -> Content] BY <1>2, <1>3, Zenon
<1>5. Contents(inode, blocks) \in Seq(Content) /\ Len(Contents(inode, blocks)) = n BY <1>1, <1>4
<1> QED BY <1>5, Zenon DEF n

LEMMA OverlayType ==
  ASSUME NEW old \in Seq(Content), NEW from \in Nat, NEW n \in Nat, NEW v \in Values, NEW aligned
  PROVE  /\ Overlay(old, from, n, v, aligned) \in Seq(Content)
         /\ Len(Overlay(old, from, n, v, aligned)) = PaddedLen(Len(old), from, n, aligned)
<1> DEFINE len == PaddedLen(Len(old), from, n, aligned)
           At(i) == IF from < i /\ i <= from + n THEN Data(v)
                    ELSE IF i <= Len(old) THEN old[i] ELSE Zero
<1>1. len \in Nat BY PaddedLenFacts
<1>2. \A i \in 1 .. len : At(i) \in Content
  <2> SUFFICES ASSUME NEW i \in 1 .. len PROVE At(i) \in Content BY Zenon
  <2>1. CASE i <= Len(old)
    <3>1. old[i] \in Content BY <1>1, <2>1
    <3> QED BY <2>1, <3>1, ContentTypes, Zenon
  <2>2. CASE ~ (i <= Len(old)) BY <2>2, ContentTypes, Zenon
  <2> QED BY <2>1, <2>2, Zenon
<1>3. Overlay(old, from, n, v, aligned) = [i \in 1 .. len |-> At(i)] BY Zenon DEF Overlay
<1> HIDE DEF len, At
<1>4. Overlay(old, from, n, v, aligned) \in [1 .. len -> Content] BY <1>2, <1>3, Zenon
<1>5. Overlay(old, from, n, v, aligned) \in Seq(Content) /\ Len(Overlay(old, from, n, v, aligned)) = len
  BY <1>1, <1>4
<1> QED BY <1>5, Zenon DEF len

\* Writing blocks of contents leaves an array of blocks; the last of the
\* targets with a number decides.
LEMMA StoredType ==
  ASSUME data_blocks \in Array, NEW X, NEW targets \in Seq(X), NEW new \in Seq(Content),
         Len(targets) <= Len(new)
  PROVE  Stored(targets, new) \in Array
<1> SUFFICES ASSUME NEW b \in Blocks PROVE Stored(targets, new)[b] \in Content
  BY Zenon DEF Stored, Array, Content
<1>1. CASE \E i \in DOMAIN targets : targets[i] = b
  <2> DEFINE T == {i \in 1 .. Len(targets) : targets[i] = b}
  <2>1. DOMAIN targets = 1 .. Len(targets) /\ Len(targets) \in Nat OBVIOUS
  <2>2. T \subseteq 0 .. Len(targets) /\ T # {} BY <1>1, <2>1
  <2>3. PICK k \in T : \A m \in T : m <= k
    <3> HIDE DEF T
    <3> QED BY <2>1, <2>2, GreatestNatural, Zenon
  <2>4. \A j \in k + 1 .. Len(targets) : targets[j] # b
    <3> SUFFICES ASSUME NEW j \in k + 1 .. Len(targets), targets[j] = b PROVE FALSE BY Zenon
    <3>1. j \in T /\ j > k BY <2>1, <2>3
    <3> QED BY <2>1, <2>3, <3>1
  <2> DEFINE last == CHOOSE i \in DOMAIN targets :
                       targets[i] = b /\ \A j \in i + 1 .. Len(targets) : targets[j] # b
  <2>5. last \in DOMAIN targets BY <2>1, <2>3, <2>4, Zenon
  <2>6. Stored(targets, new)[b] = new[last] BY <1>1, Zenon DEF Stored
  <2> HIDE DEF last
  <2>7. last \in 1 .. Len(new) BY <2>1, <2>5
  <2> QED BY <2>6, <2>7
<1>2. CASE ~ \E i \in DOMAIN targets : targets[i] = b
  BY <1>2, Zenon DEF Stored, Array, Content
<1> QED BY <1>1, <1>2, Zenon

\* One pointer in the pointer block: the block stays one of the array, and so
\* do the words in it numbers.
LinkState == [ok : BOOLEAN, single : Blocks, blocks : Array]

LEMMA SetWordType ==
  ASSUME NEW blocks \in Array, NEW b, NEW w, NEW p \in Nat
  PROVE  SetWord(blocks, b, w, p) \in Array
BY Zenon DEF SetWord, Array

LEMMA LinkIndirectType ==
  ASSUME NEW st \in LinkState, NEW j, NEW target \in Nat
  PROVE  LinkIndirect(st, j, target) \in LinkState
<1> DEFINE free1 == EmptyBlocks(inode_table, st.blocks, {})
           single == IF st.single = 0 /\ free1 # {} THEN Lowest(free1) ELSE st.single
           free2 == EmptyBlocks(inode_table, st.blocks, Range(Pointers(st.blocks[single])))
           spurious == SetWord(st.blocks, single, (j - NumDirect) % PointersPerBlock,
                               Lowest(free2))
           both == SetWord(spurious, single, j % PointersPerBlock, target)
<1>1. single \in Blocks
  <2>1. free1 # {} => Lowest(free1) \in Blocks BY EmptyBlocksFacts, Zenon
  <2>2. st.single \in Blocks BY Zenon DEF LinkState
  <2> HIDE DEF free1
  <2> QED BY <2>1, <2>2, Zenon
<1> HIDE DEF single
<1>2. free2 # {} => Lowest(free2) \in Nat BY EmptyBlocksFacts, Zenon
<1> HIDE DEF free2
<1>3. st.blocks \in Array BY Zenon DEF LinkState
<1>4. free2 # {} => both \in Array BY <1>2, <1>3, SetWordType, Zenon
<1>5. LinkIndirect(st, j, target) =
        IF ~ st.ok \/ single \notin Blocks \ {0} \/ free2 = {}
        THEN [st EXCEPT !.ok = FALSE]
        ELSE [ok |-> TRUE, single |-> single, blocks |-> both]
  BY Zenon DEF LinkIndirect, single, free2
<1> HIDE DEF both
<1>6. [st EXCEPT !.ok = FALSE] \in LinkState BY Zenon DEF LinkState
<1>7. free2 # {} => [ok |-> TRUE, single |-> single, blocks |-> both] \in LinkState
  BY <1>1, <1>4, Zenon DEF LinkState
<1> QED BY <1>5, <1>6, <1>7, Zenon

\* The pointers beyond the direct ones.  For a file of direct blocks nothing
\* happens.
LEMMA LinkAllFacts ==
  ASSUME NEW inode \in Inodes, NEW targets \in Seq(Blocks), NEW blocks \in Array
  PROVE  /\ LinkAll(inode, targets, blocks) \in LinkState
         /\ Len(targets) < NumDirect =>
              LinkAll(inode, targets, blocks) =
                [ok |-> TRUE, single |-> inode.single, blocks |-> blocks]
<1> DEFINE n == Len(targets)
           start == [ok |-> TRUE, single |-> inode.single, blocks |-> blocks]
           Is(f, m) == f = [j \in 0 .. m |-> IF j < NumDirect THEN start
                                             ELSE LinkIndirect(f[j - 1], j, targets[j])]
           Upto == {m \in Nat : \E f : Is(f, m)}
<1>1. n \in Nat /\ NumDirect \in Nat \ {0} BY ConstantTypes
<1>2. start \in LinkState BY Zenon DEF LinkState, Inodes
<1> HIDE DEF start
<1>3. 0 \in Upto
  <2> DEFINE f == [j \in 0 .. 0 |-> start]
  <2>1. Is(f, 0) BY <1>1
  <2> QED BY <2>1, Zenon
<1>4. ASSUME NEW m \in Nat, m \in Upto PROVE m + 1 \in Upto
  <2>1. PICK f : Is(f, m) BY <1>4, Zenon
  <2> DEFINE g == [j \in 0 .. m + 1 |->
                     IF j = m + 1
                     THEN IF m + 1 < NumDirect THEN start
                          ELSE LinkIndirect(f[m], m + 1, targets[m + 1])
                     ELSE f[j]]
  <2>2. \A j \in 0 .. m + 1 : g[j] = IF j < NumDirect THEN start
                                     ELSE LinkIndirect(g[j - 1], j, targets[j])
    BY <1>1, <2>1
  <2>3. Is(g, m + 1)
    <3>1. g = [j \in 0 .. m + 1 |-> g[j]] BY Zenon
    <3> HIDE DEF g
    <3> QED BY <2>2, <3>1, Zenon
  <2>4. \E h : Is(h, m + 1)
    <3> HIDE DEF g
    <3> QED BY <2>3, Zenon
  <2>5. m + 1 \in Nat OBVIOUS
  <2> HIDE DEF Is
  <2> QED BY <2>4, <2>5, Zenon
<1>5. \E f : Is(f, n)
  <2>1. n \in Upto
    <3> HIDE DEF Upto
    <3> QED BY <1>1, <1>3, <1>4, SetInduction, Zenon
  <2> QED BY <2>1, Zenon
<1> DEFINE after == CHOOSE f : Is(f, n)
<1>6. Is(after, n) BY <1>5, Zenon
<1>7. LinkAll(inode, targets, blocks) = after[n] BY Zenon DEF LinkAll, start
<1> HIDE DEF after
<1>8. \A j \in 0 .. n : after[j] = IF j < NumDirect THEN start
                                   ELSE LinkIndirect(after[j - 1], j, targets[j])
  BY <1>6, Zenon
<1> HIDE DEF Is
<1> DEFINE T == {j \in Nat : j <= n => after[j] \in LinkState}
<1>9. 0 \in T BY <1>1, <1>2, <1>8
<1>10. ASSUME NEW j \in Nat, j \in T PROVE j + 1 \in T
  <2> SUFFICES ASSUME j + 1 <= n PROVE after[j + 1] \in LinkState OBVIOUS
  <2>1. j + 1 \in 1 .. n /\ j + 1 \in 0 .. n /\ (j + 1) - 1 = j /\ j <= n BY <1>1
  <2>2. after[j] \in LinkState BY <1>10, <2>1, Zenon
  <2>3. targets[j + 1] \in Nat BY <2>1, ConstantTypes DEF Blocks
  <2>4. LinkIndirect(after[j], j + 1, targets[j + 1]) \in LinkState BY <2>2, <2>3, LinkIndirectType, Zenon
  <2>5. \/ after[j + 1] = start
        \/ after[j + 1] = LinkIndirect(after[j], j + 1, targets[j + 1])
    <3> HIDE DEF n
    <3> QED BY <1>8, <2>1, Zenon
  <2> QED BY <1>2, <2>4, <2>5, Zenon
<1>11. after[n] \in LinkState
  <2>1. n \in T
    <3> HIDE DEF T
    <3> QED BY <1>1, <1>9, <1>10, SetInduction, Zenon
  <2> QED BY <1>1, <2>1
<1>12. n < NumDirect => after[n] = start BY <1>1, <1>8
<1> QED BY <1>7, <1>11, <1>12, Zenon DEF start

-----------------------------------------------------------------------------
(***************************************************************************)
(* What each operation does, and that it keeps GInv.                       *)
(***************************************************************************)

\* The inode create_file makes.
NewInode(f, block) ==
  [name |-> f, num |-> 1, single |-> 0, direct |-> [EmptyInode.direct EXCEPT ![0] = block]]

LEMMA NewInodeFacts ==
  ASSUME NEW f \in Names, NEW block \in Blocks \ {0}
  PROVE  /\ NewInode(f, block) \in Inodes
         /\ NewInode(f, block).direct[0] = block
         /\ \A k \in Index \ {0} : NewInode(f, block).direct[k] = 0
<1> DEFINE d == NewInode(f, block).direct
<1>1. d \in [Index -> Blocks] /\ d[0] = block /\ \A k \in Index \ {0} : d[k] = 0
  BY ConstantTypes, Zenon DEF NewInode, EmptyInode, Index
<1>2. \A k \in Index : d[k] # 0 <=> k < 1
  <2>1. \A k \in Index : k \in Nat BY DEF Index
  <2> QED BY <1>1, <2>1
<1>3. f # NoName BY PhysFsAssumption, Zenon
<1>4. 1 \in 0 .. MaxBlocks + 1 BY ConstantTypes
<1>5. NewInode(f, block) = [name |-> f, num |-> 1, single |-> 0, direct |-> d] BY Zenon DEF NewInode
<1> HIDE DEF d
<1>6. NewInode(f, block) \in Inodes BY <1>1, <1>2, <1>3, <1>4, <1>5, ConstantTypes DEF Inodes
<1> QED BY <1>1, <1>6, Zenon DEF d

\* create_file writes the metadata to an empty block, and then finds an unused
\* inode or none.
LEMMA CreateEffect ==
  ASSUME GInv, NEW f \in Names, Create(f)
  PROVE  /\ ~ Exists(inode_table, f)
         /\ UNCHANGED <<disk, shifted>>
         /\ \E block \in EmptyBlocks(inode_table, data_blocks, {}) :
              /\ data_blocks' = [data_blocks EXCEPT ![block] = Metadata(DefaultAttr)]
              /\ \/ /\ UNCHANGED kernel
                    /\ \E i \in 1 .. Len(inode_table) :
                         /\ inode_table[i].num = 0
                         /\ inode_table' = [inode_table EXCEPT ![i] = NewInode(f, block)]
                 \/ UNCHANGED inode_table /\ kernel' \in {kernel, "panicked"}
<1> DEFINE empty == EmptyBlocks(inode_table, data_blocks, {})
           block == Lowest(empty)
           unused == {i \in 1 .. Len(inode_table) : inode_table[i].num = 0}
           i == Lowest(unused)
<1>1. empty # {} BY Zenon DEF Create
<1>2. block \in empty BY <1>1, EmptyBlocksFacts, Zenon
<1>3. unused # {} => i \in unused
  <2>1. Len(inode_table) \in Nat BY DEF GInv
  <2>2. unused \subseteq 1 .. Len(inode_table) /\ unused \subseteq Nat BY <2>1
  <2> HIDE DEF unused
  <2> QED BY <2>2, LowestFacts, Zenon
<1>4. /\ ~ Exists(inode_table, f)
      /\ data_blocks' = [data_blocks EXCEPT ![block] = Metadata(DefaultAttr)]
      /\ UNCHANGED <<disk, shifted>>
      /\ \/ /\ unused # {}
            /\ inode_table' = [inode_table EXCEPT ![i] = NewInode(f, block)]
            /\ UNCHANGED kernel
         \/ UNCHANGED inode_table /\ kernel' \in {kernel, "panicked"}
  BY Zenon DEF Create, Panics, NewInode
<1> HIDE DEF empty, block, i
<1>5. unused # {} => i \in 1 .. Len(inode_table) /\ inode_table[i].num = 0 BY <1>3, Zenon
<1> HIDE DEF unused
<1> QED BY <1>2, <1>4, <1>5, Zenon DEF empty

\* Changing one block, or one inode.
LEMMA OneBlock ==
  ASSUME NEW blocks \in Array, NEW b, NEW c \in Content
  PROVE  [blocks EXCEPT ![b] = c] \in Array
BY Zenon DEF Array, Content

LEMMA OneInode ==
  ASSUME NEW table \in Seq(Inodes), NEW i, NEW inode \in Inodes
  PROVE  /\ [table EXCEPT ![i] = inode] \in Seq(Inodes)
         /\ Len([table EXCEPT ![i] = inode]) = Len(table)
<1>1. table \in [1 .. Len(table) -> Inodes] /\ Len(table) \in Nat OBVIOUS
<1>2. [table EXCEPT ![i] = inode] \in [1 .. Len(table) -> Inodes] BY <1>1, Zenon
<1> QED BY <1>1, <1>2

LEMMA CreateG ==
  ASSUME GInv, NEW f \in Names, Create(f)
  PROVE  GInv'
<1>1. PICK block \in EmptyBlocks(inode_table, data_blocks, {}) :
        /\ data_blocks' = [data_blocks EXCEPT ![block] = Metadata(DefaultAttr)]
        /\ \/ /\ UNCHANGED kernel
              /\ \E i \in 1 .. Len(inode_table) :
                   /\ inode_table[i].num = 0
                   /\ inode_table' = [inode_table EXCEPT ![i] = NewInode(f, block)]
           \/ UNCHANGED inode_table /\ kernel' \in {kernel, "panicked"}
  BY CreateEffect, Zenon
<1>2. UNCHANGED <<disk, shifted>> BY CreateEffect, Zenon
<1>3. block \in Blocks \ {0} BY EmptyBlocksFacts, Zenon
<1>4. data_blocks' \in Array
  <2>1. Metadata(DefaultAttr) \in Content BY ContentTypes, Zenon DEF DefaultAttr
  <2> QED BY <1>1, <2>1, OneBlock, Zenon DEF GInv
<1>5. inode_table' \in Seq(Inodes) /\ Len(inode_table') <= NumInodes
  <2>1. NewInode(f, block) \in Inodes BY <1>3, NewInodeFacts, Zenon
  <2>2. inode_table \in Seq(Inodes) /\ Len(inode_table) <= NumInodes BY Zenon DEF GInv
  <2>3. CASE UNCHANGED inode_table BY <2>2, <2>3, Zenon
  <2>4. CASE \E i \in 1 .. Len(inode_table) :
               inode_table' = [inode_table EXCEPT ![i] = NewInode(f, block)]
    BY <2>1, <2>2, <2>4, OneInode
  <2> QED BY <1>1, <2>3, <2>4, Zenon
<1>6. kernel' \in {"running", "panicked"} BY <1>1, Zenon DEF GInv
<1> QED BY <1>2, <1>4, <1>5, <1>6, Zenon DEF GInv

\* chmod and chown write one block, the first of the inode.
LEMMA NamedInode ==
  ASSUME GInv, NEW f \in Names, Exists(inode_table, f)
  PROVE  LET i == IndexOf(inode_table, f)
         IN /\ i \in 1 .. Len(inode_table)
            /\ inode_table[i] \in Inodes /\ inode_table[i].name = f
            /\ inode_table[i].num # 0 /\ inode_table[i].direct[0] \in Blocks \ {0}
<1> DEFINE i == IndexOf(inode_table, f)
<1>1. i \in 1 .. Len(inode_table) /\ inode_table[i].name = f BY IndexOfFacts, Zenon DEF GInv
<1> HIDE DEF i
<1>2. inode_table[i] \in Inodes BY <1>1 DEF GInv
<1>3. f # NoName BY PhysFsAssumption, Zenon
<1>4. inode_table[i].num \in Nat /\ inode_table[i].num # 0 BY <1>1, <1>2, <1>3, ConstantTypes DEF Inodes
<1>5. inode_table[i].direct[0] \in Blocks \ {0} BY <1>2, <1>4, ConstantTypes DEF Inodes
<1> QED BY <1>1, <1>2, <1>4, <1>5, Zenon DEF i

LEMMA SetAttrG ==
  ASSUME GInv, NEW f \in Names, NEW a \in Attrs, SetAttr(f, a)
  PROVE  GInv'
<1>1. Metadata(a) \in Content BY ContentTypes, PhysFsAssumption, Zenon
<1>2. data_blocks' \in Array BY <1>1, OneBlock, Zenon DEF SetAttr, GInv
<1> QED BY <1>2, Zenon DEF SetAttr, GInv

\* delete zeroes blocks and takes inodes out of the vector.
LEMMA DeleteG ==
  ASSUME GInv, NEW f \in Names, Delete(f)
  PROVE  GInv'
<1>1. data_blocks' \in Array
  <2> DEFINE inode == inode_table[IndexOf(inode_table, f)]
  <2>1. data_blocks' = [b \in Blocks |-> IF b \in Zeroed(inode) THEN Zero ELSE data_blocks[b]]
    BY Zenon DEF Delete
  <2>2. \A b \in Blocks : data_blocks[b] \in Content BY Zenon DEF GInv, Array, Content
  <2> HIDE DEF inode
  <2> QED BY <2>1, <2>2, ContentTypes, Zenon DEF Array, Content
<1>2. inode_table' \in Seq(Inodes) /\ Len(inode_table') <= NumInodes
  <2> DEFINE kept == {i \in Range(inode_table) : i.name # f}
  <2>1. UNCHANGED inode_table \/ inode_table' = Only(inode_table, kept) BY Zenon DEF Delete
  <2> HIDE DEF kept
  <2>2. inode_table \in Seq(Inodes) /\ Len(inode_table) <= NumInodes /\ NumInodes \in Nat
    BY ConstantTypes, Zenon DEF GInv
  <2>3. Only(inode_table, kept) \in Seq(Inodes) /\ Len(Only(inode_table, kept)) <= Len(inode_table)
    BY <2>2, OnlyFacts, Zenon
  <2> QED BY <2>1, <2>2, <2>3
<1>3. UNCHANGED disk /\ kernel' \in {"running", "panicked"} /\ UNCHANGED shifted
  BY Zenon DEF Delete, Panics, GInv
<1> QED BY <1>1, <1>2, <1>3, Zenon DEF GInv

\* The inode after a write: as many blocks as were written and the metadata.
LEMMA LinkedFacts ==
  ASSUME NEW inode \in Inodes, inode.num # 0, NEW targets \in Seq(Blocks \ {0}),
         Len(targets) <= MaxBlocks, inode.num - 1 <= Len(targets), NEW single \in Blocks,
         Len(targets) < NumDirect => single = inode.single
  PROVE  LET new == Linked(inode, targets, single)
         IN /\ new \in Inodes /\ new.name = inode.name /\ new.num = Len(targets) + 1
            /\ new.single = single
            /\ \A k \in Index : new.direct[k] = IF k \in 1 .. Len(targets) THEN targets[k]
                                                ELSE inode.direct[k]
<1> DEFINE n == Len(targets)
           d == [k \in Index |-> IF k \in 1 .. n THEN targets[k] ELSE inode.direct[k]]
           new == [name |-> inode.name, num |-> n + 1, direct |-> d, single |-> single]
<1>1. /\ inode \in [name : Names \cup {NoName}, num : 0 .. MaxBlocks + 1,
                    direct : [Index -> Blocks], single : Blocks]
      /\ \A k \in Index : inode.direct[k] # 0 <=> k < inode.num
      /\ inode.num <= NumDirect => inode.single = 0
      /\ inode.name # NoName
  BY Zenon DEF Inodes
<1>2. inode.num \in Nat /\ n \in Nat /\ DOMAIN targets = 1 .. n /\ NumDirect \in Nat /\ MaxBlocks \in Nat
  BY <1>1, ConstantTypes
<1>3. Linked(inode, targets, single) = new
  <2>1. d = [k \in 0 .. NumDirect - 1 |-> IF k \in DOMAIN targets THEN targets[k] ELSE inode.direct[k]]
    BY <1>2, Zenon DEF Index
  <2>2. Linked(inode, targets, single) = [inode EXCEPT !.num = n + 1, !.single = single, !.direct = d]
    BY <2>1, Zenon DEF Linked
  <2> HIDE DEF d, n
  <2>3. inode = [name |-> inode.name, num |-> inode.num, direct |-> inode.direct, single |-> inode.single]
    BY <1>1, Zenon
  <2> QED BY <2>2, <2>3, Zenon
<1>4. \A k \in 1 .. n : targets[k] \in Blocks \ {0} OBVIOUS
<1> HIDE DEF n
<1>5. d \in [Index -> Blocks] BY <1>1, <1>4, Zenon
<1>6. ASSUME NEW k \in Index PROVE d[k] # 0 <=> k < n + 1
  <2>1. k \in Nat BY DEF Index
  <2>2. CASE k \in 1 .. n
    <3>1. d[k] = targets[k] /\ targets[k] # 0 BY <1>4, <2>2, Zenon
    <3>2. k < n + 1 BY <1>2, <2>2
    <3> QED BY <3>1, <3>2, Zenon
  <2>3. CASE k \notin 1 .. n
    <3>1. d[k] = inode.direct[k] BY <2>3, Zenon
    <3>2. inode.num - 1 <= n BY Zenon DEF n
    <3>3. k < inode.num <=> k < n + 1 BY <1>2, <2>1, <2>3, <3>2
    <3> QED BY <1>1, <3>1, <3>3, Zenon
  <2> QED BY <2>2, <2>3, Zenon
<1>7. n + 1 <= NumDirect => single = 0
  <2> SUFFICES ASSUME n + 1 <= NumDirect PROVE single = 0 BY Zenon
  <2>1. n < NumDirect BY <1>2
  <2>2. inode.num - 1 <= n BY Zenon DEF n
  <2>3. inode.num <= NumDirect BY <1>2, <2>1, <2>2
  <2> QED BY <1>1, <2>1, <2>3, Zenon DEF n
<1>8. n + 1 \in 0 .. MaxBlocks + 1 /\ n + 1 # 0
  <2>1. n <= MaxBlocks BY Zenon DEF n
  <2> QED BY <1>2, <2>1
<1>9. \A k \in Index : d[k] = IF k \in 1 .. n THEN targets[k] ELSE inode.direct[k] BY Zenon
<1> HIDE DEF d
<1>10. new \in Inodes BY <1>1, <1>5, <1>6, <1>7, <1>8, Zenon DEF Inodes
<1> QED BY <1>3, <1>9, <1>10 DEF n

\* write_file either panics, or stops at a block number out of range, or
\* stores the blocks and links them.
WriteDone(i, inode, new, targets, links) ==
  /\ Len(targets) = Len(new)
  /\ links.ok
  /\ data_blocks' = links.blocks
  /\ inode_table' = [inode_table EXCEPT ![i] = Linked(inode, targets, links.single)]
  /\ UNCHANGED <<kernel, shifted>>

LEMMA WriteEffect ==
  ASSUME GInv, NEW f \in Names, NEW from \in Nat, NEW n \in Nat, NEW v \in Values, NEW aligned,
         Write(f, from, n, v, aligned)
  PROVE  LET i == IndexOf(inode_table, f)
             inode == inode_table[i]
             new == Overlay(Contents(inode, data_blocks), from, n, v, aligned)
             targets == Targets(inode, Len(new))
             links == LinkAll(inode, targets, Stored(targets, new))
         IN \/ /\ ~ Readable(inode, data_blocks) \/ ~ links.ok \/ ~ (Range(targets) \subseteq Blocks)
               /\ data_blocks' \in Array
               /\ UNCHANGED <<inode_table, shifted>> /\ kernel' \in {kernel, "panicked"}
            \/ /\ Readable(inode, data_blocks)
               /\ targets \in Seq(Blocks \ {0})
               /\ new \in Seq(Content) /\ Stored(targets, new) \in Array
               /\ Len(new) \in inode.num - 1 .. MaxBlocks
               /\ WriteDone(i, inode, new, targets, links)
<1> DEFINE i == IndexOf(inode_table, f)
           inode == inode_table[i]
           new == Overlay(Contents(inode, data_blocks), from, n, v, aligned)
           targets == Targets(inode, Len(new))
           links == LinkAll(inode, targets, Stored(targets, new))
<1>1. /\ Exists(inode_table, f)
      /\ PaddedLen(inode.num - 1, from, n, aligned) <= MaxBlocks
      /\ IF ~ Readable(inode, data_blocks)
         THEN Panics /\ UNCHANGED <<inode_table, data_blocks>>
         ELSE /\ Len(targets) = Len(new)
              /\ IF ~ (Range(targets) \subseteq Blocks)
                 THEN /\ data_blocks' = Stored(ValidPrefix(targets), new)
                      /\ UNCHANGED <<inode_table, kernel, shifted>>
                 ELSE IF links.ok
                 THEN /\ data_blocks' = links.blocks
                      /\ inode_table' = [inode_table EXCEPT ![i] = Linked(inode, targets, links.single)]
                      /\ UNCHANGED <<kernel, shifted>>
                 ELSE Panics /\ UNCHANGED <<inode_table, data_blocks>>
  BY Zenon DEF Write
<1>2. inode \in Inodes /\ inode.num # 0 /\ inode.num \in Nat /\ data_blocks \in Array
  <2>1. Exists(inode_table, f) BY <1>1, Zenon
  <2>2. inode \in Inodes /\ inode.num # 0 BY ONLY GInv, f \in Names, <2>1, NamedInode, Zenon
  <2> HIDE DEF inode
  <2>3. inode.num \in Nat BY <2>2, ConstantTypes DEF Inodes
  <2> QED BY <2>2, <2>3, Zenon DEF GInv
<1> HIDE DEF inode
<1>3. CASE ~ Readable(inode, data_blocks)
  BY <1>1, <1>2, <1>3, Zenon DEF Panics, inode
<1>4. CASE Readable(inode, data_blocks)
  <2> DEFINE old == Contents(inode, data_blocks)
  <2>1. old \in Seq(Content) /\ Len(old) = inode.num - 1 BY <1>2, <1>4, ContentsType, Zenon
  <2> HIDE DEF old
  <2>2. new \in Seq(Content) /\ Len(new) = PaddedLen(inode.num - 1, from, n, aligned)
    BY <2>1, OverlayType DEF old
  <2>3. Len(new) \in inode.num - 1 .. MaxBlocks /\ Len(new) \in Nat
    BY <1>1, <1>2, <2>2, PaddedLenFacts, ConstantTypes
  <2> HIDE DEF new
  <2>4. targets \in Seq(Nat \ {0}) BY <1>2, <2>3, TargetsFacts, Zenon
  <2> HIDE DEF targets
  <2>5. Len(targets) = Len(new) BY <1>1, <1>4, Zenon
  <2>6. CASE ~ (Range(targets) \subseteq Blocks)
    <3> DEFINE bad == {k \in DOMAIN targets : targets[k] \notin Blocks}
               prefix == ValidPrefix(targets)
               x == Lowest(bad)
    <3>1. DOMAIN targets = 1 .. Len(targets) /\ Len(targets) \in Nat BY <2>4
    <3>2. bad # {} BY <2>6, Zenon DEF Range
    <3>3. bad \subseteq 1 .. Len(targets) BY <3>1, Zenon
    <3> HIDE DEF bad
    <3>4. 1 .. Len(targets) \subseteq Nat BY <3>1
    <3>5. bad \subseteq Nat BY <3>3, <3>4, Zenon
    <3>6. x \in 1 .. Len(targets) BY <3>2, <3>3, <3>5, LowestFacts, Zenon
    <3>7. prefix = SubSeq(targets, 1, x - 1) BY Zenon DEF ValidPrefix, bad
    <3> HIDE DEF x, prefix
    <3>8. \A k \in 1 .. x - 1 : targets[k] \in Nat \ {0} BY <2>4, <3>1, <3>6
    <3>9. prefix \in Seq(Nat \ {0}) /\ Len(prefix) <= Len(new)
      <4>1. 1 \in Int /\ x - 1 \in Int BY <3>1, <3>6
      <4>2. /\ SubSeq(targets, 1, x - 1) \in Seq(Nat \ {0})
            /\ Len(SubSeq(targets, 1, x - 1)) = IF 1 <= x - 1 THEN x - 1 ELSE 0
        BY <3>8, <4>1, PrefixFacts, Zenon
      <4> QED BY <2>3, <2>5, <3>1, <3>6, <3>7, <4>2
    <3>10. Stored(prefix, new) \in Array BY <1>2, <2>2, <3>9, StoredType, Zenon
    <3>11. data_blocks' = Stored(prefix, new) /\ UNCHANGED <<inode_table, kernel, shifted>>
      BY <1>1, <1>4, <2>6, Zenon DEF prefix
    <3> QED BY <2>6, <3>10, <3>11, Zenon DEF inode, new, targets
  <2>7. CASE Range(targets) \subseteq Blocks
    <3>1. targets \in Seq(Blocks \ {0})
      <4>1. DOMAIN targets = 1 .. Len(targets) /\ \A k \in 1 .. Len(targets) : targets[k] # 0
        BY <2>4
      <4>2. \A k \in 1 .. Len(targets) : targets[k] \in Blocks \ {0} BY <2>7, <4>1, Zenon DEF Range
      <4> QED BY <2>4, <4>2
    <3>2. Stored(targets, new) \in Array
      <4>1. Len(targets) <= Len(new) BY <2>3, <2>5
      <4> QED BY <1>2, <2>2, <2>4, <4>1, StoredType, Zenon
    <3>3. CASE links.ok
      BY <1>1, <1>4, <2>2, <2>3, <2>5, <2>7, <3>1, <3>2, <3>3, Zenon DEF WriteDone, inode, new, targets
    <3>4. CASE ~ links.ok
      BY <1>1, <1>2, <1>4, <2>7, <3>4, Zenon DEF Panics, inode, new, targets
    <3> QED BY <3>3, <3>4, Zenon
  <2> QED BY <2>6, <2>7, Zenon
<1> QED BY <1>3, <1>4, Zenon

LEMMA WriteG ==
  ASSUME GInv, NEW f \in Names, NEW from \in Nat, NEW n \in Nat, NEW v \in Values, NEW aligned,
         Write(f, from, n, v, aligned)
  PROVE  GInv'
<1> DEFINE i == IndexOf(inode_table, f)
           inode == inode_table[i]
           new == Overlay(Contents(inode, data_blocks), from, n, v, aligned)
           targets == Targets(inode, Len(new))
           links == LinkAll(inode, targets, Stored(targets, new))
<1>1. UNCHANGED disk /\ Exists(inode_table, f) BY Zenon DEF Write
<1>2. CASE /\ data_blocks' \in Array
           /\ UNCHANGED <<inode_table, shifted>> /\ kernel' \in {kernel, "panicked"}
  BY <1>1, <1>2, Zenon DEF GInv
<1>3. CASE /\ targets \in Seq(Blocks \ {0})
           /\ Stored(targets, new) \in Array
           /\ Len(new) \in inode.num - 1 .. MaxBlocks
           /\ WriteDone(i, inode, new, targets, links)
  <2>1. inode \in Inodes /\ inode.num # 0 /\ inode.num \in Nat
    BY <1>1, NamedInode, ConstantTypes DEF Inodes
  <2> HIDE DEF inode, new, i
  <2>2. targets \in Seq(Blocks) BY <1>3
  <2> HIDE DEF targets
  <2>3. links \in LinkState /\ (Len(targets) < NumDirect => links.single = inode.single)
    BY <1>3, <2>1, <2>2, LinkAllFacts
  <2>4. links.single \in Blocks /\ links.blocks \in Array BY <2>3, Zenon DEF LinkState
  <2> HIDE DEF links
  <2>5. Len(targets) = Len(new) BY <1>3, Zenon DEF WriteDone
  <2>6. Len(targets) <= MaxBlocks /\ inode.num - 1 <= Len(targets)
    BY <1>3, <2>1, <2>5, ConstantTypes
  <2>7. Linked(inode, targets, links.single) \in Inodes BY <1>3, <2>1, <2>3, <2>4, <2>6, LinkedFacts, Zenon
  <2>8. inode_table' \in Seq(Inodes) /\ Len(inode_table') = Len(inode_table)
    BY <1>3, <2>7, OneInode, Zenon DEF GInv, WriteDone
  <2> QED BY <1>1, <1>3, <2>4, <2>8, Zenon DEF GInv, WriteDone
<1> QED BY <1>2, <1>3, WriteEffect, Zenon

\* A flush replaces a prefix of the inodes, and of the blocks.
LEMMA AfterSectorsType ==
  ASSUME GInv, NEW k \in Nat, k <= Len(inode_table) \/ Len(inode_table) = NumInodes
  PROVE  /\ AfterSectors(k) \in [inodes : Seq(Inodes), blocks : Array]
         /\ Len(AfterSectors(k).inodes) = NumInodes
<1> DEFINE t == [i \in 1 .. NumInodes |-> IF i <= k THEN inode_table[i] ELSE disk.inodes[i]]
           b == [b \in Blocks |-> IF NumInodes + b < k THEN data_blocks[b] ELSE disk.blocks[b]]
<1>1. NumInodes \in Nat BY ConstantTypes, Zenon
<1>2. /\ inode_table \in Seq(Inodes) /\ Len(inode_table) \in Nat
      /\ disk.inodes \in Seq(Inodes) /\ Len(disk.inodes) = NumInodes
      /\ data_blocks \in Array /\ disk.blocks \in Array
  BY DEF GInv
<1>3. ASSUME NEW i \in 1 .. NumInodes PROVE t[i] \in Inodes
  <2>1. CASE i <= k
    <3>1. i \in 1 .. Len(inode_table) BY <1>1, <1>2, <2>1
    <3> QED BY <1>2, <2>1, <3>1
  <2>2. CASE ~ (i <= k) BY <1>2, <2>2
  <2> QED BY <2>1, <2>2, Zenon
<1>4. t \in Seq(Inodes) /\ Len(t) = NumInodes
  <2>1. t = [i \in 1 .. NumInodes |-> t[i]] BY Zenon
  <2> HIDE DEF t
  <2>2. t \in [1 .. NumInodes -> Inodes] BY <1>3, <2>1, Zenon
  <2> QED BY <1>1, <2>2
<1>5. b \in Array BY <1>2, Zenon DEF Array
<1>6. AfterSectors(k) = [inodes |-> t, blocks |-> b] BY Zenon DEF AfterSectors
<1> HIDE DEF t, b
<1> QED BY <1>4, <1>5, <1>6

LEMMA FlushG ==
  ASSUME GInv, Flush \/ FlushPanics \/ \E k \in 0 .. AllSectors - 1 : FlushCutShort(k)
  PROVE  GInv'
<1>1. AllSectors \in Nat /\ Len(inode_table) \in Nat /\ Len(inode_table) <= NumInodes
  BY ConstantTypes DEF AllSectors, GInv
<1>2. CASE Flush
  BY <1>1, <1>2, AfterSectorsType, Zenon DEF Flush, GInv
<1>3. CASE FlushPanics
  <2>1. disk' = AfterSectors(Len(inode_table)) /\ Len(inode_table) <= Len(inode_table)
    BY <1>1, <1>3 DEF FlushPanics
  <2>2. disk' \in [inodes : Seq(Inodes), blocks : Array] /\ Len(disk'.inodes) = NumInodes
    BY <1>1, <2>1, AfterSectorsType, Zenon
  <2>3. kernel' = "panicked" /\ UNCHANGED <<inode_table, data_blocks>> BY <1>3, Zenon DEF FlushPanics
  <2>4. shifted' \in BOOLEAN BY <1>3, Zenon DEF FlushPanics
  <2> QED BY <2>2, <2>3, <2>4, Zenon DEF GInv
<1>4. ASSUME NEW k \in 0 .. AllSectors - 1, FlushCutShort(k) PROVE GInv'
  <2>1. k \in Nat BY <1>1
  <2>2. disk' \in [inodes : Seq(Inodes), blocks : Array] /\ Len(disk'.inodes) = NumInodes
    BY <1>4, <2>1, AfterSectorsType, Zenon DEF FlushCutShort
  <2>3. UNCHANGED <<inode_table, data_blocks, kernel>> BY <1>4, Zenon DEF FlushCutShort
  <2>4. shifted' \in BOOLEAN BY <1>4, Zenon DEF FlushCutShort
  <2> QED BY <2>2, <2>3, <2>4, Zenon DEF GInv
<1> QED BY <1>2, <1>3, <1>4, Zenon

LEMMA RebootG ==
  ASSUME GInv, Reboot
  PROVE  GInv'
<1>1. /\ disk.inodes \in Seq(Inodes) /\ disk.blocks \in Array /\ Len(disk.inodes) = NumInodes
      /\ NumInodes \in Nat
  BY ConstantTypes, Zenon DEF GInv
<1> QED BY <1>1 DEF Reboot, GInv

LEMMA EmptyInodeFacts == EmptyInode \in Inodes
<1>1. EmptyInode = [name |-> NoName, num |-> 0, direct |-> [k \in Index |-> 0], single |-> 0]
  BY Zenon DEF EmptyInode, Index
<1>2. [k \in Index |-> 0] \in [Index -> Blocks] /\ \A k \in Index : ~ (k < 0)
  BY ConstantTypes DEF Index
<1>3. 0 \in 0 .. MaxBlocks + 1 BY ConstantTypes
<1> QED BY <1>1, <1>2, <1>3, ConstantTypes, Zenon DEF Inodes

LEMMA InitG == Init => GInv
<1> SUFFICES ASSUME Init PROVE GInv BY Zenon
<1>1. NumInodes \in Nat BY ConstantTypes, Zenon
<1>2. inode_table \in Seq(Inodes) /\ Len(inode_table) = NumInodes
  <2>1. inode_table \in [1 .. NumInodes -> Inodes] BY EmptyInodeFacts, Zenon DEF Init
  <2> QED BY <1>1, <2>1
<1>3. data_blocks \in Array BY ContentTypes, Zenon DEF Init, Array, Content
<1>4. disk = [inodes |-> inode_table, blocks |-> data_blocks] BY Zenon DEF Init
<1>5. kernel = "running" /\ shifted \in BOOLEAN BY Zenon DEF Init
<1> QED BY <1>1, <1>2, <1>3, <1>4, <1>5 DEF GInv

LEMMA NextG == GInv /\ [Next]_vars => GInv'
<1> SUFFICES ASSUME GInv, [Next]_vars PROVE GInv' BY Zenon
<1>1. CASE UNCHANGED vars BY <1>1, Zenon DEF vars, GInv
<1>2. CASE Operation
  <2>1. MaxBlocks \in Nat BY ConstantTypes, Zenon
  <2>2. 0 .. MaxBlocks - 1 \subseteq Nat /\ 0 .. MaxBlocks \subseteq Nat BY <2>1
  <2>3. CASE Flush BY <2>3, FlushG, Zenon
  <2> QED BY <1>2, <2>2, <2>3, CreateG, WriteG, SetAttrG, DeleteG, Zenon DEF Operation
<1>3. CASE BrokenFlush BY <1>3, FlushG, Zenon DEF BrokenFlush
<1>4. CASE Reboot BY <1>4, RebootG, Zenon
<1> QED BY <1>1, <1>2, <1>3, <1>4, Zenon DEF Next

\* Inodes and blocks stay well-formed, in memory and on the disk, for files of
\* any size.
THEOREM FsInvariance == Spec => []GInv
BY InitG, NextG, PTL DEF Spec

\* Pointers stay inside the array and the vector of inodes never grows, also
\* when flushes are cut short and the kernel reboots (fs.rs).
THEOREM FsTypeCorrect == Spec => []TypeOK
<1>1. GInv => TypeOK
  <2> SUFFICES ASSUME GInv PROVE TypeOK BY Zenon
  <2> DEFINE R == [name : Names \cup {NoName}, num : 0 .. MaxBlocks + 1,
                   direct : [0 .. NumDirect - 1 -> Blocks], single : Blocks]
  <2>1. Inodes \subseteq R BY Zenon DEF Inodes, Index
  <2> HIDE DEF R
  <2>2. inode_table \in Seq(R) BY <2>1 DEF GInv
  <2>3. DOMAIN data_blocks = Blocks BY Zenon DEF GInv, Array
  <2> QED BY <2>2, <2>3, Zenon DEF GInv, TypeOK, R
<1> QED BY <1>1, FsInvariance, PTL

\* The addresses of a file without a pointer block are its direct pointers.
LEMMA GReadable == GInv => DirectFilesReadable
<1> SUFFICES ASSUME GInv, NEW i \in DOMAIN inode_table, inode_table[i].num <= NumDirect
             PROVE  Readable(inode_table[i], data_blocks)
  BY Zenon DEF DirectFilesReadable
<1> DEFINE inode == inode_table[i]
           addr == Addresses(inode, data_blocks)
<1>1. inode \in Inodes /\ data_blocks \in Array BY DEF GInv
<1>2. inode.num \in Nat /\ inode.num <= NumDirect /\ NumDirect \in Nat
  BY <1>1, ConstantTypes DEF Inodes
<1> HIDE DEF inode
<1>3. ASSUME NEW k \in 2 .. inode.num PROVE k \in DOMAIN addr /\ addr[k] \in Blocks
  <2>1. k \in 1 .. NumDirect /\ k <= inode.num /\ k - 1 \in Index BY <1>2 DEF Index
  <2>2. addr \in Seq(Nat \ {0}) /\ Len(addr) = inode.num /\ addr[k] = inode.direct[k - 1]
    BY <1>1, <1>2, <2>1, AddressesFacts, Zenon
  <2>3. k \in 1 .. Len(addr) BY <1>2, <2>2
  <2>4. inode.direct[k - 1] \in Blocks BY <1>1, <2>1, Zenon DEF Inodes
  <2> QED BY <2>2, <2>3, <2>4
<1> HIDE DEF addr
<1> QED BY <1>3, Zenon DEF Readable, addr, inode

\* A file that fits its direct blocks can always be read: read_file never
\* indexes past its list of addresses or the array of blocks, whatever other
\* files do with their indirect blocks.
THEOREM DirectReadable == Spec => []DirectFilesReadable
BY GReadable, FsInvariance, PTL

-----------------------------------------------------------------------------
(***************************************************************************)
(* Files that fit their direct blocks.  find_empty_data_block knows the    *)
(* direct blocks of a file but not those behind its pointer block, so what *)
(* follows needs that no file has one.                                     *)
(***************************************************************************)
SmallFiles == MaxBlocks < NumDirect

LEMMA SmallInodes ==
  ASSUME SmallFiles, NEW inode \in Inodes
  PROVE  inode.num \in Nat /\ inode.num <= NumDirect /\ inode.single = 0
BY ConstantTypes DEF SmallFiles, Inodes

\* No block has two owners, and no name two inodes.
Sound(table) ==
  /\ \A i, j \in 1 .. Len(table) : \A k, l \in Index :
       table[i].direct[k] # 0 /\ table[i].direct[k] = table[j].direct[l] => i = j /\ k = l
  /\ \A i, j \in 1 .. Len(table) :
       table[i].name # NoName /\ table[i].name = table[j].name => i = j

\* A later state of an inode: blocks are only added to a file.
Extended(new, old) ==
  old.num # 0 => /\ new.name = old.name
                 /\ \A k \in Index : old.direct[k] # 0 => new.direct[k] = old.direct[k]

\* Until a delete shortens the vector, the inodes in memory are later states
\* of those on the disk; so a disk that has some old and some new inodes is
\* still sound.
SInv ==
  ~ shifted =>
    /\ Sound(inode_table) /\ Sound(disk.inodes)
    /\ Len(inode_table) = NumInodes =>
         \A i \in 1 .. NumInodes : Extended(inode_table[i], disk.inodes[i])

LEMMA SoundIsDisjoint ==
  ASSUME SmallFiles, NEW table \in Seq(Inodes), Sound(table)
  PROVE  Disjoint(table)
<1>1. DOMAIN table = 1 .. Len(table) OBVIOUS
<1>2. ASSUME NEW i \in 1 .. Len(table)
      PROVE  Owned(table[i]) = {table[i].direct[k] : k \in Index} \ {0}
  <2>1. table[i].single = 0 BY SmallInodes
  <2> QED BY <2>1, Zenon DEF Owned, Index
<1>3. ASSUME NEW i \in 1 .. Len(table), NEW j \in 1 .. Len(table), i # j
      PROVE  Owned(table[i]) \cap Owned(table[j]) = {}
  <2> SUFFICES ASSUME NEW b \in Owned(table[i]), b \in Owned(table[j]) PROVE FALSE BY Zenon
  <2>1. PICK k \in Index : b = table[i].direct[k] BY <1>2, SMTT(30)
  <2>2. PICK l \in Index : b = table[j].direct[l] BY <1>2, Zenon
  <2>3. b # 0 BY <1>2, Zenon
  <2>4. table[i].direct[k] # 0 /\ table[i].direct[k] = table[j].direct[l] BY <2>1, <2>2, <2>3, Zenon
  <2>5. i = j BY <2>4 DEF Sound
  <2> QED BY <1>3, <2>5, Zenon
<1>4. ASSUME NEW i \in 1 .. Len(table), NEW k \in Index, NEW l \in Index,
             k # l, table[i].direct[k] # 0
      PROVE  table[i].direct[k] # table[i].direct[l]
  BY <1>4 DEF Sound
<1> QED BY <1>1, <1>3, <1>4, Zenon DEF Disjoint, Index

\* One inode gets blocks that no inode has, and keeps its name or takes one
\* that no inode has.
Grows(table, i, new) ==
  /\ \A k \in Index : new.direct[k] # 0 =>
       \/ new.direct[k] = table[i].direct[k]
       \/ \A j \in 1 .. Len(table) : \A l \in Index : table[j].direct[l] # new.direct[k]
  /\ \A k, l \in Index : k # l /\ new.direct[k] # 0 => new.direct[k] # new.direct[l]
  /\ new.name = table[i].name \/ \A j \in 1 .. Len(table) : table[j].name # new.name

LEMMA GrowsSound ==
  ASSUME NEW table \in Seq(Inodes), Sound(table), NEW i \in 1 .. Len(table), NEW new \in Inodes,
         Grows(table, i, new)
  PROVE  Sound([table EXCEPT ![i] = new])
<1> DEFINE t == [table EXCEPT ![i] = new]
<1>1. /\ Len(t) = Len(table) /\ t[i] = new
      /\ \A j \in 1 .. Len(table) : j # i => t[j] = table[j]
  BY OneInode
<1> HIDE DEF t
<1>2. ASSUME NEW a \in 1 .. Len(table), NEW b \in 1 .. Len(table), NEW k \in Index, NEW l \in Index,
             t[a].direct[k] # 0, t[a].direct[k] = t[b].direct[l]
      PROVE  a = b /\ k = l
  <2>1. CASE a = i /\ b = i BY <1>1, <1>2, <2>1, Zenon DEF Grows
  <2>2. CASE a = i /\ b # i BY <1>1, <1>2, <2>2 DEF Grows, Sound
  <2>3. CASE a # i /\ b = i BY <1>1, <1>2, <2>3 DEF Grows, Sound
  <2>4. CASE a # i /\ b # i BY <1>1, <1>2, <2>4 DEF Sound
  <2> QED BY <2>1, <2>2, <2>3, <2>4, Zenon
<1>3. ASSUME NEW a \in 1 .. Len(table), NEW b \in 1 .. Len(table),
             t[a].name # NoName, t[a].name = t[b].name
      PROVE  a = b
  BY <1>1, <1>3 DEF Grows, Sound
<1> QED BY <1>1, <1>2, <1>3 DEF Sound, t

\* A table of some of the inodes of a sound one is sound.
LEMMA OnlySound ==
  ASSUME NEW table \in Seq(Inodes), Sound(table), NEW S
  PROVE  Sound(Only(table, S))
<1> DEFINE o == Only(table, S)
<1>1. PICK g \in [1 .. Len(o) -> 1 .. Len(table)] :
        /\ \A k \in 1 .. Len(o) : o[k] = table[g[k]]
        /\ \A k, l \in 1 .. Len(o) : k # l => g[k] # g[l]
  BY OnlyFacts
<1> HIDE DEF o
<1>2. \A k \in 1 .. Len(o) : g[k] \in 1 .. Len(table) BY <1>1, Zenon
<1>3. ASSUME NEW i \in 1 .. Len(o), NEW j \in 1 .. Len(o), NEW k \in Index, NEW l \in Index,
             o[i].direct[k] # 0, o[i].direct[k] = o[j].direct[l]
      PROVE  i = j /\ k = l
  <2>1. g[i] \in 1 .. Len(table) /\ g[j] \in 1 .. Len(table) BY <1>2, Zenon
  <2>2. o[i] = table[g[i]] /\ o[j] = table[g[j]] BY <1>1, Zenon
  <2>3. g[i] = g[j] /\ k = l BY <1>3, <2>1, <2>2 DEF Sound
  <2> QED BY <1>1, <2>3, Zenon
<1>4. ASSUME NEW i \in 1 .. Len(o), NEW j \in 1 .. Len(o), o[i].name # NoName, o[i].name = o[j].name
      PROVE  i = j
  <2>1. g[i] \in 1 .. Len(table) /\ g[j] \in 1 .. Len(table) BY <1>2, Zenon
  <2>2. o[i] = table[g[i]] /\ o[j] = table[g[j]] BY <1>1, Zenon
  <2>3. g[i] = g[j] BY <1>4, <2>1, <2>2, Zenon DEF Sound
  <2> QED BY <1>1, <2>3, Zenon
<1>5. Sound(o) BY <1>3, <1>4 DEF Sound
<1> QED BY <1>5, Zenon DEF o

\* A flush that stops somewhere leaves new inodes and then old ones.
Mixed(k) == [i \in 1 .. NumInodes |-> IF i <= k THEN inode_table[i] ELSE disk.inodes[i]]

LEMMA MixedSound ==
  ASSUME GInv, Len(inode_table) = NumInodes, Sound(inode_table), Sound(disk.inodes),
         \A i \in 1 .. NumInodes : Extended(inode_table[i], disk.inodes[i]), NEW k \in Nat
  PROVE  /\ Sound(Mixed(k))
         /\ \A i \in 1 .. NumInodes : Extended(inode_table[i], Mixed(k)[i])
<1> DEFINE t == inode_table
           d == disk.inodes
           u == Mixed(k)
<1>1. /\ NumInodes \in Nat /\ Len(t) = NumInodes /\ Len(d) = NumInodes
      /\ \A i \in 1 .. NumInodes : t[i] \in Inodes /\ d[i] \in Inodes
  BY ConstantTypes DEF GInv
<1>2. /\ \A i \in 1 .. NumInodes : u[i] = t[i] \/ u[i] = d[i]
      /\ Len(u) = NumInodes
  BY <1>1 DEF Mixed
<1>3. /\ Sound(t) /\ Sound(d)
      /\ \A i \in 1 .. NumInodes : Extended(t[i], d[i])
  BY Zenon
<1> HIDE DEF t, d, u
<1>4. \A i \in 1 .. NumInodes : Extended(t[i], u[i]) BY <1>2, <1>3 DEF Extended
<1>5. \A i \in 1 .. NumInodes : u[i] \in Inodes BY <1>1, <1>2, Zenon
<1>6. ASSUME NEW i \in 1 .. NumInodes, NEW l \in Index, u[i].direct[l] # 0
      PROVE  t[i].direct[l] = u[i].direct[l]
  <2>1. u[i].num # 0 BY <1>5, <1>6 DEF Inodes, Index
  <2> QED BY <1>4, <1>6, <2>1, Zenon DEF Extended
<1>7. ASSUME NEW i \in 1 .. NumInodes, u[i].name # NoName PROVE t[i].name = u[i].name
  <2>1. u[i].num # 0 BY <1>5, <1>7, Zenon DEF Inodes
  <2> QED BY <1>4, <2>1, Zenon DEF Extended
<1>8. Sound(u)
  <2>1. ASSUME NEW i \in 1 .. NumInodes, NEW j \in 1 .. NumInodes, NEW l \in Index, NEW m \in Index,
               u[i].direct[l] # 0, u[i].direct[l] = u[j].direct[m]
        PROVE  i = j /\ l = m
    <3>1. t[i].direct[l] = u[i].direct[l] /\ t[j].direct[m] = u[j].direct[m] BY <1>6, <2>1, Zenon
    <3> QED BY <1>1, <1>3, <2>1, <3>1 DEF Sound
  <2>2. ASSUME NEW i \in 1 .. NumInodes, NEW j \in 1 .. NumInodes,
               u[i].name # NoName, u[i].name = u[j].name
        PROVE  i = j
    <3>1. t[i].name = u[i].name /\ t[j].name = u[j].name BY <1>7, <2>2, Zenon
    <3> QED BY <1>1, <1>3, <2>2, <3>1, Zenon DEF Sound
  <2> QED BY <1>2, <2>1, <2>2, SMTT(30) DEF Sound
<1> QED BY <1>4, <1>8, Zenon DEF t, u

\* What write_file does to a small file: it always finishes, in the blocks the
\* file has and in others that no file has.
Written(i, targets, data) ==
  LET inode == inode_table[i]
  IN /\ targets \in Seq(Blocks \ {0}) /\ data \in Seq(Content)
     /\ Len(targets) = Len(data) /\ Len(data) \in inode.num - 1 .. MaxBlocks
     /\ data_blocks' = Stored(targets, data)
     /\ inode_table' = [inode_table EXCEPT ![i] = Linked(inode, targets, 0)]
     /\ UNCHANGED <<disk, kernel, shifted>>
     /\ \A k \in 1 .. Len(targets) : k < inode.num => targets[k] = inode.direct[k]
     /\ \A k \in 1 .. Len(targets) : inode.num <= k =>
          /\ \A j \in 1 .. Len(inode_table) : \A l \in Index : inode_table[j].direct[l] # targets[k]
          /\ \A l \in 1 .. Len(targets) : inode.num <= l /\ l # k => targets[l] # targets[k]

LEMMA SmallWrite ==
  ASSUME SmallFiles, GInv, NEW f \in Names, NEW from \in Nat, NEW n \in Nat, NEW v \in Values,
         NEW aligned, Write(f, from, n, v, aligned)
  PROVE  LET i == IndexOf(inode_table, f)
         IN \E targets :
              Written(i, targets, Overlay(Contents(inode_table[i], data_blocks), from, n, v, aligned))
<1> DEFINE i == IndexOf(inode_table, f)
           inode == inode_table[i]
           new == Overlay(Contents(inode, data_blocks), from, n, v, aligned)
           targets == Targets(inode, Len(new))
           links == LinkAll(inode, targets, Stored(targets, new))
<1>1. UNCHANGED disk /\ Exists(inode_table, f) BY Zenon DEF Write
<1>2. /\ i \in 1 .. Len(inode_table) /\ inode \in Inodes /\ inode.num # 0
      /\ inode.num \in Nat /\ inode.num <= NumDirect /\ inode.single = 0
      /\ NumDirect \in Nat /\ MaxBlocks \in Nat /\ MaxBlocks < NumDirect
      /\ data_blocks \in Array /\ inode_table \in Seq(Inodes)
  BY <1>1, NamedInode, SmallInodes, ConstantTypes, Zenon DEF GInv, SmallFiles
<1>3. Readable(inode, data_blocks)
  <2>1. i \in DOMAIN inode_table BY <1>2
  <2> QED BY <1>2, <2>1, GReadable, Zenon DEF DirectFilesReadable
<1>4. \/ /\ ~ links.ok \/ ~ (Range(targets) \subseteq Blocks)
      \/ /\ targets \in Seq(Blocks \ {0})
         /\ new \in Seq(Content) /\ Stored(targets, new) \in Array
         /\ Len(new) \in inode.num - 1 .. MaxBlocks
         /\ WriteDone(i, inode, new, targets, links)
  BY <1>3, WriteEffect, Zenon
<1>5. PaddedLen(inode.num - 1, from, n, aligned) <= MaxBlocks BY Zenon DEF Write
<1> HIDE DEF i, inode
<1>6. new \in Seq(Content) /\ Len(new) \in Nat /\ Len(new) \in inode.num - 1 .. MaxBlocks
  <2> DEFINE old == Contents(inode, data_blocks)
  <2>1. old \in Seq(Content) /\ Len(old) = inode.num - 1 BY <1>2, <1>3, ContentsType, Zenon
  <2> HIDE DEF old
  <2>2. new \in Seq(Content) /\ Len(new) = PaddedLen(inode.num - 1, from, n, aligned)
    BY <2>1, OverlayType DEF old
  <2> QED BY <1>2, <1>5, <2>2, PaddedLenFacts
<1> HIDE DEF new
<1> DEFINE E == EmptyBlocks(inode_table, data_blocks, Range(Tail(Addresses(inode, data_blocks))))
<1>7. /\ targets \in Seq(Nat \ {0}) /\ Len(targets) <= Len(new)
      /\ \A k \in 1 .. Len(targets) :
           k < inode.num /\ k < NumDirect => targets[k] = inode.direct[k]
      /\ \A k \in 1 .. Len(targets) : inode.num <= k =>
           /\ targets[k] \in E
           /\ \A l \in 1 .. Len(targets) : inode.num <= l /\ l # k => targets[l] # targets[k]
  BY <1>2, <1>6, TargetsFacts
<1>8. /\ E \subseteq Blocks
      /\ \A b \in E : \A j \in 1 .. Len(inode_table) : \A l \in Index : inode_table[j].direct[l] # b
  <2>1. DOMAIN inode_table = 1 .. Len(inode_table) BY <1>2
  <2>2. \A b \in E : \A j \in DOMAIN inode_table : \A l \in Index : inode_table[j].direct[l] # b
    BY Zenon DEF EmptyBlocks, Index
  <2>3. E \subseteq Blocks BY EmptyBlocksFacts, Zenon
  <2> HIDE DEF E
  <2> QED BY <2>1, <2>2, <2>3, Zenon
<1> HIDE DEF E, targets
<1>9. Len(targets) \in Nat /\ DOMAIN targets = 1 .. Len(targets) /\ Len(targets) < NumDirect
  BY <1>2, <1>6, <1>7
<1>10. ASSUME NEW k \in 1 .. Len(targets) PROVE targets[k] \in Blocks
  <2>1. CASE k < inode.num
    <3>1. k \in Index BY <1>2, <1>9 DEF Index
    <3>2. targets[k] = inode.direct[k] BY <1>2, <1>7, <1>9, <2>1, SMTT(30)
    <3> QED BY <1>2, <3>1, <3>2, Zenon DEF Inodes
  <2>2. CASE inode.num <= k BY <1>7, <1>8, <2>2, Zenon
  <2> QED BY <1>2, <1>9, <2>1, <2>2
<1>11. targets \in Seq(Blocks) /\ Range(targets) \subseteq Blocks
  BY <1>7, <1>9, <1>10, SMTT(30) DEF Range
<1>12. Stored(targets, new) \in Array BY <1>2, <1>6, <1>7, StoredType, Zenon
<1>13. links = [ok |-> TRUE, single |-> 0, blocks |-> Stored(targets, new)]
  <2> DEFINE blocks == Stored(targets, new)
  <2> HIDE DEF blocks
  <2>1. blocks \in Array BY <1>12, Zenon DEF blocks
  <2>2. LinkAll(inode, targets, blocks) = [ok |-> TRUE, single |-> inode.single, blocks |-> blocks]
    BY <1>2, <1>9, <1>11, <2>1, LinkAllFacts, Zenon
  <2> QED BY <1>2, <2>2, Zenon DEF blocks
<1>14. links.ok /\ links.single = 0 /\ links.blocks = Stored(targets, new) BY <1>13
<1> HIDE DEF links
<1>15. targets \in Seq(Blocks \ {0}) /\ WriteDone(i, inode, new, targets, links)
  BY <1>4, <1>11, <1>14, Zenon
<1>16. /\ Len(targets) = Len(new)
       /\ data_blocks' = Stored(targets, new)
       /\ inode_table' = [inode_table EXCEPT ![i] = Linked(inode, targets, 0)]
       /\ UNCHANGED <<disk, kernel, shifted>>
  BY <1>1, <1>14, <1>15, Zenon DEF WriteDone
<1>17. \A k \in 1 .. Len(targets) : k < inode.num => targets[k] = inode.direct[k]
  BY <1>2, <1>7, <1>9
<1>18. \A k \in 1 .. Len(targets) : inode.num <= k =>
          /\ \A j \in 1 .. Len(inode_table) : \A l \in Index : inode_table[j].direct[l] # targets[k]
          /\ \A l \in 1 .. Len(targets) : inode.num <= l /\ l # k => targets[l] # targets[k]
  BY <1>7, <1>8, Zenon
<1>19. Written(i, targets, new) BY <1>6, <1>15, <1>16, <1>17, <1>18, Zenon DEF Written, inode
<1> QED BY <1>19, Zenon DEF i, inode, new

\* Changing one inode for a later state of it.
LEMMA ChangeS ==
  ASSUME GInv, SInv, NEW i \in 1 .. Len(inode_table), NEW new \in Inodes,
         Grows(inode_table, i, new), Extended(new, inode_table[i]),
         inode_table' = [inode_table EXCEPT ![i] = new], UNCHANGED <<disk, shifted>>
  PROVE  SInv'
<1> SUFFICES ASSUME ~ shifted
             PROVE  /\ Sound(inode_table')
                    /\ Len(inode_table') = NumInodes =>
                         \A j \in 1 .. NumInodes : Extended(inode_table'[j], disk.inodes[j])
  BY Zenon DEF SInv
<1>1. inode_table \in Seq(Inodes) /\ Sound(inode_table) BY Zenon DEF GInv, SInv
<1>2. Sound(inode_table') BY <1>1, GrowsSound, Zenon
<1>3. Len(inode_table') = Len(inode_table) BY <1>1, OneInode, Zenon
<1>4. ASSUME Len(inode_table) = NumInodes, NEW j \in 1 .. NumInodes
      PROVE  Extended(inode_table'[j], disk.inodes[j])
  <2>1. Extended(inode_table[j], disk.inodes[j]) BY <1>4, Zenon DEF SInv
  <2>2. CASE j # i
    <3>1. inode_table'[j] = inode_table[j] BY <1>1, <1>4, <2>2
    <3> QED BY <2>1, <3>1, Zenon
  <2>3. CASE j = i
    <3>1. inode_table'[j] = new BY <1>1, <1>4, <2>3
    <3>2. disk.inodes[j] \in Inodes /\ inode_table[j] \in Inodes BY <1>1, <1>4 DEF GInv
    <3>3. disk.inodes[j].num # 0 => disk.inodes[j].name # NoName BY <3>2, Zenon DEF Inodes
    <3>4. disk.inodes[j].num # 0 => inode_table[j].num # 0 BY <2>1, <3>2, <3>3, Zenon DEF Inodes, Extended
    <3>5. Extended(new, inode_table[j]) BY <2>3, Zenon
    <3> QED BY <2>1, <3>1, <3>4, <3>5, Zenon DEF Extended
  <2> QED BY <2>2, <2>3, Zenon
<1> QED BY <1>2, <1>3, <1>4, Zenon

\* create_file gives the inode a block that no file has.
LEMMA CreateS ==
  ASSUME GInv, SInv, NEW f \in Names, Create(f)
  PROVE  SInv'
<1>1. PICK block \in EmptyBlocks(inode_table, data_blocks, {}) :
        \/ \E i \in 1 .. Len(inode_table) :
             /\ inode_table[i].num = 0
             /\ inode_table' = [inode_table EXCEPT ![i] = NewInode(f, block)]
        \/ UNCHANGED inode_table
  BY CreateEffect, Zenon
<1>2. UNCHANGED <<disk, shifted>> /\ ~ Exists(inode_table, f) BY CreateEffect, Zenon
<1>3. CASE UNCHANGED inode_table BY <1>2, <1>3, Zenon DEF SInv
<1>4. ASSUME NEW i \in 1 .. Len(inode_table), inode_table[i].num = 0,
             inode_table' = [inode_table EXCEPT ![i] = NewInode(f, block)]
      PROVE  SInv'
  <2> DEFINE new == NewInode(f, block)
  <2>1. block \in Blocks \ {0} BY EmptyBlocksFacts, Zenon
  <2>2. new \in Inodes /\ new.direct[0] = block /\ \A k \in Index \ {0} : new.direct[k] = 0
    BY <2>1, NewInodeFacts, Zenon
  <2>3. new.name = f BY Zenon DEF NewInode
  <2>4. DOMAIN inode_table = 1 .. Len(inode_table) BY DEF GInv
  <2>5. \A j \in 1 .. Len(inode_table) : \A l \in Index : inode_table[j].direct[l] # block
    BY <2>4, Zenon DEF EmptyBlocks, Index
  <2>6. \A j \in 1 .. Len(inode_table) : inode_table[j].name # f BY <1>2, <2>4, Zenon DEF Exists
  <2>7. new \in Inodes /\ inode_table' = [inode_table EXCEPT ![i] = new] BY <1>4, <2>2, Zenon
  <2> HIDE DEF new
  <2>8. Grows(inode_table, i, new) BY <2>1, <2>2, <2>3, <2>5, <2>6, Zenon DEF Grows
  <2>9. Extended(new, inode_table[i]) BY <1>4, Zenon DEF Extended
  <2> QED BY <1>2, <2>7, <2>8, <2>9, ChangeS, Zenon
<1> QED BY <1>1, <1>3, <1>4, Zenon

\* write_file gives it blocks that no file has, each of them once.
LEMMA WriteS ==
  ASSUME SmallFiles, GInv, SInv, NEW i \in 1 .. Len(inode_table), inode_table[i].num # 0,
         NEW targets, NEW data, Written(i, targets, data)
  PROVE  SInv'
<1> DEFINE inode == inode_table[i]
           new == Linked(inode, targets, 0)
<1>1. /\ targets \in Seq(Blocks \ {0}) /\ Len(targets) \in inode.num - 1 .. MaxBlocks
      /\ inode_table' = [inode_table EXCEPT ![i] = new]
      /\ UNCHANGED <<disk, shifted>>
  BY Zenon DEF Written
<1>2. /\ \A k \in 1 .. Len(targets) : k < inode.num => targets[k] = inode.direct[k]
      /\ \A k \in 1 .. Len(targets) : inode.num <= k =>
          /\ \A j \in 1 .. Len(inode_table) : \A l \in Index : inode_table[j].direct[l] # targets[k]
          /\ \A l \in 1 .. Len(targets) : inode.num <= l /\ l # k => targets[l] # targets[k]
  BY Zenon DEF Written
<1>3. inode \in Inodes BY DEF GInv
<1>4. inode.num \in Nat /\ inode.num # 0 /\ inode.single = 0 /\ inode.num <= NumDirect BY <1>3, SmallInodes, Zenon
<1>5. Len(targets) \in Nat /\ inode.num - 1 <= Len(targets) /\ Len(targets) <= MaxBlocks
  BY <1>1, <1>4, ConstantTypes
<1> HIDE DEF inode
<1>6. /\ new \in Inodes /\ new.name = inode.name
      /\ \A k \in Index : new.direct[k] = IF k \in 1 .. Len(targets) THEN targets[k]
                                          ELSE inode.direct[k]
  BY <1>1, <1>3, <1>4, <1>5, ConstantTypes, LinkedFacts, SMTT(30)
<1> HIDE DEF new
\* A pointer is an old one, or one to a block nobody has.
<1>7. ASSUME NEW k \in Index, new.direct[k] # 0
      PROVE  \/ k < inode.num /\ new.direct[k] = inode.direct[k]
             \/ inode.num <= k /\ k \in 1 .. Len(targets) /\ new.direct[k] = targets[k]
  <2>1. k \in Nat BY DEF Index
  <2>2. CASE k \in 1 .. Len(targets) BY <1>2, <1>4, <1>6, <2>1, <2>2
  <2>3. CASE k \notin 1 .. Len(targets)
    <3>1. inode.direct[k] # 0 BY <1>6, <1>7, <2>3, Zenon
    <3>2. k < inode.num BY <1>3, <3>1, Zenon DEF Inodes
    <3> QED BY <1>6, <2>3, <3>2, Zenon
  <2> QED BY <2>2, <2>3, Zenon
<1>8. ASSUME ~ shifted, NEW k \in Index, NEW l \in Index, k # l, new.direct[k] # 0
      PROVE  new.direct[k] # new.direct[l]
  <2> SUFFICES ASSUME new.direct[k] = new.direct[l] PROVE FALSE BY Zenon
  <2>1. Sound(inode_table) BY <1>8, Zenon DEF SInv
  <2>2. \/ k < inode.num /\ new.direct[k] = inode.direct[k]
        \/ inode.num <= k /\ k \in 1 .. Len(targets) /\ new.direct[k] = targets[k]
    BY <1>7, <1>8, Zenon
  <2>3. \/ l < inode.num /\ new.direct[l] = inode.direct[l]
        \/ inode.num <= l /\ l \in 1 .. Len(targets) /\ new.direct[l] = targets[l]
    BY <1>7, <1>8, Zenon
  <2>4. CASE new.direct[k] = inode.direct[k] /\ new.direct[l] = inode.direct[l]
    <3>1. inode_table[i].direct[k] # 0 /\ inode_table[i].direct[k] = inode_table[i].direct[l]
      BY <1>8, <2>4, Zenon DEF inode
    <3>2. k = l BY <2>1, <3>1, Zenon DEF Sound
    <3> QED BY <1>8, <3>2, Zenon
  <2>5. CASE /\ inode.num <= k /\ k \in 1 .. Len(targets) /\ new.direct[k] = targets[k]
             /\ new.direct[l] = inode.direct[l]
    BY <1>2, <2>5, Zenon DEF inode
  <2>6. CASE /\ inode.num <= l /\ l \in 1 .. Len(targets) /\ new.direct[l] = targets[l]
             /\ new.direct[k] = inode.direct[k]
    BY <1>2, <2>6 DEF inode
  <2>7. CASE /\ inode.num <= k /\ k \in 1 .. Len(targets) /\ new.direct[k] = targets[k]
             /\ inode.num <= l /\ l \in 1 .. Len(targets) /\ new.direct[l] = targets[l]
    BY <1>2, <1>8, <2>7, Zenon
  <2> QED BY <2>2, <2>3, <2>4, <2>5, <2>6, <2>7, Zenon
<1>9. CASE shifted BY <1>1, <1>9, Zenon DEF SInv
<1>10. CASE ~ shifted
  <2>1. \A k \in Index : new.direct[k] # 0 =>
          \/ new.direct[k] = inode_table[i].direct[k]
          \/ \A j \in 1 .. Len(inode_table) : \A l \in Index : inode_table[j].direct[l] # new.direct[k]
    BY <1>2, <1>7 DEF inode
  <2>2. Grows(inode_table, i, new) BY <1>6, <1>8, <1>10, <2>1, Zenon DEF Grows, inode
  <2>3. Extended(new, inode_table[i])
    <3>1. ASSUME NEW k \in Index, inode.direct[k] # 0 PROVE new.direct[k] = inode.direct[k]
      <4>1. k < inode.num /\ k \in Nat BY <1>3, <3>1 DEF Inodes, Index
      <4> QED BY <1>2, <1>6, <4>1, Zenon
    <3> QED BY <1>6, <3>1, Zenon DEF Extended, inode
  <2> QED BY <1>1, <1>6, <2>2, <2>3, ChangeS, Zenon
<1> QED BY <1>9, <1>10, Zenon

\* delete leaves some of the inodes, and fewer of them.
LEMMA DeleteS ==
  ASSUME SmallFiles, GInv, SInv, NEW f \in Names, Delete(f)
  PROVE  SInv' /\ inode_table' = Only(inode_table, {i \in Range(inode_table) : i.name # f})
         /\ Len(inode_table') < NumInodes /\ UNCHANGED <<kernel, shifted>>
<1> DEFINE i == IndexOf(inode_table, f)
           kept == {j \in Range(inode_table) : j.name # f}
<1>1. Exists(inode_table, f) /\ UNCHANGED disk BY Zenon DEF Delete
<1>2. i \in 1 .. Len(inode_table) /\ inode_table[i] \in Inodes /\ inode_table[i].name = f
  BY <1>1, NamedInode, Zenon
<1>3. inode_table[i].num <= NumDirect BY <1>2, SmallInodes, Zenon
<1>4. inode_table' = Only(inode_table, kept) /\ UNCHANGED <<kernel, shifted>> BY <1>3, Zenon DEF Delete
<1>5. inode_table[i] \notin kept BY <1>2, Zenon
<1> HIDE DEF i, kept
<1>6. inode_table \in Seq(Inodes) /\ Len(inode_table) <= NumInodes /\ NumInodes \in Nat
  BY ConstantTypes, Zenon DEF GInv
<1>7. Only(inode_table, kept) \in Seq(Inodes) BY <1>6, OnlyFacts, Zenon
<1>8. Len(Only(inode_table, kept)) < Len(inode_table) BY <1>2, <1>5, <1>6, OnlyShorter, Zenon
<1>9. Len(inode_table') < NumInodes BY <1>4, <1>6, <1>7, <1>8
<1>10. ASSUME ~ shifted PROVE Sound(inode_table')
  BY <1>4, <1>6, <1>10, OnlySound, Zenon DEF SInv
<1>11. Len(inode_table') # NumInodes BY <1>4, <1>6, <1>7, <1>9
<1>12. SInv' BY <1>1, <1>4, <1>10, <1>11, Zenon DEF SInv
<1> QED BY <1>4, <1>9, <1>12, Zenon DEF kept

\* A flush mixes new and old inodes, or marks that it wrote a shortened table.
LEMMA FlushS ==
  ASSUME GInv, SInv, Flush \/ FlushPanics \/ \E k \in 0 .. AllSectors - 1 : FlushCutShort(k)
  PROVE  SInv'
<1> SUFFICES ASSUME ~ shifted' PROVE SInv' BY Zenon DEF SInv
<1>1. AllSectors \in Nat /\ NumInodes \in Nat /\ Len(inode_table) \in Nat /\ Len(inode_table) <= NumInodes
  BY ConstantTypes DEF AllSectors, GInv
<1>2. /\ Len(inode_table) = NumInodes /\ ~ shifted /\ UNCHANGED <<inode_table, shifted>>
      /\ \E k \in Nat : disk' = AfterSectors(k)
  <2>1. CASE Flush BY <1>1, <2>1, Zenon DEF Flush
  <2>2. CASE FlushPanics BY <2>2, Zenon DEF FlushPanics
  <2>3. CASE \E k \in 0 .. AllSectors - 1 : FlushCutShort(k)
    <3>1. PICK k \in 0 .. AllSectors - 1 : FlushCutShort(k) BY <2>3, Zenon
    <3>2. k \in Nat BY <1>1
    <3>3. disk' = AfterSectors(k) /\ UNCHANGED inode_table BY <3>1, Zenon DEF FlushCutShort
    <3>4. ~ shifted /\ ~ (Len(inode_table) < NumInodes) BY <3>1, Zenon DEF FlushCutShort
    <3>5. shifted' = FALSE /\ shifted = FALSE BY <3>1, <3>4, Zenon DEF FlushCutShort, GInv
    <3>6. Len(inode_table) = NumInodes BY <1>1, <3>4
    <3>7. \E m \in Nat : disk' = AfterSectors(m) BY <3>2, <3>3, Zenon
    <3> QED BY <3>3, <3>5, <3>6, <3>7, Zenon
  <2> QED BY <2>1, <2>2, <2>3, Zenon
<1>3. PICK k \in Nat : disk' = AfterSectors(k) BY <1>2, Zenon
<1>4. disk'.inodes = Mixed(k) BY <1>3, Zenon DEF AfterSectors, Mixed
<1>5. /\ Sound(inode_table) /\ Sound(disk.inodes)
      /\ \A i \in 1 .. NumInodes : Extended(inode_table[i], disk.inodes[i])
  BY <1>2, Zenon DEF SInv
<1>6. /\ Sound(Mixed(k))
      /\ \A i \in 1 .. NumInodes : Extended(inode_table[i], Mixed(k)[i])
  BY <1>2, <1>5, MixedSound, Zenon
<1> QED BY <1>2, <1>4, <1>5, <1>6, Zenon DEF SInv

LEMMA RebootS ==
  ASSUME SInv, Reboot
  PROVE  SInv'
<1>1. inode_table' = disk.inodes /\ UNCHANGED <<disk, shifted>> BY Zenon DEF Reboot
<1>2. \A i \in 1 .. NumInodes : Extended(disk.inodes[i], disk.inodes[i]) BY Zenon DEF Extended
<1> QED BY <1>1, <1>2, Zenon DEF SInv

LEMMA InitS == Init => SInv
<1> SUFFICES ASSUME Init PROVE SInv BY Zenon
<1>1. NumInodes \in Nat BY ConstantTypes, Zenon
<1>2. /\ inode_table = disk.inodes /\ Len(inode_table) = NumInodes
      /\ \A i \in 1 .. NumInodes : inode_table[i] = EmptyInode
  BY <1>1 DEF Init
<1>3. EmptyInode.name = NoName /\ EmptyInode.num = 0 /\ \A k \in Index : EmptyInode.direct[k] = 0
  BY Zenon DEF EmptyInode, Index
<1>4. Sound(inode_table) BY <1>2, <1>3, Zenon DEF Sound
<1>5. \A i \in 1 .. NumInodes : Extended(inode_table[i], disk.inodes[i]) BY <1>2, <1>3, Zenon DEF Extended
<1> QED BY <1>2, <1>4, <1>5, Zenon DEF SInv

LEMMA NextS ==
  ASSUME SmallFiles
  PROVE  GInv /\ SInv /\ [Next]_vars => SInv'
<1> SUFFICES ASSUME GInv, SInv, [Next]_vars PROVE SInv' BY Zenon
<1>1. CASE UNCHANGED vars BY <1>1, Zenon DEF vars, SInv
<1>2. ASSUME NEW f \in Names, NEW from \in 0 .. MaxBlocks - 1, NEW n \in 0 .. MaxBlocks,
             NEW v \in Values, NEW aligned \in BOOLEAN, Write(f, from, n, v, aligned)
      PROVE  SInv'
  <2>1. from \in Nat /\ n \in Nat BY ConstantTypes
  <2>2. Exists(inode_table, f) BY <1>2, Zenon DEF Write
  <2> DEFINE i == IndexOf(inode_table, f)
  <2>3. i \in 1 .. Len(inode_table) /\ inode_table[i].num # 0 BY <2>2, NamedInode, Zenon
  <2>4. \E targets :
          Written(i, targets, Overlay(Contents(inode_table[i], data_blocks), from, n, v, aligned))
    BY <1>2, <2>1, SmallWrite, Zenon
  <2> HIDE DEF i
  <2> QED BY <2>3, <2>4, WriteS, Zenon
<1>3. ASSUME NEW f \in Names, NEW a \in Attrs, SetAttr(f, a) PROVE SInv'
  BY <1>3, Zenon DEF SetAttr, SInv
<1>4. CASE Flush BY <1>4, FlushS, Zenon
<1>5. CASE BrokenFlush BY <1>5, FlushS, Zenon DEF BrokenFlush
<1>6. CASE Reboot BY <1>6, RebootS, Zenon
<1>7. CASE Operation BY <1>2, <1>3, <1>4, <1>7, CreateS, DeleteS, Zenon DEF Operation
<1> QED BY <1>1, <1>5, <1>6, <1>7, Zenon DEF Next

LEMMA SmallInvariance ==
  ASSUME SmallFiles
  PROVE  Spec => [](GInv /\ SInv)
<1>1. GInv /\ SInv /\ [Next]_vars => (GInv /\ SInv)' BY NextG, NextS, Zenon
<1> QED BY <1>1, InitG, InitS, PTL DEF Spec

\* While no flush has begun to write a shortened table, no block belongs to two
\* files, neither in memory nor on the disk, wherever earlier flushes were cut
\* short (find_empty_data_block, write_file, write_to_disk).
THEOREM BlocksOwnedOnce ==
  ASSUME SmallFiles
  PROVE  Spec => []BlocksNotShared
<1>1. GInv /\ SInv => BlocksNotShared
  <2> SUFFICES ASSUME GInv, SInv, ~ shifted PROVE Disjoint(inode_table) /\ Disjoint(disk.inodes)
    BY Zenon DEF BlocksNotShared
  <2>1. inode_table \in Seq(Inodes) /\ disk.inodes \in Seq(Inodes) BY Zenon DEF GInv
  <2>2. Sound(inode_table) /\ Sound(disk.inodes) BY Zenon DEF SInv
  <2> QED BY <2>1, <2>2, SoundIsDisjoint, Zenon
<1> QED BY <1>1, SmallInvariance, PTL

\* Only the targets of a write change.
LEMMA StoredElsewhere ==
  ASSUME NEW X, NEW targets \in Seq(X), NEW data, NEW b \in Blocks,
         \A k \in 1 .. Len(targets) : targets[k] # b
  PROVE  Stored(targets, data)[b] = data_blocks[b]
<1>1. DOMAIN targets = 1 .. Len(targets) OBVIOUS
<1>2. ~ \E k \in DOMAIN targets : targets[k] = b BY <1>1, Zenon
<1> QED BY <1>2, Zenon DEF Stored

\* Some file has block b.
Has(table, b) == b # 0 /\ \E i \in 1 .. Len(table) : \E k \in Index : table[i].direct[k] = b

LEMMA LostIff ==
  ASSUME SmallFiles, NEW table \in Seq(Inodes), NEW blocks, NEW b
  PROVE  b \in Lost(table, blocks) <=> b \in Blocks /\ blocks[b] # Zero /\ ~ Has(table, b)
<1>1. DOMAIN table = 1 .. Len(table) OBVIOUS
<1>2. ASSUME NEW i \in 1 .. Len(table)
      PROVE  b \in Owned(table[i]) <=> b # 0 /\ \E k \in Index : table[i].direct[k] = b
  <2>1. table[i].single = 0 BY SmallInodes
  <2> QED BY <2>1, Zenon DEF Owned, Index
<1>3. b \in UNION {Owned(table[i]) : i \in DOMAIN table} <=> Has(table, b)
  <2>1. b \in UNION {Owned(table[i]) : i \in DOMAIN table}
          <=> \E i \in 1 .. Len(table) : b \in Owned(table[i])
    BY <1>1, Zenon
  <2> QED BY <1>2, <2>1, Zenon DEF Has
<1> QED BY <1>3, Zenon DEF Lost

LEMMA WriteLosesNothing ==
  ASSUME SmallFiles, GInv, NEW i \in 1 .. Len(inode_table), inode_table[i].num # 0,
         NEW targets, NEW data, Written(i, targets, data), NEW b \in Blocks
  PROVE  /\ data_blocks'[b] # data_blocks[b] => Has(inode_table', b)
         /\ Has(inode_table, b) => Has(inode_table', b)
<1> DEFINE inode == inode_table[i]
           new == Linked(inode, targets, 0)
<1>1. /\ targets \in Seq(Blocks \ {0}) /\ Len(targets) \in inode.num - 1 .. MaxBlocks
      /\ inode_table' = [inode_table EXCEPT ![i] = new]
      /\ data_blocks' = Stored(targets, data)
      /\ \A k \in 1 .. Len(targets) : k < inode.num => targets[k] = inode.direct[k]
  BY Zenon DEF Written
<1>2. inode \in Inodes /\ inode_table \in Seq(Inodes) BY DEF GInv
<1>3. inode.num \in Nat /\ inode.num # 0 /\ inode.single = 0 /\ NumDirect \in Nat
      /\ MaxBlocks \in Nat /\ MaxBlocks < NumDirect
  BY <1>2, SmallInodes, ConstantTypes, Zenon DEF SmallFiles
<1>4. Len(targets) \in Nat /\ inode.num - 1 <= Len(targets) /\ Len(targets) <= MaxBlocks
  BY <1>1, <1>3
<1> HIDE DEF inode
<1>5. /\ new \in Inodes
      /\ \A k \in Index : new.direct[k] = IF k \in 1 .. Len(targets) THEN targets[k]
                                          ELSE inode.direct[k]
  BY <1>1, <1>2, <1>3, <1>4, ConstantTypes, LinkedFacts, SMTT(30)
<1> HIDE DEF new
<1>6. /\ Len(inode_table') = Len(inode_table) /\ inode_table'[i] = new
      /\ \A j \in 1 .. Len(inode_table) : j # i => inode_table'[j] = inode_table[j]
  BY <1>1, <1>2, <1>5, OneInode
<1>7. ASSUME data_blocks'[b] # data_blocks[b] PROVE Has(inode_table', b)
  <2>1. PICK k \in 1 .. Len(targets) : targets[k] = b BY <1>1, <1>7, StoredElsewhere, Zenon
  <2>2. k \in Index BY <1>3, <1>4 DEF Index
  <2>3. b # 0 /\ new.direct[k] = b BY <1>1, <1>5, <2>1, <2>2
  <2> QED BY <1>6, <2>2, <2>3, Zenon DEF Has
<1>8. ASSUME Has(inode_table, b) PROVE Has(inode_table', b)
  <2>1. b # 0 BY <1>8, Zenon DEF Has
  <2>2. PICK j \in 1 .. Len(inode_table) : \E k \in Index : inode_table[j].direct[k] = b
    BY <1>8, Zenon DEF Has
  <2>3. PICK k \in Index : inode_table[j].direct[k] = b BY <2>2, Zenon
  <2>4. CASE j # i BY <1>6, <2>1, <2>3, <2>4, Zenon DEF Has
  <2>5. CASE j = i
    <3>1. inode.direct[k] = b BY <2>3, <2>5, Zenon DEF inode
    <3>2. k < inode.num /\ k \in Nat BY <1>2, <2>1, <3>1 DEF Inodes, Index
    <3>3. new.direct[k] = b BY <1>1, <1>5, <3>1, <3>2, Zenon
    <3> QED BY <1>6, <2>1, <3>3, Zenon DEF Has
  <2> QED BY <2>4, <2>5, Zenon
<1> QED BY <1>7, <1>8, Zenon

LEMMA CreateLosesNothing ==
  ASSUME GInv, NEW f \in Names, Create(f), inode_table' # inode_table, NEW b \in Blocks
  PROVE  /\ data_blocks'[b] # data_blocks[b] => Has(inode_table', b)
         /\ Has(inode_table, b) => Has(inode_table', b)
<1>1. PICK block \in EmptyBlocks(inode_table, data_blocks, {}) :
        /\ data_blocks' = [data_blocks EXCEPT ![block] = Metadata(DefaultAttr)]
        /\ \E i \in 1 .. Len(inode_table) :
             /\ inode_table[i].num = 0
             /\ inode_table' = [inode_table EXCEPT ![i] = NewInode(f, block)]
  BY CreateEffect, Zenon
<1>2. PICK i \in 1 .. Len(inode_table) :
        inode_table[i].num = 0 /\ inode_table' = [inode_table EXCEPT ![i] = NewInode(f, block)]
  BY <1>1, Zenon
<1> DEFINE new == NewInode(f, block)
<1>3. block \in Blocks \ {0} BY EmptyBlocksFacts, Zenon
<1>4. new \in Inodes /\ new.direct[0] = block BY <1>3, NewInodeFacts, Zenon
<1>5. inode_table' = [inode_table EXCEPT ![i] = new] BY <1>2, Zenon
<1> HIDE DEF new
<1>6. inode_table \in Seq(Inodes) BY Zenon DEF GInv
<1>7. /\ Len(inode_table') = Len(inode_table) /\ inode_table'[i] = new
      /\ \A j \in 1 .. Len(inode_table) : j # i => inode_table'[j] = inode_table[j]
  BY <1>4, <1>5, <1>6, OneInode
<1>8. ASSUME data_blocks'[b] # data_blocks[b] PROVE Has(inode_table', b)
  <2>1. b = block BY <1>1, <1>8, Zenon DEF GInv, Array
  <2> QED BY <1>3, <1>4, <1>7, <2>1, ConstantTypes, Zenon DEF Has
<1>9. ASSUME Has(inode_table, b) PROVE Has(inode_table', b)
  <2>1. b # 0 BY <1>9, Zenon DEF Has
  <2>2. PICK j \in 1 .. Len(inode_table) : \E k \in Index : inode_table[j].direct[k] = b
    BY <1>9, Zenon DEF Has
  <2>3. inode_table[i] \in Inodes BY <1>6
  <2>4. \A k \in Index : inode_table[i].direct[k] = 0
    <3>1. \A k \in Index : ~ (k < 0) BY DEF Index
    <3> QED BY <1>2, <2>3, <3>1, Zenon DEF Inodes
  <2>5. j # i BY <2>1, <2>2, <2>4, Zenon
  <2> QED BY <1>7, <2>1, <2>2, <2>5, Zenon DEF Has
<1> QED BY <1>8, <1>9, Zenon

\* What delete does not zero, another file has.
LEMMA DeleteLosesNothing ==
  ASSUME SmallFiles, GInv, SInv, ~ shifted, NEW f \in Names, Delete(f), NEW b \in Blocks,
         data_blocks'[b] # Zero
  PROVE  /\ data_blocks'[b] = data_blocks[b]
         /\ Has(inode_table, b) => Has(inode_table', b)
<1> DEFINE i == IndexOf(inode_table, f)
           inode == inode_table[i]
           kept == {j \in Range(inode_table) : j.name # f}
           o == Only(inode_table, kept)
<1>1. /\ Exists(inode_table, f)
      /\ data_blocks' = [c \in Blocks |-> IF c \in Zeroed(inode) THEN Zero ELSE data_blocks[c]]
  BY Zenon DEF Delete
<1>2. b \notin Zeroed(inode) /\ data_blocks'[b] = data_blocks[b] BY <1>1, Zenon
<1>3. i \in 1 .. Len(inode_table) /\ inode \in Inodes /\ inode.name = f BY <1>1, NamedInode, Zenon
<1>4. inode_table \in Seq(Inodes) /\ Sound(inode_table) BY Zenon DEF GInv, SInv
<1>5. inode_table' = o BY DeleteS, Zenon
<1>6. DOMAIN inode_table = 1 .. Len(inode_table) BY <1>4
<1>7. \A j \in 1 .. Len(inode_table) : inode_table[j].name # f => inode_table[j] \in kept
  BY <1>6, Zenon DEF Range
<1> HIDE DEF i, inode, kept
<1>8. PICK g \in [1 .. Len(o) -> 1 .. Len(inode_table)] :
        /\ \A k \in 1 .. Len(o) : o[k] = inode_table[g[k]]
        /\ \A j \in 1 .. Len(inode_table) :
             inode_table[j] \in kept => \E k \in 1 .. Len(o) : g[k] = j
  BY <1>4, OnlyFacts
<1> HIDE DEF o
<1>9. ASSUME Has(inode_table, b) PROVE Has(inode_table', b)
  <2>1. b # 0 BY <1>9, Zenon DEF Has
  <2>2. PICK j \in 1 .. Len(inode_table) : \E k \in Index : inode_table[j].direct[k] = b
    BY <1>9, Zenon DEF Has
  <2>3. PICK k \in Index : inode_table[j].direct[k] = b BY <2>2, Zenon
  <2>4. CASE inode_table[j].name = f
    <3>1. f # NoName BY PhysFsAssumption, Zenon
    <3>2. inode_table[i].name = f BY <1>3, Zenon DEF inode
    <3>3. j = i BY <1>3, <1>4, <2>4, <3>1, <3>2, Zenon DEF Sound
    <3>4. inode.direct[k] = b BY <2>3, <3>3, Zenon DEF inode
    <3>5. k < inode.num /\ k \in Nat /\ inode.num \in Nat
      BY <1>3, <2>1, <3>4, ConstantTypes DEF Inodes, Index
    <3>6. k \in (0 .. NumDirect - 1) \cap (0 .. inode.num - 1) BY <3>5 DEF Index
    <3> QED BY <1>2, <3>4, <3>6, Zenon DEF Zeroed
  <2>5. CASE inode_table[j].name # f
    <3>1. PICK m \in 1 .. Len(o) : g[m] = j BY <1>7, <1>8, <2>5, Zenon
    <3>2. o[m] = inode_table[j] BY <1>8, <3>1, Zenon
    <3>3. Has(o, b) BY <2>1, <2>3, <3>2, Zenon DEF Has
    <3> QED BY <1>5, <3>3, Zenon
  <2> QED BY <2>4, <2>5, Zenon
<1> QED BY <1>2, <1>9, Zenon

\* While no flush has begun to write a shortened table, a block that is not
\* empty and in no file got there only through a create_file that had written
\* the metadata before it found no inode, or through a reboot.
THEOREM BlocksLostByCreate ==
  ASSUME SmallFiles
  PROVE  Spec => OnlyCreateLosesBlocks
<1> DEFINE A == \/ shifted
                \/ Lost(inode_table', data_blocks') \subseteq Lost(inode_table, data_blocks)
                \/ (inode_table' = inode_table /\ \E f \in Names : Create(f))
                \/ Reboot
<1>1. GInv /\ SInv /\ [Next]_vars => [A]_vars
  <2> SUFFICES ASSUME GInv, SInv, ~ shifted, Next, ~ Reboot,
                      ~ (inode_table' = inode_table /\ \E f \in Names : Create(f)),
                      NEW b \in Blocks, data_blocks'[b] # Zero, ~ Has(inode_table', b)
               PROVE  data_blocks[b] # Zero /\ ~ Has(inode_table, b)
    <3>1. GInv => inode_table \in Seq(Inodes) BY Zenon DEF GInv
    <3>2. GInv /\ [Next]_vars => inode_table' \in Seq(Inodes) BY NextG, Zenon DEF GInv
    <3> QED BY <3>1, <3>2, LostIff, Zenon
  <2>1. ASSUME NEW f \in Names, Create(f) PROVE data_blocks[b] # Zero /\ ~ Has(inode_table, b)
    <3>1. inode_table' # inode_table BY <2>1, Zenon
    <3> QED BY <2>1, <3>1, CreateLosesNothing, Zenon
  <2>2. ASSUME NEW f \in Names, NEW from \in 0 .. MaxBlocks - 1, NEW n \in 0 .. MaxBlocks,
               NEW v \in Values, NEW aligned \in BOOLEAN, Write(f, from, n, v, aligned)
        PROVE  data_blocks[b] # Zero /\ ~ Has(inode_table, b)
    <3>1. from \in Nat /\ n \in Nat BY ConstantTypes
    <3>2. Exists(inode_table, f) BY <2>2, Zenon DEF Write
    <3> DEFINE i == IndexOf(inode_table, f)
    <3>3. i \in 1 .. Len(inode_table) /\ inode_table[i].num # 0 BY <3>2, NamedInode, Zenon
    <3>4. \E targets :
            Written(i, targets, Overlay(Contents(inode_table[i], data_blocks), from, n, v, aligned))
      BY <2>2, <3>1, SmallWrite, Zenon
    <3> HIDE DEF i
    <3> QED BY <3>3, <3>4, WriteLosesNothing, Zenon
  <2>3. ASSUME NEW f \in Names, NEW a \in Attrs, SetAttr(f, a)
        PROVE  data_blocks[b] # Zero /\ ~ Has(inode_table, b)
    <3> DEFINE i == IndexOf(inode_table, f)
               block == inode_table[i].direct[0]
    <3>1. Exists(inode_table, f) /\ UNCHANGED inode_table
          /\ data_blocks' = [data_blocks EXCEPT ![block] = Metadata(a)]
      BY <2>3, Zenon DEF SetAttr
    <3>2. i \in 1 .. Len(inode_table) /\ block \in Blocks \ {0} BY <3>1, NamedInode, Zenon
    <3>3. Has(inode_table, block) BY <3>2, ConstantTypes, Zenon DEF Has
    <3>4. b # block BY <3>1, <3>3, Zenon
    <3> HIDE DEF block
    <3>5. data_blocks'[b] = data_blocks[b] BY <3>1, <3>4, Zenon DEF GInv, Array
    <3> QED BY <3>1, <3>5, Zenon
  <2>4. ASSUME NEW f \in Names, Delete(f) PROVE data_blocks[b] # Zero /\ ~ Has(inode_table, b)
    BY <2>4, DeleteLosesNothing, Zenon
  <2>5. CASE Flush \/ BrokenFlush
    <3>1. UNCHANGED <<inode_table, data_blocks>>
      BY <2>5, Zenon DEF Flush, BrokenFlush, FlushPanics, FlushCutShort
    <3> QED BY <3>1, Zenon
  <2> QED BY <2>1, <2>2, <2>3, <2>4, <2>5, Zenon DEF Next, Operation
<1> QED BY <1>1, SmallInvariance, PTL DEF Spec, OnlyCreateLosesBlocks

-----------------------------------------------------------------------------
(***************************************************************************)
(* The refinement.  A file is what its inode points at: an operation that  *)
(* changes one inode and blocks of no other file changes one file.         *)
(***************************************************************************)
View(inode, blocks) ==
  [attr |-> blocks[inode.direct[0]][1],
   data |-> [k \in 1 .. inode.num - 1 |-> blocks[inode.direct[k]]]]

LEMMA ContentsView ==
  ASSUME SmallFiles, NEW inode \in Inodes, NEW blocks \in Array
  PROVE  Contents(inode, blocks) = [k \in 1 .. inode.num - 1 |-> blocks[inode.direct[k]]]
<1> DEFINE addr == Addresses(inode, blocks)
<1>1. inode.num \in Nat /\ inode.num <= NumDirect /\ NumDirect \in Nat BY SmallInodes, ConstantTypes, Zenon
<1>2. \A i \in 1 .. NumDirect : i <= inode.num => addr[i] = inode.direct[i - 1] BY AddressesFacts, Zenon
<1> HIDE DEF addr
<1>3. ASSUME NEW k \in 1 .. inode.num - 1 PROVE addr[k + 1] = inode.direct[k]
  <2>1. k + 1 \in 1 .. NumDirect /\ k + 1 <= inode.num /\ (k + 1) - 1 = k BY <1>1
  <2> QED BY <1>2, <2>1, Zenon
<1>4. Contents(inode, blocks) = [k \in 1 .. inode.num - 1 |-> blocks[addr[k + 1]]]
  BY Zenon DEF Contents, addr
<1> QED BY <1>3, <1>4, Zenon

\* find_inode_by_name finds the one inode of that name.
LEMMA IndexOfUnique ==
  ASSUME NEW table \in Seq(Inodes), Sound(table), NEW i \in 1 .. Len(table), table[i].name # NoName
  PROVE  IndexOf(table, table[i].name) = i
<1> DEFINE f == table[i].name
           j == IndexOf(table, f)
<1>1. DOMAIN table = 1 .. Len(table) OBVIOUS
<1>2. Exists(table, f) BY <1>1, Zenon DEF Exists
<1>3. j \in 1 .. Len(table) /\ table[j].name = f BY <1>2, IndexOfFacts, Zenon
<1> HIDE DEF j
<1>4. j = i BY <1>3, Zenon DEF Sound
<1> QED BY <1>4, Zenon DEF j

\* The files are determined by the inodes one by one.
LEMMA FilesFacts ==
  ASSUME SmallFiles, NEW table \in Seq(Inodes), Sound(table), NEW blocks \in Array
  PROVE  LET F == FilesOf(table, blocks)
         IN /\ F = [g \in DOMAIN F |-> F[g]]
            /\ DOMAIN F = {table[i].name : i \in 1 .. Len(table)} \ {NoName}
            /\ \A i \in 1 .. Len(table) :
                 table[i].name # NoName => F[table[i].name] = View(table[i], blocks)
<1> DEFINE F == FilesOf(table, blocks)
           N == {table[i].name : i \in DOMAIN table} \ {NoName}
           At(f) == [attr |-> blocks[table[IndexOf(table, f)].direct[0]][1],
                     data |-> Contents(table[IndexOf(table, f)], blocks)]
<1>1. DOMAIN table = 1 .. Len(table) OBVIOUS
<1>2. F = [f \in N |-> At(f)] BY Zenon DEF FilesOf
<1>3. N = {table[i].name : i \in 1 .. Len(table)} \ {NoName} BY <1>1, Zenon
<1> HIDE DEF F
<1>4. DOMAIN F = N /\ \A f \in N : F[f] = At(f)
  <2> HIDE DEF N, At
  <2> QED BY <1>2, Zenon
<1>5. ASSUME NEW i \in 1 .. Len(table), table[i].name # NoName
      PROVE  F[table[i].name] = View(table[i], blocks)
  <2> DEFINE f == table[i].name
  <2>1. f \in N BY <1>3, <1>5, Zenon
  <2>2. IndexOf(table, f) = i BY <1>5, IndexOfUnique, Zenon
  <2>3. table[i] \in Inodes OBVIOUS
  <2>4. F[f] = [attr |-> blocks[table[i].direct[0]][1], data |-> Contents(table[i], blocks)]
    BY <1>4, <2>1, <2>2, Zenon
  <2> QED BY <2>3, <2>4, ContentsView, Zenon DEF View
<1>6. F = [g \in DOMAIN F |-> F[g]]
  <2> HIDE DEF N, At
  <2> QED BY <1>2, Zenon
<1> QED BY <1>3, <1>4, <1>5, <1>6, Zenon DEF F

LEMMA FilesEqual ==
  ASSUME SmallFiles, NEW table \in Seq(Inodes), Sound(table), NEW blocks \in Array,
         NEW G, G = [g \in DOMAIN G |-> G[g]],
         DOMAIN G = {table[i].name : i \in 1 .. Len(table)} \ {NoName},
         \A i \in 1 .. Len(table) : table[i].name # NoName => G[table[i].name] = View(table[i], blocks)
  PROVE  FilesOf(table, blocks) = G
<1> DEFINE F == FilesOf(table, blocks)
<1>1. /\ F = [g \in DOMAIN F |-> F[g]]
      /\ DOMAIN F = {table[i].name : i \in 1 .. Len(table)} \ {NoName}
      /\ \A i \in 1 .. Len(table) :
           table[i].name # NoName => F[table[i].name] = View(table[i], blocks)
  BY FilesFacts, Zenon
<1> HIDE DEF F
<1>2. DOMAIN F = DOMAIN G BY <1>1, Zenon
<1>3. ASSUME NEW g \in DOMAIN G PROVE F[g] = G[g]
  <2>1. PICK i \in 1 .. Len(table) : table[i].name = g /\ g # NoName BY <1>3
  <2> QED BY <1>1, <2>1, Zenon
<1>4. F = G BY <1>1, <1>2, <1>3, Zenon
<1> QED BY <1>4, Zenon DEF F

\* A file whose blocks stay as they are stays as it is.
LEMMA ViewKept ==
  ASSUME NEW inode \in Inodes, inode.num # 0, inode.num <= NumDirect, NEW b1, NEW b2,
         \A k \in Index : inode.direct[k] # 0 => b2[inode.direct[k]] = b1[inode.direct[k]]
  PROVE  View(inode, b2) = View(inode, b1)
<1>1. inode.num \in Nat /\ NumDirect \in Nat BY ConstantTypes DEF Inodes
<1>2. \A k \in 0 .. inode.num - 1 : k \in Index /\ inode.direct[k] # 0
  <2> SUFFICES ASSUME NEW k \in 0 .. inode.num - 1 PROVE k \in Index /\ inode.direct[k] # 0 BY Zenon
  <2>1. k \in Index /\ k < inode.num BY <1>1 DEF Index
  <2> QED BY <2>1, Zenon DEF Inodes
<1>3. \A k \in 0 .. inode.num - 1 : b2[inode.direct[k]] = b1[inode.direct[k]] BY <1>2, Zenon
<1>4. 0 \in 0 .. inode.num - 1 /\ 1 .. inode.num - 1 \subseteq 0 .. inode.num - 1 BY <1>1
<1> QED BY <1>3, <1>4, Zenon DEF View

\* Blocks that no file has may change.
LEMMA KeepFiles ==
  ASSUME SmallFiles, NEW table \in Seq(Inodes), Sound(table), NEW b1 \in Array, NEW b2 \in Array,
         \A j \in 1 .. Len(table) : \A k \in Index :
           table[j].direct[k] # 0 => b2[table[j].direct[k]] = b1[table[j].direct[k]]
  PROVE  FilesOf(table, b2) = FilesOf(table, b1)
<1> DEFINE F == FilesOf(table, b1)
<1>1. /\ F = [g \in DOMAIN F |-> F[g]]
      /\ DOMAIN F = {table[i].name : i \in 1 .. Len(table)} \ {NoName}
      /\ \A i \in 1 .. Len(table) : table[i].name # NoName => F[table[i].name] = View(table[i], b1)
  BY FilesFacts, Zenon
<1> HIDE DEF F
<1>2. ASSUME NEW i \in 1 .. Len(table), table[i].name # NoName
      PROVE  F[table[i].name] = View(table[i], b2)
  <2>1. table[i] \in Inodes OBVIOUS
  <2>2. table[i].num # 0 /\ table[i].num <= NumDirect BY <1>2, <2>1, SmallInodes, Zenon DEF Inodes
  <2>3. View(table[i], b2) = View(table[i], b1) BY <2>1, <2>2, ViewKept, Zenon
  <2> QED BY <1>1, <1>2, <2>3, Zenon
<1>3. FilesOf(table, b2) = F BY <1>1, <1>2, FilesEqual
<1> QED BY <1>3, Zenon DEF F

\* Between the arrays b1 and b2 no block of a file but that of inode i differs.
OthersKept(table, i, b1, b2) ==
  \A j \in 1 .. Len(table) : \A k \in Index :
    j # i /\ table[j].direct[k] # 0 => b2[table[j].direct[k]] = b1[table[j].direct[k]]

\* The tables differ in inode i only, which becomes `new'.
Replaced(t2, table, i, new) ==
  /\ t2 \in Seq(Inodes) /\ Len(t2) = Len(table) /\ t2[i] = new
  /\ \A j \in 1 .. Len(table) : j # i => t2[j] = table[j]

LEMMA ReplacedExcept ==
  ASSUME NEW table \in Seq(Inodes), NEW i \in 1 .. Len(table), NEW new \in Inodes
  PROVE  Replaced([table EXCEPT ![i] = new], table, i, new)
BY OneInode DEF Replaced

Updated(F, f, file) == [g \in DOMAIN F \cup {f} |-> IF g = f THEN file ELSE F[g]]

\* From table and b1 to t2 and b2 inode i becomes `new', free or of the same
\* name before, and only blocks of that file or of none change.
Changes(table, b1, t2, b2, i, new) ==
  /\ table \in Seq(Inodes) /\ Sound(table) /\ b1 \in Array /\ b2 \in Array
  /\ i \in 1 .. Len(table) /\ new \in Inodes
  /\ Replaced(t2, table, i, new) /\ Sound(t2)
  /\ new.name # NoName /\ table[i].name \in {NoName, new.name}
  /\ OthersKept(table, i, b1, b2)

\* One inode changes, and only blocks of that file or of none.
LEMMA ChangeFile ==
  ASSUME SmallFiles, NEW table, NEW b1, NEW t2, NEW b2, NEW i, NEW new,
         Changes(table, b1, t2, b2, i, new)
  PROVE  FilesOf(t2, b2) = Updated(FilesOf(table, b1), new.name, View(new, b2))
<1> table \in Seq(Inodes) /\ Sound(table) /\ b1 \in Array /\ b2 \in Array BY Zenon DEF Changes
<1> i \in 1 .. Len(table) /\ new \in Inodes BY Zenon DEF Changes
<1> Replaced(t2, table, i, new) /\ Sound(t2) BY Zenon DEF Changes
<1> new.name # NoName /\ table[i].name \in {NoName, new.name} BY Zenon DEF Changes
<1> OthersKept(table, i, b1, b2) BY Zenon DEF Changes
<1> DEFINE F == FilesOf(table, b1)
           f == new.name
           G == [g \in DOMAIN F \cup {f} |-> IF g = f THEN View(new, b2) ELSE F[g]]
<1>1. /\ F = [g \in DOMAIN F |-> F[g]]
      /\ DOMAIN F = {table[j].name : j \in 1 .. Len(table)} \ {NoName}
      /\ \A j \in 1 .. Len(table) : table[j].name # NoName => F[table[j].name] = View(table[j], b1)
  BY FilesFacts, Zenon
<1> HIDE DEF F
<1>2. /\ t2 \in Seq(Inodes) /\ Len(t2) = Len(table) /\ t2[i] = new
      /\ \A j \in 1 .. Len(table) : j # i => t2[j] = table[j]
  BY Zenon DEF Replaced
<1>3. Sound(t2) BY Zenon
<1>4. DOMAIN G = {t2[j].name : j \in 1 .. Len(t2)} \ {NoName}
  <2>1. DOMAIN G = DOMAIN F \cup {f} BY Zenon
  <2> HIDE DEF G
  <2>2. ASSUME NEW g \in DOMAIN F PROVE g \in {t2[j].name : j \in 1 .. Len(t2)} \ {NoName}
    <3>1. PICK j \in 1 .. Len(table) : table[j].name = g /\ g # NoName BY <1>1, <2>2, Zenon
    <3>2. CASE j # i BY <1>2, <3>1, <3>2, Zenon
    <3>3. CASE j = i
      <4>1. t2[i].name = g BY <1>2, <3>1, <3>3, Zenon
      <4> QED BY <1>2, <3>1, <4>1, Zenon
    <3> QED BY <3>2, <3>3, Zenon
  <2>3. f \in {t2[j].name : j \in 1 .. Len(t2)} \ {NoName} BY <1>2, Zenon
  <2>4. ASSUME NEW j \in 1 .. Len(t2), t2[j].name # NoName PROVE t2[j].name \in DOMAIN F \cup {f}
    BY <1>1, <1>2, <2>4, Zenon
  <2> QED BY <2>1, <2>2, <2>3, <2>4
<1>5. ASSUME NEW j \in 1 .. Len(t2), t2[j].name # NoName
      PROVE  G[t2[j].name] = View(t2[j], b2)
  <2>1. CASE j = i BY <1>2, <2>1, Zenon
  <2>2. CASE j # i
    <3>1. t2[j] = table[j] /\ table[j] \in Inodes BY <1>2, <2>2
    <3>2. table[j].num # 0 /\ table[j].num <= NumDirect BY <1>5, <3>1, SmallInodes, Zenon DEF Inodes
    <3>3. View(table[j], b2) = View(table[j], b1)
      <4>1. \A k \in Index : table[j].direct[k] # 0 => b2[table[j].direct[k]] = b1[table[j].direct[k]]
        BY <1>2, <2>2, Zenon DEF OthersKept
      <4> QED BY ONLY <3>1, <3>2, <4>1, ViewKept, Zenon
    <3>4. t2[j].name # f
      <4> SUFFICES ASSUME t2[j].name = f PROVE FALSE BY Zenon
      <4>1. t2[j].name = t2[i].name /\ i \in 1 .. Len(t2) BY <1>2, Zenon
      <4> QED BY <1>3, <1>5, <2>2, <4>1, Zenon DEF Sound
    <3>5. table[j].name \in DOMAIN F BY <1>1, <1>2, <1>5, <3>1, Zenon
    <3>6. G[t2[j].name] = F[table[j].name] BY <3>1, <3>4, <3>5, Zenon
    <3> QED BY <1>1, <1>2, <1>5, <3>1, <3>3, <3>6, Zenon
  <2> QED BY <2>1, <2>2, Zenon
<1>6. G = [g \in DOMAIN G |-> G[g]] BY Zenon
<1>7. FilesOf(t2, b2) = G
  <2>1. SmallFiles /\ b2 \in Array /\ t2 \in Seq(Inodes) BY <1>2, Zenon
  <2> HIDE DEF G
  <2> QED BY ONLY <1>3, <1>4, <1>5, <1>6, <2>1, FilesEqual, Zenon
<1> QED BY <1>7, Zenon DEF Updated, F

\* Between the arrays b1 and b2 no block of a file but that named f differs.
OtherNamesKept(table, f, b1, b2) ==
  \A j \in 1 .. Len(table) : \A k \in Index :
    table[j].name # f /\ table[j].direct[k] # 0 => b2[table[j].direct[k]] = b1[table[j].direct[k]]

\* The files F without the one named f.
Without(F, f) == [g \in DOMAIN F \ {f} |-> F[g]]

\* The inodes of a table that have another name than f.
NotNamed(table, f) == Only(table, {inode \in Range(table) : inode.name # f})

\* A sound table, and arrays that differ in the blocks of the file f at most.
Drops(table, f, b1, b2) ==
  /\ table \in Seq(Inodes) /\ Sound(table) /\ b1 \in Array /\ b2 \in Array
  /\ f \in Names /\ OtherNamesKept(table, f, b1, b2)

\* The inodes of one name go, and only blocks of that file change.
LEMMA DropFile ==
  ASSUME SmallFiles, NEW table, NEW b1, NEW b2, NEW f, Drops(table, f, b1, b2)
  PROVE  FilesOf(NotNamed(table, f), b2) = Without(FilesOf(table, b1), f)
<1> table \in Seq(Inodes) /\ Sound(table) /\ b1 \in Array /\ b2 \in Array BY Zenon DEF Drops
<1> f \in Names /\ OtherNamesKept(table, f, b1, b2) BY Zenon DEF Drops
<1> DEFINE F == FilesOf(table, b1)
           kept == {inode \in Range(table) : inode.name # f}
           o == Only(table, kept)
           G == [g \in DOMAIN F \ {f} |-> F[g]]
<1>1. /\ F = [g \in DOMAIN F |-> F[g]]
      /\ DOMAIN F = {table[j].name : j \in 1 .. Len(table)} \ {NoName}
      /\ \A j \in 1 .. Len(table) : table[j].name # NoName => F[table[j].name] = View(table[j], b1)
  BY FilesFacts, Zenon
<1> HIDE DEF F
<1>2. \A j \in 1 .. Len(table) : table[j] \in kept <=> table[j].name # f BY DEF Range
<1> HIDE DEF kept
<1>3. o \in Seq(Inodes) /\ Sound(o) BY OnlyFacts, OnlySound, Zenon
<1>4. PICK h \in [1 .. Len(o) -> 1 .. Len(table)] :
        /\ \A k \in 1 .. Len(o) : o[k] = table[h[k]] /\ table[h[k]] \in kept
        /\ \A j \in 1 .. Len(table) : table[j] \in kept => \E k \in 1 .. Len(o) : h[k] = j
  BY OnlyFacts
<1> HIDE DEF o
<1>5. \A k \in 1 .. Len(o) : h[k] \in 1 .. Len(table) /\ o[k] = table[h[k]] /\ o[k].name # f
  BY <1>2, <1>4
<1>6. DOMAIN G = {o[k].name : k \in 1 .. Len(o)} \ {NoName}
  <2>1. DOMAIN G = DOMAIN F \ {f} BY Zenon
  <2> HIDE DEF G
  <2>2. ASSUME NEW g \in DOMAIN F \ {f} PROVE g \in {o[k].name : k \in 1 .. Len(o)} \ {NoName}
    <3>1. PICK j \in 1 .. Len(table) : table[j].name = g /\ g # NoName BY <1>1, <2>2, Zenon
    <3>2. PICK k \in 1 .. Len(o) : h[k] = j BY <1>2, <1>4, <2>2, <3>1, Zenon
    <3> QED BY <1>5, <3>1, <3>2, Zenon
  <2>3. ASSUME NEW k \in 1 .. Len(o), o[k].name # NoName PROVE o[k].name \in DOMAIN F \ {f}
    BY <1>1, <1>5, <2>3
  <2> QED BY <2>1, <2>2, <2>3, Zenon
<1>7. ASSUME NEW k \in 1 .. Len(o), o[k].name # NoName PROVE G[o[k].name] = View(o[k], b2)
  <2> DEFINE j == h[k]
  <2>1. j \in 1 .. Len(table) /\ o[k] = table[j] /\ o[k].name # f BY <1>5, Zenon
  <2> HIDE DEF j
  <2>2. table[j] \in Inodes BY <2>1
  <2>3. table[j].num # 0 /\ table[j].num <= NumDirect BY <1>7, <2>1, <2>2, SmallInodes, Zenon DEF Inodes
  <2>4. View(table[j], b2) = View(table[j], b1) BY <2>1, <2>2, <2>3, ViewKept, Zenon DEF OtherNamesKept
  <2>5. table[j].name \in DOMAIN F BY <1>1, <1>7, <2>1, Zenon
  <2>6. G[table[j].name] = F[table[j].name] BY <2>1, <2>5, Zenon
  <2> QED BY <1>1, <1>7, <2>1, <2>4, <2>6, Zenon
<1>8. G = [g \in DOMAIN G |-> G[g]] BY Zenon
<1>9. FilesOf(o, b2) = G
  <2> HIDE DEF G
  <2> QED BY <1>3, <1>6, <1>7, <1>8, FilesEqual, Zenon
<1> QED BY <1>9, Zenon DEF o, kept, F, NotNamed, Without

\* With whole flushes only, no flush ever writes a shortened table.
RInv == GInv /\ SInv /\ ~ shifted

LEMMA RTypes ==
  ASSUME RInv
  PROVE  /\ inode_table \in Seq(Inodes) /\ data_blocks \in Array /\ Sound(inode_table)
         /\ disk.inodes \in Seq(Inodes) /\ disk.blocks \in Array /\ Sound(disk.inodes)
BY Zenon DEF RInv, GInv, SInv

LEMMA RTypesNext ==
  ASSUME RInv'
  PROVE  inode_table' \in Seq(Inodes) /\ data_blocks' \in Array /\ Sound(inode_table')
BY Zenon DEF RInv, GInv, SInv

\* create_file adds an empty file, or takes a block that no file has.
LEMMA CreateStep ==
  ASSUME SmallFiles, RInv, RInv', NEW f \in Names, Create(f)
  PROVE  \/ Store!Create(f)
         \/ UNCHANGED <<FilesOf(inode_table, data_blocks), FilesOf(disk.inodes, disk.blocks)>>
<1> DEFINE F == FilesOf(inode_table, data_blocks)
<1>1. PICK block \in EmptyBlocks(inode_table, data_blocks, {}) :
        /\ data_blocks' = [data_blocks EXCEPT ![block] = Metadata(DefaultAttr)]
        /\ \/ \E i \in 1 .. Len(inode_table) :
                /\ inode_table[i].num = 0
                /\ inode_table' = [inode_table EXCEPT ![i] = NewInode(f, block)]
           \/ UNCHANGED inode_table
  BY CreateEffect, Zenon DEF RInv
<1>2. UNCHANGED disk /\ ~ Exists(inode_table, f) BY CreateEffect, Zenon DEF RInv
<1>3. /\ inode_table \in Seq(Inodes) /\ data_blocks \in Array /\ Sound(inode_table)
      /\ inode_table' \in Seq(Inodes) /\ data_blocks' \in Array /\ Sound(inode_table')
  BY RTypes, RTypesNext, Zenon
<1>4. DOMAIN inode_table = 1 .. Len(inode_table) BY <1>3
<1>5. block \in Blocks \ {0} BY EmptyBlocksFacts, Zenon
<1>6. \A j \in 1 .. Len(inode_table) : \A k \in Index : inode_table[j].direct[k] # block
  BY <1>4, Zenon DEF EmptyBlocks, Index
<1>7. ASSUME NEW b \in Blocks, b # block PROVE data_blocks'[b] = data_blocks[b]
  BY <1>1, <1>3, <1>7, Zenon DEF Array
<1>8. \A j \in 1 .. Len(inode_table) : \A k \in Index :
        data_blocks'[inode_table[j].direct[k]] = data_blocks[inode_table[j].direct[k]]
  <2> SUFFICES ASSUME NEW j \in 1 .. Len(inode_table), NEW k \in Index
               PROVE  data_blocks'[inode_table[j].direct[k]] = data_blocks[inode_table[j].direct[k]]
    BY Zenon
  <2>1. inode_table[j] \in Inodes BY <1>3
  <2>2. inode_table[j].direct[k] \in Blocks BY <2>1, Zenon DEF Inodes
  <2> QED BY <1>6, <1>7, <2>2, Zenon
<1>9. CASE UNCHANGED inode_table
  <2>1. FilesOf(inode_table, data_blocks') = F BY <1>3, <1>8, KeepFiles
  <2> QED BY <1>2, <1>9, <2>1, Zenon
<1>10. ASSUME NEW i \in 1 .. Len(inode_table), inode_table[i].num = 0,
              inode_table' = [inode_table EXCEPT ![i] = NewInode(f, block)]
       PROVE  Store!Create(f)
  <2> DEFINE new == NewInode(f, block)
  <2>1. new \in Inodes /\ new.direct[0] = block BY <1>5, NewInodeFacts, Zenon
  <2>2. new.name = f /\ new.num = 1 /\ f # NoName BY PhysFsAssumption, Zenon DEF NewInode
  <2>3. inode_table[i].name = NoName
    <3>1. inode_table[i] \in Inodes BY <1>3
    <3> QED BY <1>10, <3>1, Zenon DEF Inodes
  <2>4. inode_table' = [inode_table EXCEPT ![i] = new] BY <1>10, Zenon
  <2> HIDE DEF new
  <2>5. OthersKept(inode_table, i, data_blocks, data_blocks') BY <1>8, Zenon DEF OthersKept
  <2>6. FilesOf(inode_table', data_blocks') = Updated(F, new.name, View(new, data_blocks'))
    <3>1. new.name # NoName /\ inode_table[i].name \in {NoName, new.name} /\ Sound(inode_table')
      BY <1>3, <2>2, <2>3, Zenon
    <3>2. Replaced(inode_table', inode_table, i, new) BY <1>3, <2>1, <2>4, ReplacedExcept, Zenon
    <3>3. Changes(inode_table, data_blocks, inode_table', data_blocks', i, new)
      BY <1>3, <2>1, <2>5, <3>1, <3>2, Zenon DEF Changes
    <3> QED BY ONLY SmallFiles, <3>3, ChangeFile DEF F
  <2>7. View(new, data_blocks') = [attr |-> DefaultAttr, data |-> <<>>]
    <3>1. data_blocks'[block] = Metadata(DefaultAttr) BY <1>1, <1>3, <1>5, Zenon DEF Array
    <3>2. Metadata(DefaultAttr)[1] = DefaultAttr BY ConstantTypes DEF Metadata
    <3>3. [k \in 1 .. new.num - 1 |-> data_blocks'[new.direct[k]]] = <<>>
      <4>1. 1 .. new.num - 1 = {} BY <2>2
      <4> QED BY <4>1
    <3> QED BY <2>1, <3>1, <3>2, <3>3, Zenon DEF View
  <2>8. f \notin DOMAIN F
    <3>1. DOMAIN F = {inode_table[j].name : j \in 1 .. Len(inode_table)} \ {NoName}
      BY <1>3, FilesFacts, Zenon
    <3> HIDE DEF F
    <3> QED BY <1>2, <1>4, <3>1, Zenon DEF Exists
  <2>9. FilesOf(inode_table, data_blocks)' = Updated(F, f, [attr |-> DefaultAttr, data |-> <<>>])
    BY <2>2, <2>6, <2>7, Zenon
  <2> QED BY <1>2, <2>8, <2>9, Zenon DEF Store!Create, Store!With, Updated
<1> QED BY <1>1, <1>9, <1>10, Zenon

\* chmod and chown change the attributes of one file.
LEMMA SetAttrStep ==
  ASSUME SmallFiles, RInv, RInv', NEW f \in Names, NEW a \in Attrs, SetAttr(f, a)
  PROVE  Store!SetAttr(f, a)
<1> DEFINE F == FilesOf(inode_table, data_blocks)
           i == IndexOf(inode_table, f)
           inode == inode_table[i]
           block == inode.direct[0]
<1>1. /\ Exists(inode_table, f) /\ UNCHANGED <<inode_table, disk>>
      /\ data_blocks' = [data_blocks EXCEPT ![block] = Metadata(a)]
  BY Zenon DEF SetAttr
<1>2. /\ i \in 1 .. Len(inode_table) /\ inode \in Inodes /\ inode.name = f
      /\ inode.num # 0 /\ block \in Blocks \ {0}
  BY <1>1, NamedInode, Zenon DEF RInv
<1>3. /\ inode_table \in Seq(Inodes) /\ data_blocks \in Array /\ Sound(inode_table)
      /\ data_blocks' \in Array
  BY RTypes, RTypesNext, Zenon
<1>4. f # NoName BY PhysFsAssumption, Zenon
<1> HIDE DEF i
<1>5. ASSUME NEW j \in 1 .. Len(inode_table), NEW k \in Index, j # i \/ k # 0,
             inode_table[j].direct[k] # 0
      PROVE  data_blocks'[inode_table[j].direct[k]] = data_blocks[inode_table[j].direct[k]]
  <2> DEFINE b == inode_table[j].direct[k]
  <2>1. inode_table[j] \in Inodes BY <1>3
  <2>2. b \in Blocks BY <2>1, Zenon DEF Inodes
  <2>3. b # block
    <3> SUFFICES ASSUME inode_table[j].direct[k] = inode_table[i].direct[0] PROVE FALSE BY Zenon
    <3>1. 0 \in Index /\ i \in 1 .. Len(inode_table) BY <1>2, ConstantTypes, Zenon DEF Index
    <3>2. i = j /\ k = 0 BY <1>3, <1>5, <3>1 DEF Sound
    <3> QED BY <1>5, <3>2, Zenon
  <2> HIDE DEF b, block
  <2>4. data_blocks'[b] = data_blocks[b] BY <1>1, <1>3, <2>2, <2>3, Zenon DEF Array
  <2> QED BY <2>4, Zenon DEF b
<1>6. Replaced(inode_table, inode_table, i, inode) BY <1>3, Zenon DEF Replaced
<1>7. inode_table[i] = inode BY Zenon
<1> HIDE DEF inode
<1>8. FilesOf(inode_table, data_blocks') = Updated(F, inode.name, View(inode, data_blocks'))
  <2>1. OthersKept(inode_table, i, data_blocks, data_blocks') BY <1>5, Zenon DEF OthersKept
  <2>2. inode.name # NoName /\ inode_table[i].name \in {NoName, inode.name} BY <1>2, <1>4, <1>7, Zenon
  <2>3. Changes(inode_table, data_blocks, inode_table, data_blocks', i, inode)
    BY <1>2, <1>3, <1>6, <2>1, <2>2, Zenon DEF Changes
  <2> QED BY ONLY SmallFiles, <2>3, ChangeFile DEF F
<1>9. f \in DOMAIN F /\ F = [g \in DOMAIN F |-> F[g]] /\ F[f] = View(inode, data_blocks)
  <2>1. /\ F = [g \in DOMAIN F |-> F[g]]
        /\ DOMAIN F = {inode_table[j].name : j \in 1 .. Len(inode_table)} \ {NoName}
        /\ \A j \in 1 .. Len(inode_table) :
             inode_table[j].name # NoName => F[inode_table[j].name] = View(inode_table[j], data_blocks)
    BY <1>3, FilesFacts, Zenon
  <2> HIDE DEF F
  <2> QED BY <1>2, <1>4, <1>7, <2>1, Zenon
<1>10. View(inode, data_blocks') = [F[f] EXCEPT !.attr = a]
  <2>1. data_blocks'[block] = Metadata(a) BY <1>1, <1>2, <1>3, Zenon DEF Array
  <2>2. Metadata(a)[1] = a BY ConstantTypes DEF Metadata
  <2>3. inode.num \in Nat /\ inode.num <= NumDirect /\ NumDirect \in Nat
    BY <1>2, SmallInodes, ConstantTypes, Zenon
  <2>4. ASSUME NEW k \in 1 .. inode.num - 1
        PROVE  data_blocks'[inode.direct[k]] = data_blocks[inode.direct[k]]
    <3>1. k \in Index /\ k < inode.num /\ k # 0 BY <2>3 DEF Index
    <3>2. inode.direct[k] # 0 BY <1>2, <3>1, Zenon DEF Inodes
    <3> QED BY <1>2, <1>5, <1>7, <3>1, <3>2, Zenon
  <2> DEFINE D1 == [k \in 1 .. inode.num - 1 |-> data_blocks[inode.direct[k]]]
             D2 == [k \in 1 .. inode.num - 1 |-> data_blocks'[inode.direct[k]]]
  <2>5. D1 = D2 BY <2>4, Zenon
  <2>6. View(inode, data_blocks') = [attr |-> a, data |-> D2] BY <2>1, <2>2, Zenon DEF View
  <2>7. F[f] = [attr |-> data_blocks[block][1], data |-> D1] BY <1>9, Zenon DEF View
  <2> HIDE DEF D1, D2, F, block
  <2> QED BY <2>5, <2>6, <2>7
<1> HIDE DEF F
<1>11. FilesOf(inode_table, data_blocks)' = [F EXCEPT ![f].attr = a]
  <2>1. DOMAIN F \cup {f} = DOMAIN F BY <1>9, Zenon
  <2>2. FilesOf(inode_table, data_blocks') =
          [g \in DOMAIN F |-> IF g = f THEN [F[f] EXCEPT !.attr = a] ELSE F[g]]
    BY <1>2, <1>8, <1>10, <2>1, Zenon DEF Updated
  <2> QED BY <1>1, <1>9, <2>2, Zenon
<1> QED BY <1>1, <1>9, <1>11, Zenon DEF Store!SetAttr, F

\* A block that is the target of one piece of data gets it.
LEMMA StoredAt ==
  ASSUME NEW targets \in Seq(Blocks), NEW data, NEW k \in 1 .. Len(targets),
         \A l \in 1 .. Len(targets) : l # k => targets[l] # targets[k]
  PROVE  Stored(targets, data)[targets[k]] = data[k]
<1> DEFINE b == targets[k]
           Last(i) == targets[i] = b /\ \A j \in i + 1 .. Len(targets) : targets[j] # b
           i == CHOOSE i \in DOMAIN targets : Last(i)
<1>1. DOMAIN targets = 1 .. Len(targets) /\ Len(targets) \in Nat /\ b \in Blocks OBVIOUS
<1>2. \A j \in k + 1 .. Len(targets) : j \in 1 .. Len(targets) /\ j # k BY <1>1
<1>3. k \in DOMAIN targets /\ Last(k) BY <1>1, <1>2, Zenon
<1>4. i \in DOMAIN targets /\ Last(i)
  <2> HIDE DEF Last
  <2> QED BY <1>3, Zenon
<1>5. i = k BY <1>1, <1>4, Zenon
<1>6. Stored(targets, data)[b] = data[i] BY <1>1, Zenon DEF Stored
<1> HIDE DEF i
<1> QED BY <1>5, <1>6, Zenon

\* write_file replaces the contents of one file by the new ones.
LEMMA WriteFiles ==
  ASSUME SmallFiles, RInv, RInv', NEW i \in 1 .. Len(inode_table), inode_table[i].num # 0,
         NEW targets, NEW data, Written(i, targets, data)
  PROVE  LET F == FilesOf(inode_table, data_blocks)
             f == inode_table[i].name
         IN FilesOf(inode_table', data_blocks') = Updated(F, f, [attr |-> F[f].attr, data |-> data])
<1> DEFINE F == FilesOf(inode_table, data_blocks)
           inode == inode_table[i]
           f == inode.name
           new == Linked(inode, targets, 0)
<1>1. /\ targets \in Seq(Blocks \ {0}) /\ Len(targets) \in inode.num - 1 .. MaxBlocks
      /\ data \in Seq(Content) /\ Len(targets) = Len(data)
      /\ inode_table' = [inode_table EXCEPT ![i] = new]
      /\ data_blocks' = Stored(targets, data)
      /\ \A k \in 1 .. Len(targets) : k < inode.num => targets[k] = inode.direct[k]
  BY Zenon DEF Written
<1>2. /\ inode_table \in Seq(Inodes) /\ data_blocks \in Array /\ Sound(inode_table)
      /\ data_blocks' \in Array /\ Sound(inode_table')
  BY RTypes, RTypesNext, Zenon
<1>3. inode \in Inodes BY <1>2
<1>4. inode.num \in Nat /\ inode.num # 0 /\ inode.single = 0 /\ NumDirect \in Nat /\ 0 \in Index
      /\ MaxBlocks \in Nat /\ MaxBlocks < NumDirect /\ f # NoName
  BY <1>3, SmallInodes, ConstantTypes, Zenon DEF SmallFiles, Inodes
<1>5. Len(targets) \in Nat /\ inode.num - 1 <= Len(targets) /\ Len(targets) <= MaxBlocks
  BY <1>1, <1>4
<1>6. inode_table[i] = inode BY Zenon
<1> HIDE DEF inode
<1>7. /\ new \in Inodes /\ new.name = f /\ new.num = Len(targets) + 1
      /\ \A k \in Index : new.direct[k] = IF k \in 1 .. Len(targets) THEN targets[k]
                                          ELSE inode.direct[k]
  <2>1. /\ inode \in Inodes /\ inode.num # 0 /\ targets \in Seq(Blocks \ {0})
        /\ Len(targets) <= MaxBlocks /\ inode.num - 1 <= Len(targets)
        /\ 0 \in Blocks /\ (Len(targets) < NumDirect => 0 = inode.single)
    BY <1>1, <1>3, <1>4, <1>5, ConstantTypes, Zenon
  <2> QED BY ONLY <2>1, LinkedFacts
<1> HIDE DEF new
<1>8. Replaced(inode_table', inode_table, i, new) BY <1>1, <1>2, <1>7, ReplacedExcept, Zenon
<1>9. /\ Len(inode_table') = Len(inode_table) /\ inode_table'[i] = new
      /\ \A j \in 1 .. Len(inode_table) : j # i => inode_table'[j] = inode_table[j]
  BY <1>8, Zenon DEF Replaced
<1>10. \A k \in 1 .. Len(targets) : k \in Index /\ k # 0 /\ new.direct[k] = targets[k] /\ targets[k] # 0
  <2>1. \A k \in 1 .. Len(targets) : k \in Index /\ k # 0 BY <1>4, <1>5 DEF Index
  <2>2. \A k \in 1 .. Len(targets) : targets[k] # 0 BY <1>1
  <2> QED BY <1>7, <2>1, <2>2, Zenon
\* No other pointer leads to a target.
<1>11. ASSUME NEW j \in 1 .. Len(inode_table), NEW m \in Index, NEW k \in 1 .. Len(targets),
              targets[k] = inode_table'[j].direct[m]
       PROVE  j = i /\ m = k
  <2>1. /\ inode_table'[i].direct[k] # 0 /\ inode_table'[i].direct[k] = inode_table'[j].direct[m]
        /\ k \in Index
    BY <1>9, <1>10, <1>11, Zenon
  <2>2. /\ i \in 1 .. Len(inode_table') /\ j \in 1 .. Len(inode_table')
        /\ Sound(inode_table') /\ m \in Index
    BY <1>2, <1>9, Zenon
  <2>3. i = j /\ k = m BY ONLY <2>1, <2>2, SMTT(30) DEF Sound
  <2> QED BY <2>3, Zenon
<1>12. OthersKept(inode_table, i, data_blocks, data_blocks')
  <2> SUFFICES ASSUME NEW j \in 1 .. Len(inode_table), NEW m \in Index, j # i
               PROVE  data_blocks'[inode_table[j].direct[m]] = data_blocks[inode_table[j].direct[m]]
    BY Zenon DEF OthersKept
  <2> DEFINE b == inode_table[j].direct[m]
  <2>1. inode_table[j] \in Inodes BY <1>2
  <2>2. b \in Blocks BY <2>1, Zenon DEF Inodes
  <2>3. \A k \in 1 .. Len(targets) : targets[k] # b BY <1>9, <1>11
  <2> HIDE DEF b
  <2>4. data_blocks'[b] = data_blocks[b] BY <1>1, <2>2, <2>3, StoredElsewhere, Zenon
  <2> QED BY <2>4, Zenon DEF b
<1>13. FilesOf(inode_table', data_blocks') = Updated(F, new.name, View(new, data_blocks'))
  <2>1. new.name # NoName /\ inode_table[i].name \in {NoName, new.name} BY <1>4, <1>6, <1>7, Zenon
  <2>2. Changes(inode_table, data_blocks, inode_table', data_blocks', i, new)
    BY <1>2, <1>7, <1>8, <1>12, <2>1, Zenon DEF Changes
  <2> QED BY ONLY SmallFiles, <2>2, ChangeFile DEF F
<1>14. data_blocks'[new.direct[0]] = data_blocks[inode.direct[0]]
  <2>1. new.direct[0] = inode.direct[0]
    <3>1. 0 \notin 1 .. Len(targets) BY <1>5
    <3> QED BY <1>4, <1>7, <3>1, Zenon
  <2>2. inode.direct[0] \in Blocks BY <1>3, <1>4, Zenon DEF Inodes
  <2>3. \A k \in 1 .. Len(targets) : targets[k] # inode.direct[0]
    BY <1>4, <1>9, <1>10, <1>11, <2>1
  <2> QED BY <1>1, <2>1, <2>2, <2>3, StoredElsewhere
<1>15. [k \in 1 .. new.num - 1 |-> data_blocks'[new.direct[k]]] = data
  <2>1. new.num - 1 = Len(targets) BY <1>5, <1>7
  <2>2. targets \in Seq(Blocks) BY <1>1
  <2>3. ASSUME NEW k \in 1 .. Len(targets) PROVE data_blocks'[new.direct[k]] = data[k]
    <3>1. ASSUME NEW l \in 1 .. Len(targets), l # k PROVE targets[l] # targets[k]
      <4>1. l \in Index /\ inode_table'[i].direct[l] = targets[l] BY <1>9, <1>10, Zenon
      <4>2. i \in 1 .. Len(inode_table) BY <1>2, Zenon
      <4> QED BY <1>11, <3>1, <4>1, <4>2, Zenon
    <3>2. Stored(targets, data)[targets[k]] = data[k] BY <2>2, <3>1, StoredAt
    <3> QED BY <1>1, <1>10, <3>2, Zenon
  <2>4. data = [k \in 1 .. Len(targets) |-> data[k]] BY <1>1
  <2> QED BY <2>1, <2>3, <2>4, Zenon
<1>16. F[f] = View(inode, data_blocks)
  <2>1. \A j \in 1 .. Len(inode_table) :
          inode_table[j].name # NoName => F[inode_table[j].name] = View(inode_table[j], data_blocks)
    BY <1>2, FilesFacts, Zenon
  <2> HIDE DEF F
  <2> QED BY <1>4, <1>6, <2>1, Zenon
<1>17. View(new, data_blocks') = [attr |-> F[f].attr, data |-> data]
  <2>1. F[f].attr = data_blocks[inode.direct[0]][1] BY <1>16 DEF View
  <2> QED BY <1>14, <1>15, <2>1, Zenon DEF View
<1> QED BY <1>7, <1>13, <1>17, Zenon DEF inode

LEMMA WriteStep ==
  ASSUME SmallFiles, RInv, RInv', NEW f \in Names, NEW from \in 0 .. MaxBlocks - 1,
         NEW n \in 0 .. MaxBlocks, NEW v \in Values, NEW aligned \in BOOLEAN,
         Write(f, from, n, v, aligned)
  PROVE  \E c \in {Data(w) : w \in Values}, lo, hi \in 0 .. MaxBlocks, len \in 1 .. MaxBlocks :
           Store!Write(f, c, lo, hi, len)
<1> DEFINE F == FilesOf(inode_table, data_blocks)
           i == IndexOf(inode_table, f)
           inode == inode_table[i]
           old == Contents(inode, data_blocks)
           data == Overlay(old, from, n, v, aligned)
           len == PaddedLen(inode.num - 1, from, n, aligned)
<1>1. from \in Nat /\ n \in Nat /\ MaxBlocks \in Nat /\ from <= MaxBlocks - 1 BY ConstantTypes
<1>2. Exists(inode_table, f) /\ UNCHANGED disk /\ len <= MaxBlocks BY Zenon DEF Write
<1>3. i \in 1 .. Len(inode_table) /\ inode \in Inodes /\ inode.name = f /\ inode.num # 0
  BY <1>2, NamedInode, Zenon DEF RInv
<1>4. \E targets : Written(i, targets, data) BY <1>1, SmallWrite, Zenon DEF RInv
<1>5. inode.num \in Nat /\ f # NoName BY <1>3, SmallInodes, PhysFsAssumption, Zenon
<1>6. len \in Nat /\ len >= inode.num - 1 /\ len >= from + n /\ len >= 1
  <2>1. inode.num - 1 \in Nat BY <1>3, <1>5
  <2> HIDE DEF inode
  <2> QED BY <1>1, <2>1, PaddedLenFacts, Zenon
<1>7. inode_table \in Seq(Inodes) /\ data_blocks \in Array /\ Sound(inode_table) BY RTypes, Zenon
<1> HIDE DEF i
<1>8. FilesOf(inode_table', data_blocks') = Updated(F, f, [attr |-> F[f].attr, data |-> data])
  <2> HIDE DEF data
  <2> QED BY <1>3, <1>4, WriteFiles, Zenon
<1>9. /\ F = [g \in DOMAIN F |-> F[g]] /\ f \in DOMAIN F
      /\ F[f] = View(inode_table[i], data_blocks)
  <2>1. /\ F = [g \in DOMAIN F |-> F[g]]
        /\ DOMAIN F = {inode_table[j].name : j \in 1 .. Len(inode_table)} \ {NoName}
        /\ \A j \in 1 .. Len(inode_table) :
             inode_table[j].name # NoName => F[inode_table[j].name] = View(inode_table[j], data_blocks)
    BY <1>7, FilesFacts, Zenon
  <2> HIDE DEF F
  <2> QED BY <1>3, <1>5, <2>1, Zenon
<1>10. /\ old = [k \in 1 .. inode.num - 1 |-> data_blocks[inode.direct[k]]]
       /\ Len(old) = inode.num - 1
  <2>1. old = [k \in 1 .. inode.num - 1 |-> data_blocks[inode.direct[k]]]
    BY <1>3, <1>7, ContentsView, Zenon
  <2>2. inode.num - 1 \in Nat BY <1>3, <1>5
  <2> HIDE DEF old
  <2> QED BY <2>1, <2>2
<1>11. F[f] = [attr |-> data_blocks[inode.direct[0]][1], data |-> old]
  BY <1>9, <1>10, Zenon DEF View
<1> HIDE DEF F, inode, old
<1> DEFINE new == [k \in 1 .. len |-> IF from + 1 <= k /\ k <= from + n THEN Data(v)
                                      ELSE IF k <= Len(F[f].data) THEN F[f].data[k] ELSE Zero]
<1>12. F[f].data = old BY ONLY <1>11
<1>13. data = new
  <2>1. data = [k \in 1 .. len |-> IF from < k /\ k <= from + n THEN Data(v)
                                   ELSE IF k <= Len(old) THEN old[k] ELSE Zero]
    BY <1>10, Zenon DEF Overlay
  <2>2. \A k \in 1 .. len : from < k <=> from + 1 <= k BY <1>1, <1>6
  <2> HIDE DEF len, data
  <2> QED BY <1>12, <2>1, <2>2, Zenon
<1>14. [F[f] EXCEPT !.data = new] = [attr |-> F[f].attr, data |-> data]
  <2> HIDE DEF new, data
  <2> QED BY <1>11, <1>13
<1>15. FilesOf(inode_table', data_blocks') = [F EXCEPT ![f].data = new]
  <2> HIDE DEF new, data
  <2>1. DOMAIN F \cup {f} = DOMAIN F BY <1>9, Zenon
  <2>2. FilesOf(inode_table', data_blocks') =
          [g \in DOMAIN F |-> IF g = f THEN [F[f] EXCEPT !.data = new] ELSE F[g]]
    BY <1>8, <1>14, <2>1, Zenon DEF Updated
  <2> QED BY <1>9, <2>2, Zenon
<1>16. Store!Write(f, Data(v), from + 1, from + n, len)
  <2>1. Len(F[f].data) <= len BY <1>6, <1>10, <1>12, Zenon
  <2>2. from + n <= len BY <1>1, <1>6, Zenon
  <2> HIDE DEF len
  <2> QED BY <1>2, <1>9, <1>15, <2>1, <2>2, Zenon DEF Store!Write, F
<1>17. from + 1 \in 0 .. MaxBlocks /\ from + n \in 0 .. MaxBlocks /\ len \in 1 .. MaxBlocks
  <2> HIDE DEF len
  <2> QED BY <1>1, <1>2, <1>6
<1>18. Data(v) \in {Data(w) : w \in Values} BY Zenon
<1> HIDE DEF len
<1> QED BY <1>16, <1>17, <1>18, Zenon

\* delete takes one file away and leaves the others as they are.
LEMMA DeleteStep ==
  ASSUME SmallFiles, RInv, RInv', NEW f \in Names, Delete(f)
  PROVE  Store!Delete(f)
<1> DEFINE F == FilesOf(inode_table, data_blocks)
           i == IndexOf(inode_table, f)
           inode == inode_table[i]
           kept == {j \in Range(inode_table) : j.name # f}
<1>1. /\ Exists(inode_table, f) /\ UNCHANGED disk
      /\ data_blocks' = [b \in Blocks |-> IF b \in Zeroed(inode) THEN Zero ELSE data_blocks[b]]
  BY Zenon DEF Delete
<1>2. i \in 1 .. Len(inode_table) /\ inode \in Inodes /\ inode.name = f
  BY <1>1, NamedInode, Zenon DEF RInv
<1>3. /\ inode_table \in Seq(Inodes) /\ data_blocks \in Array /\ Sound(inode_table)
      /\ data_blocks' \in Array
  BY RTypes, RTypesNext, Zenon
<1>4. inode_table' = Only(inode_table, kept) BY DeleteS, Zenon DEF RInv
<1>5. f # NoName BY PhysFsAssumption, Zenon
<1>6. ASSUME NEW j \in 1 .. Len(inode_table), NEW k \in Index,
             inode_table[j].name # f, inode_table[j].direct[k] # 0
      PROVE  data_blocks'[inode_table[j].direct[k]] = data_blocks[inode_table[j].direct[k]]
  <2> DEFINE b == inode_table[j].direct[k]
  <2>1. inode_table[j] \in Inodes BY <1>3
  <2>2. b \in Blocks BY <2>1, Zenon DEF Inodes
  <2>3. b \notin Zeroed(inode)
    <3> SUFFICES ASSUME b \in Zeroed(inode) PROVE FALSE BY Zenon
    <3>1. PICK m \in Index : b = inode_table[i].direct[m] BY Zenon DEF Zeroed, Index
    <3>2. j = i BY <1>2, <1>3, <1>6, <3>1 DEF Sound
    <3> QED BY <1>2, <1>6, <3>2, Zenon
  <2> HIDE DEF b, inode
  <2>4. data_blocks'[b] = data_blocks[b] BY <1>1, <2>2, <2>3, Zenon
  <2> QED BY <2>4, Zenon DEF b
<1>7. FilesOf(NotNamed(inode_table, f), data_blocks') = Without(F, f)
  <2>1. OtherNamesKept(inode_table, f, data_blocks, data_blocks') BY <1>6, Zenon DEF OtherNamesKept
  <2>2. Drops(inode_table, f, data_blocks, data_blocks') BY <1>3, <2>1, Zenon DEF Drops
  <2> QED BY ONLY SmallFiles, <2>2, DropFile DEF F
<1>8. f \in DOMAIN F
  <2>1. DOMAIN F = {inode_table[j].name : j \in 1 .. Len(inode_table)} \ {NoName}
    BY <1>3, FilesFacts, Zenon
  <2> HIDE DEF F
  <2> QED BY <1>2, <1>5, <2>1, Zenon
<1> QED BY <1>1, <1>4, <1>7, <1>8, Zenon DEF Store!Delete, NotNamed, Without

\* A whole flush makes the disk a copy of the memory.
LEMMA FlushStep ==
  ASSUME RInv, Flush
  PROVE  Store!Flush
<1>1. /\ Len(inode_table) = NumInodes /\ disk' = AfterSectors(AllSectors)
      /\ UNCHANGED <<inode_table, data_blocks>>
  BY Zenon DEF Flush
<1>2. NumInodes \in Nat /\ NumBlocks \in Nat /\ inode_table \in Seq(Inodes) /\ data_blocks \in Array
  BY RTypes, ConstantTypes, Zenon
<1>3. disk'.inodes = inode_table
  <2>1. disk'.inodes = [i \in 1 .. NumInodes |-> IF i <= AllSectors THEN inode_table[i] ELSE disk.inodes[i]]
    BY <1>1, Zenon DEF AfterSectors
  <2>2. \A i \in 1 .. NumInodes : i <= AllSectors BY <1>2 DEF AllSectors
  <2>3. inode_table = [i \in 1 .. NumInodes |-> inode_table[i]] BY <1>1, <1>2
  <2> QED BY <2>1, <2>2, <2>3, Zenon
<1>4. disk'.blocks = data_blocks
  <2>1. disk'.blocks = [b \in Blocks |-> IF NumInodes + b < AllSectors THEN data_blocks[b]
                                                                      ELSE disk.blocks[b]]
    BY <1>1, Zenon DEF AfterSectors
  <2>2. \A b \in Blocks : NumInodes + b < AllSectors BY <1>2 DEF AllSectors, Blocks
  <2>3. data_blocks = [b \in Blocks |-> data_blocks[b]] BY <1>2, Zenon DEF Array
  <2> QED BY <2>1, <2>2, <2>3, Zenon
<1> QED BY <1>1, <1>3, <1>4, Zenon DEF Store!Flush

LEMMA RebootStep ==
  ASSUME Reboot
  PROVE  Store!Reboot
BY Zenon DEF Reboot, Store!Reboot

LEMMA InitStep == Init => Store!Init
<1> SUFFICES ASSUME Init PROVE Store!Init BY Zenon
<1>1. /\ inode_table = [i \in 1 .. NumInodes |-> EmptyInode]
      /\ disk.inodes = inode_table /\ disk.blocks = data_blocks
  BY Zenon DEF Init
<1>2. EmptyInode.name = NoName BY Zenon DEF EmptyInode
<1>3. {inode_table[i].name : i \in DOMAIN inode_table} \ {NoName} = {} BY <1>1, <1>2, Zenon
<1>4. FilesOf(inode_table, data_blocks) = <<>> BY <1>3, SMTT(30) DEF FilesOf
<1> QED BY <1>1, <1>4, Zenon DEF Store!Init

LEMMA StepIsStoreStep ==
  ASSUME SmallFiles
  PROVE  RInv /\ RInv' /\ [Operation \/ Reboot]_vars
           => [Store!Next]_<<FilesOf(inode_table, data_blocks), FilesOf(disk.inodes, disk.blocks)>>
<1> SUFFICES ASSUME RInv, RInv', [Operation \/ Reboot]_vars
             PROVE  \/ Store!Next
                    \/ UNCHANGED <<FilesOf(inode_table, data_blocks), FilesOf(disk.inodes, disk.blocks)>>
  BY Zenon
<1>1. CASE UNCHANGED vars BY <1>1, Zenon DEF vars
<1>2. ASSUME NEW f \in Names, Create(f)
      PROVE  \/ Store!Next
             \/ UNCHANGED <<FilesOf(inode_table, data_blocks), FilesOf(disk.inodes, disk.blocks)>>
  BY <1>2, CreateStep, Zenon DEF Store!Next
<1>3. ASSUME NEW f \in Names, NEW from \in 0 .. MaxBlocks - 1, NEW n \in 0 .. MaxBlocks,
             NEW v \in Values, NEW aligned \in BOOLEAN, Write(f, from, n, v, aligned)
      PROVE  Store!Next
  BY <1>3, WriteStep, Zenon DEF Store!Next
<1>4. ASSUME NEW f \in Names, NEW a \in Attrs, SetAttr(f, a) PROVE Store!Next
  BY <1>4, SetAttrStep, Zenon DEF Store!Next
<1>5. ASSUME NEW f \in Names, Delete(f) PROVE Store!Next
  BY <1>5, DeleteStep, Zenon DEF Store!Next
<1>6. CASE Flush BY <1>6, FlushStep, Zenon DEF Store!Next
<1>7. CASE Reboot BY <1>7, RebootStep, Zenon DEF Store!Next
<1> QED BY <1>1, <1>2, <1>3, <1>4, <1>5, <1>6, <1>7, Zenon DEF Operation

\* The inodes and blocks implement a store of named files: through creates,
\* writes, attribute changes, deletes, whole flushes and reboots, reading a file
\* gives what was last written to it, and an operation changes no other file
\* (fs.rs create_file, write_file, delete, write_to_disk, read_from_disk).
THEOREM InodesImplementStore ==
  ASSUME SmallFiles
  PROVE  WholeFlushSpec => ImplementsStore
<1>1. Init => RInv BY InitG, InitS, Zenon DEF RInv, Init
<1>2. RInv /\ [Operation \/ Reboot]_vars => RInv'
  <2> SUFFICES ASSUME RInv, [Operation \/ Reboot]_vars PROVE RInv' BY Zenon
  <2>1. [Next]_vars BY Zenon DEF Next
  <2>2. GInv' /\ SInv' BY <2>1, NextG, NextS, Zenon DEF RInv
  <2>3. UNCHANGED shifted
    <3>1. ASSUME NEW f \in Names, NEW from \in 0 .. MaxBlocks - 1, NEW n \in 0 .. MaxBlocks,
                 NEW v \in Values, NEW aligned \in BOOLEAN, Write(f, from, n, v, aligned)
          PROVE  UNCHANGED shifted
      <4>1. from \in Nat /\ n \in Nat BY ConstantTypes
      <4> QED BY <3>1, <4>1, SmallWrite, Zenon DEF RInv, Written
    <3>2. ASSUME NEW f \in Names, Create(f) PROVE UNCHANGED shifted BY <3>2, CreateEffect, Zenon DEF RInv
    <3>3. ASSUME NEW f \in Names, Delete(f) PROVE UNCHANGED shifted BY <3>3, DeleteS, Zenon DEF RInv
    <3>4. ASSUME NEW f \in Names, NEW a \in Attrs, SetAttr(f, a) PROVE UNCHANGED shifted
      BY <3>4, Zenon DEF SetAttr
    <3>5. CASE Flush \/ Reboot \/ UNCHANGED vars BY <3>5, Zenon DEF Flush, Reboot, vars
    <3> QED BY <3>1, <3>2, <3>3, <3>4, <3>5, Zenon DEF Operation
  <2> QED BY <2>2, <2>3, Zenon DEF RInv
<1> QED BY <1>1, <1>2, InitStep, StepIsStoreStep, PTL DEF WholeFlushSpec, ImplementsStore, Store!Spec
=============================================================================
