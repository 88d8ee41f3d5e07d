--------------------------- MODULE CommandProofs ---------------------------
(***************************************************************************)
(* What config.Load accepts, what it makes of it, and what an invocation   *)
(* of the tool leaves behind.                                              *)
(*                                                                         *)
(* The first half is about the decoders: what Collect does with parts is   *)
(* shown once (Collected, Keyed), and every decoder is an instance of it.  *)
(* Lemmas `...Decoded` say what a decoder does with a node, `...Holds`     *)
(* what a result of it holds, `...Settles` that the result is one of the   *)
(* plan, `...Judged` when there is one, `...Read` what it means.           *)
(***************************************************************************)
EXTENDS Command, FiniteSetTheorems, SequenceTheorems, TLAPS

\* The natural numbers are well-founded: a form of induction without a
\* predicate as parameter.
LEMMA Least ==
  ASSUME NEW T, T \subseteq Nat, T # {}
  PROVE  \E m \in T : \A k \in T : m <= k
<1> DEFINE Cover == {1..m : m \in T}
<1>1. Cover # {} /\ Cover \subseteq FiniteSubsetsOf(Nat)
  <2>1. \A m \in T : IsFiniteSet(1..m) /\ 1..m \subseteq Nat
    BY FS_Interval
  <2> QED BY <2>1 DEF FiniteSubsetsOf
<1>2. IsWellFoundedOn(StrictSubsetOrdering(Nat), FiniteSubsetsOf(Nat))
  BY FS_StrictSubsetOrderingWellFounded
<1> HIDE DEF Cover
<1>3. PICK U \in Cover : \A W \in Cover : <<W, U>> \notin StrictSubsetOrdering(Nat)
  BY <1>1, <1>2, WFMin
<1>4. PICK m \in T : U = 1..m
  BY DEF Cover
<1>5. ASSUME NEW k \in T, k < m PROVE FALSE
  <2>1. 1..k \in Cover /\ 1..k \subseteq Nat /\ U \subseteq Nat
    BY <1>4 DEF Cover
  <2>2. 1..k \subseteq 1..m /\ m \in 1..m /\ m \notin 1..k
    BY <1>5
  <2>3. <<1..k, U>> \in StrictSubsetOrdering(Nat)
    BY <2>1, <2>2, <1>4 DEF StrictSubsetOrdering
  <2> QED BY <2>1, <2>3, <1>3
<1> QED BY <1>5

\* What the recursive function in Collect is for the first n parts.
Unrolls(got, zero, parts, n) ==
  /\ got[0] = {zero}
  /\ \A i \in 1..n : got[i] = {Over(p, g) : p \in parts[i], g \in got[i - 1]}
  /\ Collect(zero, parts) = got[n]

\* The recursion of Collect has a solution.
LEMMA Collecting ==
  ASSUME NEW zero, NEW parts, NEW n \in Nat, Len(parts) = n
  PROVE  \E got : Unrolls(got, zero, parts, n)
<1> DEFINE After(g, i) == IF i = 0 THEN {zero} ELSE {Over(p, h) : p \in parts[i], h \in g[i - 1]}
           Solves(g, m) == g = [i \in 0..m |-> After(g, i)]
           Bad == {m \in 0..n : \A g : ~Solves(g, m)}
<1>1. Collect(zero, parts) = (CHOOSE g : Solves(g, n))[n]
  BY DEF Collect
<1>2. ASSUME NEW g, NEW h, NEW i, h[i - 1] = g[i - 1] PROVE After(h, i) = After(g, i)
  BY <1>2
<1>3. ASSUME NEW g, NEW m \in Nat PROVE Solves(g, m) => \A i \in 0..m : g[i] = After(g, i)
  <2> HIDE DEF After
  <2> QED OBVIOUS
<1>4. ASSUME NEW g, NEW i
      PROVE  /\ After(g, 0) = {zero}
             /\ i # 0 => After(g, i) = {Over(p, h) : p \in parts[i], h \in g[i - 1]}
  OBVIOUS
<1> HIDE DEF After
<1>5. \E g : Solves(g, 0)
  <2> DEFINE g == [i \in 0..0 |-> {zero}]
  <2>1. \A i \in 0..0 : After(g, i) = {zero}
    BY <1>4
  <2>2. g = [i \in 0..0 |-> After(g, i)]
    BY <2>1
  <2> QED BY <2>2
<1>6. ASSUME NEW m \in Nat, NEW g, Solves(g, m) PROVE \E h : Solves(h, m + 1)
  <2> DEFINE h == [i \in 0..(m + 1) |-> IF i <= m THEN g[i] ELSE After(g, i)]
  <2>1. ASSUME NEW i \in 0..(m + 1) PROVE h[i] = After(h, i)
    <3>1. CASE i = 0
      <4>1. h[0] = g[0] /\ 0 \in 0..m
        OBVIOUS
      <4>2. g[0] = After(g, 0)
        BY <4>1, <1>3, <1>6
      <4> HIDE DEF h
      <4> QED BY <3>1, <4>1, <4>2, <1>4
    <3>2. CASE i # 0
      <4>1. i - 1 \in 0..(m + 1) /\ i - 1 <= m
        BY <3>2
      <4>2. h[i - 1] = g[i - 1]
        BY <4>1
      <4>3. After(h, i) = After(g, i)
        BY <4>2, <1>2
      <4>4. h[i] = After(g, i)
        BY <1>3, <1>6
      <4> QED BY <4>3, <4>4
    <3> QED BY <3>1, <3>2
  <2>2. h = [i \in 0..(m + 1) |-> After(h, i)]
    BY <2>1
  <2> QED BY <2>2
<1> HIDE DEF Solves
<1>7. Bad = {}
  <2>1. Bad \subseteq Nat
    OBVIOUS
  <2>2. ASSUME NEW m \in Bad, \A k \in Bad : m <= k PROVE FALSE
    <3>1. m \in Nat /\ m <= n /\ m # 0 /\ \A g : ~Solves(g, m)
      BY <1>5
    <3>2. m - 1 \in Nat /\ m - 1 \in 0..n /\ ~(m <= m - 1) /\ (m - 1) + 1 = m
      BY <3>1
    <3>3. m - 1 \notin Bad
      BY <2>2, <3>2
    <3>4. PICK g : Solves(g, m - 1)
      BY <3>2, <3>3
    <3> QED BY <1>6, <3>1, <3>2, <3>4
  <2> HIDE DEF Bad
  <2> QED BY <2>1, <2>2, Least
<1>8. \E g : Solves(g, n)
  <2>1. n \in 0..n /\ n \notin Bad
    BY <1>7
  <2> QED BY <2>1
<1> DEFINE it == CHOOSE g : Solves(g, n)
<1>9. Solves(it, n)
  BY <1>8
<1> HIDE DEF it
<1>10. \A i \in 0..n : it[i] = After(it, i)
  BY <1>3, <1>9
<1>11. it[0] = {zero} /\ \A i \in 1..n : it[i] = {Over(p, h) : p \in parts[i], h \in it[i - 1]}
  BY <1>4, <1>10
<1>12. Collect(zero, parts) = it[n]
  BY <1>1 DEF it
<1> QED BY <1>11, <1>12 DEF Unrolls

\* What the parts with these numbers have to say about x.
Says(parts, I, x) == {i \in I : \E p \in parts[i] : x \in DOMAIN p}

\* The result has what it started with and what the parts have, and where
\* several parts say something one of them is right.
IsCollected(g, zero, parts, I) ==
  /\ \A x : x \in DOMAIN g <=> x \in DOMAIN zero \/ Says(parts, I, x) # {}
  /\ \A x \in DOMAIN zero : Says(parts, I, x) = {} => g[x] = zero[x]
  /\ \A x : Says(parts, I, x) # {} =>
       \E i \in I : \E p \in parts[i] : x \in DOMAIN p /\ g[x] = p[x]

\* Collect succeeds when every part is there, and then it has one result.
LEMMA Collected ==
  ASSUME NEW zero, NEW parts, NEW n \in Nat, Len(parts) = n,
         \A i \in 1..n : \A p, q \in parts[i] : p = q
  PROVE  /\ Collect(zero, parts) # {} <=> \A i \in 1..n : parts[i] # {}
         /\ \A g \in Collect(zero, parts) : IsCollected(g, zero, parts, 1..n)
         /\ \A g, h \in Collect(zero, parts) : g = h
<1>0. PICK got : Unrolls(got, zero, parts, n)
  BY Collecting
<1>1. /\ got[0] = {zero}
      /\ \A i \in 1..n : got[i] = {Over(p, g) : p \in parts[i], g \in got[i - 1]}
      /\ Collect(zero, parts) = got[n]
  BY <1>0 DEF Unrolls
<1> DEFINE Facts(m) == /\ got[m] # {} <=> \A i \in 1..m : parts[i] # {}
                       /\ \A g \in got[m] : IsCollected(g, zero, parts, 1..m)
                       /\ \A g, h \in got[m] : g = h
<1>2. Facts(0)
  <2>1. 1..0 = {} /\ \A x : Says(parts, 1..0, x) = {}
    BY DEF Says
  <2>2. IsCollected(zero, zero, parts, 1..0)
    BY <2>1 DEF IsCollected
  <2> QED BY <1>1, <2>1, <2>2
<1>3. ASSUME NEW m \in Nat, m + 1 <= n, Facts(m) PROVE Facts(m + 1)
  <2>1. /\ m + 1 \in 1..n /\ (m + 1) - 1 = m
        /\ 1..(m + 1) = 1..m \cup {m + 1}
    BY <1>3
  <2>2. got[m + 1] = {Over(p, g) : p \in parts[m + 1], g \in got[m]}
    BY <1>1, <2>1
  <2>3. got[m + 1] # {} <=> \A i \in 1..(m + 1) : parts[i] # {}
    <3>1. got[m + 1] # {} <=> parts[m + 1] # {} /\ got[m] # {}
      BY <2>2
    <3>2. got[m] # {} <=> \A i \in 1..m : parts[i] # {}
      BY <1>3
    <3> HIDE DEF Facts
    <3> QED BY <2>1, <3>1, <3>2
  <2>4. ASSUME NEW f \in got[m + 1], NEW h \in got[m + 1] PROVE f = h
    BY <1>3, <2>1, <2>2
  <2>5. ASSUME NEW f \in got[m + 1] PROVE IsCollected(f, zero, parts, 1..(m + 1))
    <3>1. PICK p \in parts[m + 1], g \in got[m] : f = Over(p, g)
      BY <2>2
    <3>2. IsCollected(g, zero, parts, 1..m) /\ \A q \in parts[m + 1] : q = p
      BY <1>3, <2>1
    <3>3. ASSUME NEW x
          PROVE Says(parts, 1..(m + 1), x) =
                  Says(parts, 1..m, x) \cup IF x \in DOMAIN p THEN {m + 1} ELSE {}
      BY <2>1, <3>2 DEF Says
    <3>4. ASSUME NEW x PROVE x \in DOMAIN f <=> x \in DOMAIN g \/ x \in DOMAIN p
      BY <3>1 DEF Over
    <3>5. ASSUME NEW x \in DOMAIN f PROVE f[x] = IF x \in DOMAIN p THEN p[x] ELSE g[x]
      BY <3>1 DEF Over
    <3>6. ASSUME NEW x PROVE x \in DOMAIN f <=> x \in DOMAIN zero \/ Says(parts, 1..(m + 1), x) # {}
      BY <3>2, <3>3, <3>4 DEF IsCollected
    <3>7. ASSUME NEW x, Says(parts, 1..(m + 1), x) # {}
          PROVE  \E i \in 1..(m + 1) : \E q \in parts[i] : x \in DOMAIN q /\ f[x] = q[x]
      <4>1. x \in DOMAIN f
        BY <3>6, <3>7
      <4>2. CASE x \in DOMAIN p
        BY <2>1, <3>5, <4>1, <4>2
      <4>3. CASE x \notin DOMAIN p
        <5>1. Says(parts, 1..m, x) # {} /\ f[x] = g[x]
          BY <3>3, <3>5, <3>7, <4>1, <4>3
        <5> QED BY <2>1, <3>2, <5>1 DEF IsCollected
      <4> QED BY <4>2, <4>3
    <3>8. ASSUME NEW x \in DOMAIN zero, Says(parts, 1..(m + 1), x) = {} PROVE f[x] = zero[x]
      <4>1. Says(parts, 1..m, x) = {} /\ x \notin DOMAIN p
        BY <3>3, <3>8
      <4>2. g[x] = zero[x]
        BY <3>2, <4>1 DEF IsCollected
      <4>3. x \in DOMAIN f
        BY <3>6
      <4> QED BY <3>5, <4>1, <4>2, <4>3
    <3> QED BY <3>6, <3>7, <3>8 DEF IsCollected
  <2> QED BY <2>3, <2>4, <2>5
<1> HIDE DEF Facts
<1> DEFINE Bad == {m \in 0..n : ~Facts(m)}
<1>4. Bad = {}
  <2>1. Bad \subseteq Nat
    OBVIOUS
  <2>2. ASSUME NEW m \in Bad, \A k \in Bad : m <= k PROVE FALSE
    <3>1. m \in Nat /\ m <= n /\ m # 0 /\ ~Facts(m)
      BY <1>2
    <3>2. m - 1 \in Nat /\ m - 1 \in 0..n /\ ~(m <= m - 1) /\ (m - 1) + 1 = m
      BY <3>1
    <3>3. Facts(m - 1)
      BY <2>2, <3>2
    <3> QED BY <1>3, <3>1, <3>2, <3>3
  <2> HIDE DEF Bad
  <2> QED BY <2>1, <2>2, Least
<1>5. Facts(n)
  <2>1. n \in 0..n /\ n \notin Bad
    BY <1>4
  <2> QED BY <2>1
<1> QED BY <1>1, <1>5 DEF Facts

\* More nodes make more nodes.
LEMMA Wider ==
  ASSUME NEW N, NEW M, N \subseteq M
  PROVE  Node(N) \subseteq Node(M)
<1>1. Seq(N) \subseteq Seq(M)
  OBVIOUS
<1>2. Texts \X N \subseteq Texts \X M
  OBVIOUS
<1>3. Seq(Texts \X N) \subseteq Seq(Texts \X M)
  <2> DEFINE P == Texts \X N
             Q == Texts \X M
  <2>1. P \subseteq Q
    BY <1>2
  <2> HIDE DEF P, Q
  <2>2. Seq(P) \subseteq Seq(Q)
    BY <2>1
  <2> QED BY <2>2 DEF P, Q
<1> QED BY <1>1, <1>3 DEF Node

\* A node of a file is made of texts and nodes.
LEMMA Closed ==
  ASSUME NEW n \in Nodes
  PROVE  n \in Node(Nodes)
<1> DEFINE Grown(t, d) == IF d = 0 THEN {} ELSE Node(t[d - 1])
           Solves(t, m) == t = [d \in 0..m |-> Grown(t, d)]
           Unsolved == {m \in 0..MaxDepth : \A t : ~Solves(t, m)}
<1>1. Nodes = (CHOOSE t : Solves(t, MaxDepth))[MaxDepth]
  BY DEF Nodes
<1>2. ASSUME NEW t, NEW m \in Nat PROVE Solves(t, m) => \A d \in 0..m : t[d] = Grown(t, d)
  <2> HIDE DEF Grown
  <2> QED OBVIOUS
<1>3. ASSUME NEW t, NEW d PROVE Grown(t, 0) = {} /\ (d # 0 => Grown(t, d) = Node(t[d - 1]))
  OBVIOUS
<1> HIDE DEF Grown
<1>4. \E t : Solves(t, 0)
  <2> DEFINE t == [d \in 0..0 |-> {}]
  <2>1. \A d \in 0..0 : Grown(t, d) = {}
    BY <1>3
  <2>2. t = [d \in 0..0 |-> Grown(t, d)]
    BY <2>1
  <2> QED BY <2>2
<1>5. ASSUME NEW m \in Nat, NEW t, Solves(t, m) PROVE \E u : Solves(u, m + 1)
  <2> DEFINE u == [d \in 0..(m + 1) |-> IF d <= m THEN t[d] ELSE Grown(t, d)]
  <2>1. ASSUME NEW d \in 0..(m + 1) PROVE u[d] = Grown(u, d)
    <3>1. u[d] = Grown(t, d)
      BY <1>2, <1>5
    <3>2. d # 0 => u[d - 1] = t[d - 1]
      OBVIOUS
    <3> HIDE DEF u
    <3> QED BY <3>1, <3>2, <1>3
  <2>2. u = [d \in 0..(m + 1) |-> Grown(u, d)]
    BY <2>1
  <2> QED BY <2>2
<1> HIDE DEF Solves
<1>6. Unsolved = {}
  <2>1. Unsolved \subseteq Nat
    BY DepthAssumption
  <2>2. ASSUME NEW m \in Unsolved, \A k \in Unsolved : m <= k PROVE FALSE
    <3>1. m \in Nat /\ m <= MaxDepth /\ m # 0 /\ \A t : ~Solves(t, m)
      BY <1>4, DepthAssumption
    <3>2. m - 1 \in Nat /\ m - 1 \in 0..MaxDepth /\ ~(m <= m - 1) /\ (m - 1) + 1 = m
      BY <3>1, DepthAssumption
    <3>3. PICK t : Solves(t, m - 1)
      BY <2>2, <3>2
    <3> QED BY <1>5, <3>1, <3>2, <3>3
  <2> HIDE DEF Unsolved
  <2> QED BY <2>1, <2>2, Least
<1> DEFINE trees == CHOOSE t : Solves(t, MaxDepth)
<1>7. Solves(trees, MaxDepth)
  <2>1. MaxDepth \notin Unsolved /\ MaxDepth \in 0..MaxDepth
    BY <1>6, DepthAssumption
  <2> QED BY <2>1
<1>8. Nodes = trees[MaxDepth]
  BY <1>1
<1> HIDE DEF trees
<1>9. \A d \in 0..MaxDepth : trees[d] = Grown(trees, d)
  BY <1>2, <1>7, DepthAssumption
<1> DEFINE Shrinking == {d \in 1..MaxDepth : ~(trees[d - 1] \subseteq trees[d])}
<1>10. Shrinking = {}
  <2>1. Shrinking \subseteq Nat
    BY DepthAssumption
  <2>2. ASSUME NEW d \in Shrinking, \A k \in Shrinking : d <= k PROVE FALSE
    <3>1. d \in 1..MaxDepth /\ d - 1 \in 0..MaxDepth /\ d \in 0..MaxDepth /\ d # 0
      BY DepthAssumption
    <3>2. trees[d] = Node(trees[d - 1])
      BY <1>3, <1>9, <3>1
    <3>3. CASE d = 1
      <4>1. trees[0] = {}
        BY <1>3, <1>9, <3>1, <3>3
      <4> QED BY <3>3, <4>1
    <3>4. CASE d # 1
      <4>1. d - 1 \in 1..MaxDepth /\ ~(d <= d - 1) /\ d - 1 # 0
        BY <3>1, <3>4, DepthAssumption
      <4>2. trees[(d - 1) - 1] \subseteq trees[d - 1]
        BY <2>2, <4>1
      <4>3. trees[d - 1] = Node(trees[(d - 1) - 1])
        BY <1>3, <1>9, <3>1, <4>1
      <4> QED BY <3>2, <4>2, <4>3, Wider
    <3> QED BY <3>3, <3>4
  <2> HIDE DEF Shrinking
  <2> QED BY <2>1, <2>2, Least
<1>11. CASE MaxDepth = 0
  BY <1>3, <1>8, <1>9, <1>11
<1>12. CASE MaxDepth # 0
  <2>1. MaxDepth \in 1..MaxDepth /\ MaxDepth \in 0..MaxDepth
    BY <1>12, DepthAssumption
  <2>2. Nodes = Node(trees[MaxDepth - 1])
    BY <1>3, <1>8, <1>9, <1>12, <2>1
  <2>3. trees[MaxDepth - 1] \subseteq Nodes
    BY <1>8, <1>10, <2>1
  <2> QED BY <2>2, <2>3, Wider
<1> QED BY <1>11, <1>12

\* Keys under which the parts stand, each with the results of one decoder.
IsKeyed(g, zero, keyOf, results, I) ==
  /\ \A x : x \in DOMAIN g <=> x \in DOMAIN zero \/ \E i \in I : keyOf[i] = x
  /\ \A x \in DOMAIN zero : (\A i \in I : keyOf[i] # x) => g[x] = zero[x]
  /\ \A x : (\E i \in I : keyOf[i] = x) => \E i \in I : keyOf[i] = x /\ g[x] \in results[i]

\* f is a function on S.
IsFunctionOn(f, S) == f = [x \in S |-> f[x]]

\* Len of a function on an initial segment.
LEMMA LengthOf ==
  ASSUME NEW size \in Nat, NEW f, IsFunctionOn(f, 1..size)
  PROVE  Len(f) = size
<1>1. Len([i \in 1..size |-> f[i]]) = size
  OBVIOUS
<1> QED BY <1>1 DEF IsFunctionOn

\* The part of one key has that key and a result for it.
LEMMA PartOf ==
  ASSUME NEW key, NEW results, NEW p \in As(key, results)
  PROVE  \A x : (x \in DOMAIN p <=> x = key) /\ (x = key => p[x] \in results)
  BY DEF As

\* What comes of parts with one key each.
Joins(C, zero, keyOf, results, I) ==
  /\ C # {} <=> \A i \in I : results[i] # {}
  /\ \A g \in C : IsKeyed(g, zero, keyOf, results, I)
  /\ \A g, h \in C : g = h

\* parts[i] is what the key keyOf[i] gives, with at most one result.
Gives(parts, keyOf, results, I) ==
  /\ IsFunctionOn(parts, I)
  /\ \A i \in I : parts[i] = As(keyOf[i], results[i])
  /\ \A i \in I : \A p, q \in results[i] : p = q

\* Collect with one key per part: all parts have results, or there is none;
\* the keys are the given ones, and the result is the only one.
LEMMA Keyed ==
  ASSUME NEW size \in Nat, NEW zero, NEW keyOf, NEW results, NEW parts,
         Gives(parts, keyOf, results, 1..size)
  PROVE  Joins(Collect(zero, parts), zero, keyOf, results, 1..size)
<1>0. /\ IsFunctionOn(parts, 1..size)
      /\ \A i \in 1..size : parts[i] = As(keyOf[i], results[i])
      /\ \A i \in 1..size : \A p, q \in results[i] : p = q
  BY DEF Gives
<1>1. Len(parts) = size
  BY <1>0, LengthOf
<1>2. ASSUME NEW i \in 1..size
      PROVE  /\ parts[i] = {[x \in {keyOf[i]} |-> r] : r \in results[i]}
             /\ \A p, q \in parts[i] : p = q
             /\ parts[i] # {} <=> results[i] # {}
  <2>1. parts[i] = {[x \in {keyOf[i]} |-> r] : r \in results[i]}
    BY <1>0 DEF As
  <2>2. \A p, q \in parts[i] : p = q
    BY <1>0, <2>1
  <2>3. parts[i] # {} <=> results[i] # {}
    <3>1. \A r \in results[i] : [x \in {keyOf[i]} |-> r] \in parts[i]
      BY <2>1
    <3>2. \A p \in parts[i] : \E r \in results[i] : TRUE
      BY <2>1
    <3> QED BY <3>1, <3>2
  <2> QED BY <2>1, <2>2, <2>3
<1>4. ASSUME NEW i \in 1..size, NEW x
      PROVE  /\ \A p \in parts[i] : x \in DOMAIN p <=> x = keyOf[i]
             /\ \A p \in parts[i] : x = keyOf[i] => p[x] \in results[i]
  <2>1. ASSUME NEW p \in parts[i]
        PROVE  (x \in DOMAIN p <=> x = keyOf[i]) /\ (x = keyOf[i] => p[x] \in results[i])
    <3>1. p \in As(keyOf[i], results[i])
      BY <1>0
    <3> QED BY <3>1, PartOf
  <2> QED BY <2>1
<1> HIDE DEF IsKeyed
<1>5. /\ Collect(zero, parts) # {} <=> \A i \in 1..size : parts[i] # {}
      /\ \A g \in Collect(zero, parts) : IsCollected(g, zero, parts, 1..size)
      /\ \A g, h \in Collect(zero, parts) : g = h
  BY <1>1, <1>2, Collected
<1>6. ASSUME NEW g \in Collect(zero, parts) PROVE IsKeyed(g, zero, keyOf, results, 1..size)
  <2>1. \A i \in 1..size : parts[i] # {}
    BY <1>1, <1>5
  <2>2. ASSUME NEW x, NEW i \in 1..size
        PROVE  (\E p \in parts[i] : x \in DOMAIN p) <=> keyOf[i] = x
    <3>1. parts[i] # {} /\ \A p \in parts[i] : x \in DOMAIN p <=> x = keyOf[i]
      BY <1>4, <2>1
    <3> QED BY <3>1
  <2>3. ASSUME NEW x PROVE Says(parts, 1..size, x) = {i \in 1..size : keyOf[i] = x}
    BY <2>2 DEF Says
  <2>4. IsCollected(g, zero, parts, 1..size)
    BY <1>1, <1>5
  <2>5. ASSUME NEW x PROVE x \in DOMAIN g <=> x \in DOMAIN zero \/ \E i \in 1..size : keyOf[i] = x
    <3>1. x \in DOMAIN g <=> x \in DOMAIN zero \/ Says(parts, 1..size, x) # {}
      BY <2>4 DEF IsCollected
    <3>2. Says(parts, 1..size, x) # {} <=> \E i \in 1..size : keyOf[i] = x
      BY <2>3
    <3> QED BY <3>1, <3>2
  <2>6. \A x \in DOMAIN zero : (\A i \in 1..size : keyOf[i] # x) => g[x] = zero[x]
    BY <2>3, <2>4 DEF IsCollected
  <2>7. ASSUME NEW x, \E i \in 1..size : keyOf[i] = x
        PROVE  \E i \in 1..size : keyOf[i] = x /\ g[x] \in results[i]
    <3>1. Says(parts, 1..size, x) # {}
      BY <2>3, <2>7
    <3>2. PICK i \in 1..size : \E p \in parts[i] : x \in DOMAIN p /\ g[x] = p[x]
      BY <2>4, <3>1 DEF IsCollected
    <3> QED BY <1>4, <3>2
  <2> QED BY <2>5, <2>6, <2>7 DEF IsKeyed
<1>7. Collect(zero, parts) # {} <=> \A i \in 1..size : results[i] # {}
  BY <1>1, <1>2, <1>5
<1> QED BY <1>5, <1>6, <1>7 DEF Joins

\* What a node of a file is made of.
LEMMA Inside ==
  ASSUME NEW n \in Nodes
  PROVE  /\ n.text \in Texts
         /\ n.pairs \in Seq(Texts \X Nodes)
         /\ n.items \in Seq(Nodes)
         /\ \A i \in DOMAIN n.pairs : n.pairs[i][1] \in Texts /\ n.pairs[i][2] \in Nodes
         /\ \A i \in DOMAIN n.items : n.items[i] \in Nodes
<1>1. n \in Node(Nodes)
  BY Closed
<1>2. /\ n.text \in Texts
      /\ n.pairs \in Seq(Texts \X Nodes)
      /\ n.items \in Seq(Nodes)
  BY <1>1 DEF Node
<1>3. \A i \in DOMAIN n.items : n.items[i] \in Nodes
  BY <1>2
<1>4. ASSUME NEW i \in DOMAIN n.pairs PROVE n.pairs[i][1] \in Texts /\ n.pairs[i][2] \in Nodes
  <2> DEFINE P == Texts \X Nodes
  <2>1. n.pairs \in Seq(P)
    BY <1>2
  <2> HIDE DEF P
  <2>2. n.pairs[i] \in P
    BY <2>1
  <2> QED BY <2>2 DEF P
<1> QED BY <1>2, <1>3, <1>4

\* decodeStringList.
LEMMA TextLists ==
  ASSUME NEW n \in Nodes
  PROVE  /\ DecodeStringList(n) # {} <=> IsText(n)
         /\ \A l, m \in DecodeStringList(n) : l = m
         /\ \A l \in DecodeStringList(n) :
              l \in Seq(Texts) /\ Range(l) = TextsIn(n) /\ (l = <<>> <=> n.items = <<>>)
<1> DEFINE L == [i \in DOMAIN n.items |-> n.items[i].text]
<1>1. DecodeStringList(n) = IF IsText(n) THEN {L} ELSE {}
  BY DEF DecodeStringList, Refused
<1>2. \A i \in DOMAIN n.items : n.items[i].text \in Texts
  BY Inside
<1>3. Len(n.items) \in Nat /\ DOMAIN n.items = 1..Len(n.items)
  BY Inside
<1>4. L \in Seq(Texts) /\ Len(L) = Len(n.items)
  BY <1>2, <1>3
<1>5. Range(L) = TextsIn(n)
  BY DEF Range, TextsIn
<1>6. L = <<>> <=> Len(L) = 0
  BY <1>4
<1>7. n.items = <<>> <=> Len(n.items) = 0
  BY Inside
<1> HIDE DEF L
<1> QED BY <1>1, <1>4, <1>5, <1>6, <1>7

\* Blocks belong to an organization or to repositories.
Levels == {"org", "repo"}

\* What one key gives an entry.
IsPartOfEntry(p, key, v) ==
  /\ "hasValue" \in DOMAIN p <=> key = "value"
  /\ "value" \in DOMAIN p <=> key = "value"
  /\ "env" \in DOMAIN p <=> key = "env"
  /\ "file" \in DOMAIN p <=> key = "file"
  /\ "fileAbs" \in DOMAIN p <=> key = "file" /\ v.text # ""
  /\ "vis" \in DOMAIN p <=> key = "scope"
  /\ "repos" \in DOMAIN p <=> key = "repos"
  /\ key = "value" => p.hasValue = TRUE /\ p.value = v.text
  /\ key = "env" => p.env = v.text
  /\ key = "file" => p.file = v.text
  /\ key = "file" /\ v.text # "" => p.fileAbs = AbsPath(v.text)
  /\ key = "scope" => p.vis = v.text
  /\ key = "repos" => p.repos \in DecodeStringList(v)

\* decodeEntry and decodeOrgEntry, one key.
LEMMA EntryParts ==
  ASSUME NEW level \in Levels, NEW key, NEW v \in Nodes
  PROVE  /\ EntryPart(level, key, v) # {} <=>
              \/ key \in {"value", "env", "file"}
              \/ level = "org" /\ (key = "scope" \/ (key = "repos" /\ IsText(v)))
         /\ \A p, q \in EntryPart(level, key, v) : p = q
         /\ \A p \in EntryPart(level, key, v) : IsPartOfEntry(p, key, v)
<1> DEFINE E == EntryPart(level, key, v)
<1>1. CASE key = "value"
  <2> DEFINE r == [hasValue |-> TRUE, value |-> v.text]
  <2>1. E = {r}
    BY <1>1 DEF EntryPart
  <2>2. DOMAIN r = {"hasValue", "value"} /\ r.hasValue = TRUE /\ r.value = v.text
    OBVIOUS
  <2>3. IsPartOfEntry(r, key, v)
    BY <1>1, <2>2 DEF IsPartOfEntry
  <2> HIDE DEF r
  <2> QED BY <1>1, <2>1, <2>3
<1>2. CASE key = "env"
  <2> DEFINE r == [env |-> v.text]
  <2>1. E = {r}
    BY <1>2 DEF EntryPart
  <2>2. DOMAIN r = {"env"} /\ r.env = v.text
    OBVIOUS
  <2>3. IsPartOfEntry(r, key, v)
    BY <1>2, <2>2 DEF IsPartOfEntry
  <2> HIDE DEF r
  <2> QED BY <1>2, <2>1, <2>3
<1>3. CASE key = "file" /\ v.text = ""
  <2> DEFINE r == [file |-> ""]
  <2>1. E = {r}
    BY <1>3 DEF EntryPart
  <2>2. DOMAIN r = {"file"} /\ r.file = ""
    OBVIOUS
  <2>3. IsPartOfEntry(r, key, v)
    BY <1>3, <2>2 DEF IsPartOfEntry
  <2> HIDE DEF r
  <2> QED BY <1>3, <2>1, <2>3
<1>7. CASE key = "file" /\ v.text # ""
  <2> DEFINE r == [file |-> v.text, fileAbs |-> AbsPath(v.text)]
  <2>1. E = {r}
    BY <1>7 DEF EntryPart
  <2>2. DOMAIN r = {"file", "fileAbs"} /\ r.file = v.text /\ r.fileAbs = AbsPath(v.text)
    OBVIOUS
  <2>3. IsPartOfEntry(r, key, v)
    BY <1>7, <2>2 DEF IsPartOfEntry
  <2> HIDE DEF r
  <2> QED BY <1>7, <2>1, <2>3
<1>4. CASE key = "scope"
  <2> DEFINE r == [vis |-> v.text]
  <2>1. E = IF level = "org" THEN {r} ELSE {}
    BY <1>4 DEF EntryPart, Refused
  <2>2. DOMAIN r = {"vis"} /\ r.vis = v.text
    OBVIOUS
  <2>5. IsPartOfEntry(r, key, v)
    BY <1>4, <2>2 DEF IsPartOfEntry
  <2> HIDE DEF r
  <2>3. CASE level = "org"
    BY <1>4, <2>1, <2>5, <2>3
  <2>4. CASE level # "org"
    BY <1>4, <2>1, <2>4
  <2> QED BY <2>3, <2>4
<1>5. CASE key = "repos"
  <2>1. E = IF level = "org" THEN As("repos", DecodeStringList(v)) ELSE {}
    BY <1>5 DEF EntryPart, Refused
  <2>2. CASE level = "repo"
    BY <1>5, <2>1, <2>2
  <2>3. CASE level = "org"
    <3>1. E = As("repos", DecodeStringList(v))
      BY <2>1, <2>3
    <3>2. E # {} <=> DecodeStringList(v) # {}
      <4>1. \A l \in DecodeStringList(v) : [x \in {"repos"} |-> l] \in E
        BY <3>1 DEF As
      <4>2. \A p \in E : \E l \in DecodeStringList(v) : TRUE
        BY <3>1 DEF As
      <4> QED BY <4>1, <4>2
    <3>3. \A p, q \in E : p = q
      BY <3>1, TextLists DEF As
    <3>4. ASSUME NEW p \in E
          PROVE  \A x : (x \in DOMAIN p <=> x = "repos") /\ (x = "repos" => p[x] \in DecodeStringList(v))
      BY <3>1, PartOf
    <3>5. ASSUME NEW p \in E PROVE IsPartOfEntry(p, key, v)
      BY <1>5, <3>4 DEF IsPartOfEntry
    <3> QED BY <1>5, <2>3, <3>2, <3>3, <3>5, TextLists
  <2> QED BY <2>2, <2>3 DEF Levels
<1>6. CASE key \notin {"value", "env", "file", "scope", "repos"}
  <2>1. E = {}
    BY <1>6 DEF EntryPart, Refused
  <2> QED BY <1>6, <2>1
<1> QED BY <1>1, <1>2, <1>3, <1>4, <1>5, <1>6, <1>7

\* Where a key stands in a mapping.
At(n, key) == {i \in DOMAIN n.pairs : n.pairs[i][1] = key}

\* The keys an entry may have.
IsEntryKey(level, key, v) ==
  \/ key \in {"value", "env", "file"}
  \/ level = "org" /\ (key = "scope" \/ (key = "repos" /\ IsText(v)))

\* An entry before it is validated.
RawEntry(level, n) ==
  IF n.kind # "mapping" THEN {}
  ELSE Collect(BlankEntry(level),
               [i \in DOMAIN n.pairs |-> EntryPart(level, n.pairs[i][1], n.pairs[i][2])])

\* Each field is as it was or comes from one of the keys; a path that is not
\* empty comes with the absolute path made of it.
ComesFrom(level, n, e) ==
  /\ e.hasValue = (At(n, "value") # {})
  /\ At(n, "value") # {} => \E i \in At(n, "value") : e.value = n.pairs[i][2].text
  /\ At(n, "env") = {} => e.env = ""
  /\ At(n, "env") # {} => \E i \in At(n, "env") : e.env = n.pairs[i][2].text
  /\ At(n, "file") = {} => e.file = ""
  /\ At(n, "file") # {} => \E i \in At(n, "file") : e.file = n.pairs[i][2].text
  /\ e.file # "" => \E i \in At(n, "file") : e.fileAbs = AbsPath(n.pairs[i][2].text)
  /\ At(n, "scope") = {} => e.vis = IF level = "org" THEN "all" ELSE "repo"
  /\ At(n, "scope") # {} => level = "org" /\ \E i \in At(n, "scope") : e.vis = n.pairs[i][2].text
  /\ At(n, "repos") = {} => e.repos = <<>>
  /\ At(n, "repos") # {} =>
       level = "org" /\ \E i \in At(n, "repos") : e.repos \in DecodeStringList(n.pairs[i][2])

\* decodeEntry and decodeOrgEntry.
LEMMA EntryDecoded ==
  ASSUME NEW level \in Levels, NEW n \in Nodes
  PROVE  /\ DecodeEntry(level, n) =
              {e \in RawEntry(level, n) : ValidSources(e) /\ (level = "org" => ValidVisibility(e))}
         /\ \A e \in RawEntry(level, n) : ComesFrom(level, n, e)
         /\ RawEntry(level, n) # {} <=>
              /\ n.kind = "mapping"
              /\ \A i \in DOMAIN n.pairs : IsEntryKey(level, n.pairs[i][1], n.pairs[i][2])
         /\ \A e, f \in RawEntry(level, n) : e = f
<1> DEFINE zero == BlankEntry(level)
           parts == [i \in DOMAIN n.pairs |-> EntryPart(level, n.pairs[i][1], n.pairs[i][2])]
           size == Len(n.pairs)
<1>1. size \in Nat /\ DOMAIN n.pairs = 1..size
  BY Inside
<1>2. \A i \in 1..size : n.pairs[i][1] \in Texts /\ n.pairs[i][2] \in Nodes
  BY <1>1, Inside
<1>3. \A i \in 1..size : parts[i] = EntryPart(level, n.pairs[i][1], n.pairs[i][2])
  BY <1>1
<1>4. DecodeEntry(level, n) =
        {e \in RawEntry(level, n) : ValidSources(e) /\ (level = "org" => ValidVisibility(e))}
  BY DEF DecodeEntry, Decode, RawEntry, Refused
<1>5. Len(parts) = size
  <2>1. IsFunctionOn(parts, 1..size)
    BY <1>1 DEF IsFunctionOn
  <2> HIDE DEF parts, size
  <2> QED BY <1>1, <2>1, LengthOf
<1>6. CASE n.kind # "mapping"
  <2>1. RawEntry(level, n) = {}
    BY <1>6 DEF RawEntry
  <2> QED BY <1>4, <1>6, <2>1
<1>7. CASE n.kind = "mapping"
  <2>1. RawEntry(level, n) = Collect(zero, parts)
    BY <1>7 DEF RawEntry
  <2> HIDE DEF parts, size, zero
  <2>2. ASSUME NEW i \in 1..size
        PROVE  /\ parts[i] # {} <=> IsEntryKey(level, n.pairs[i][1], n.pairs[i][2])
               /\ \A p, q \in parts[i] : p = q
               /\ \A p \in parts[i] : IsPartOfEntry(p, n.pairs[i][1], n.pairs[i][2])
    BY <1>2, <1>3, EntryParts DEF IsEntryKey
  <2>3. /\ Collect(zero, parts) # {} <=> \A i \in 1..size : parts[i] # {}
        /\ \A g \in Collect(zero, parts) : IsCollected(g, zero, parts, 1..size)
        /\ \A g, h \in Collect(zero, parts) : g = h
    BY <1>1, <1>5, <2>2, Collected
  <2>4. ASSUME NEW e \in Collect(zero, parts) PROVE ComesFrom(level, n, e)
    <3>1. IsCollected(e, zero, parts, 1..size) /\ \A i \in 1..size : parts[i] # {}
      BY <2>3
    <3>2. Says(parts, 1..size, "hasValue") = At(n, "value")
      <4>1. ASSUME NEW i \in 1..size
            PROVE  (\E p \in parts[i] : "hasValue" \in DOMAIN p) <=> n.pairs[i][1] = "value"
        BY <2>2, <3>1 DEF IsPartOfEntry
      <4> QED BY <1>1, <4>1 DEF Says, At
    <3>3. Says(parts, 1..size, "value") = At(n, "value")
      <4>1. ASSUME NEW i \in 1..size
            PROVE  (\E p \in parts[i] : "value" \in DOMAIN p) <=> n.pairs[i][1] = "value"
        BY <2>2, <3>1 DEF IsPartOfEntry
      <4> QED BY <1>1, <4>1 DEF Says, At
    <3>4. Says(parts, 1..size, "env") = At(n, "env")
      <4>1. ASSUME NEW i \in 1..size
            PROVE  (\E p \in parts[i] : "env" \in DOMAIN p) <=> n.pairs[i][1] = "env"
        BY <2>2, <3>1 DEF IsPartOfEntry
      <4> QED BY <1>1, <4>1 DEF Says, At
    <3>5. Says(parts, 1..size, "file") = At(n, "file")
      <4>1. ASSUME NEW i \in 1..size
            PROVE  (\E p \in parts[i] : "file" \in DOMAIN p) <=> n.pairs[i][1] = "file"
        BY <2>2, <3>1 DEF IsPartOfEntry
      <4> QED BY <1>1, <4>1 DEF Says, At
    <3>6. Says(parts, 1..size, "vis") = At(n, "scope")
      <4>1. ASSUME NEW i \in 1..size
            PROVE  (\E p \in parts[i] : "vis" \in DOMAIN p) <=> n.pairs[i][1] = "scope"
        BY <2>2, <3>1 DEF IsPartOfEntry
      <4> QED BY <1>1, <4>1 DEF Says, At
    <3>7. Says(parts, 1..size, "repos") = At(n, "repos")
      <4>1. ASSUME NEW i \in 1..size
            PROVE  (\E p \in parts[i] : "repos" \in DOMAIN p) <=> n.pairs[i][1] = "repos"
        BY <2>2, <3>1 DEF IsPartOfEntry
      <4> QED BY <1>1, <4>1 DEF Says, At
    <3>8. Says(parts, 1..size, "fileAbs") = {i \in At(n, "file") : n.pairs[i][2].text # ""}
      <4>1. ASSUME NEW i \in 1..size
            PROVE  (\E p \in parts[i] : "fileAbs" \in DOMAIN p) <=>
                     n.pairs[i][1] = "file" /\ n.pairs[i][2].text # ""
        BY <2>2, <3>1 DEF IsPartOfEntry
      <4> QED BY <1>1, <4>1 DEF Says, At
    <3>9. /\ zero.hasValue = FALSE /\ zero.env = "" /\ zero.file = "" /\ zero.repos = <<>>
          /\ zero.vis = IF level = "org" THEN "all" ELSE "repo"
          /\ \A f \in {"hasValue", "env", "file", "vis", "repos"} : f \in DOMAIN zero
      BY DEF zero, BlankEntry
    <3>10. \A f \in {"hasValue", "env", "file", "vis", "repos"} :
            Says(parts, 1..size, f) = {} => e[f] = zero[f]
      BY <3>1, <3>9 DEF IsCollected
    <3>11. \A f : Says(parts, 1..size, f) # {} =>
            \E i \in 1..size : \E p \in parts[i] : f \in DOMAIN p /\ e[f] = p[f]
      BY <3>1 DEF IsCollected
    <3>12. \A i \in 1..size : \A p \in parts[i] : IsPartOfEntry(p, n.pairs[i][1], n.pairs[i][2])
      BY <2>2
    <3>13. e.hasValue = (At(n, "value") # {})
      <4>1. CASE At(n, "value") = {}
        BY <3>2, <3>9, <3>10, <4>1
      <4>2. CASE At(n, "value") # {}
        <5>0. PICK i \in 1..size : \E p \in parts[i] : "hasValue" \in DOMAIN p /\ e["hasValue"] = p["hasValue"]
          BY <3>2, <3>11, <4>2
        <5>1. PICK p \in parts[i] : "hasValue" \in DOMAIN p /\ e["hasValue"] = p["hasValue"]
          BY <5>0
        <5>2. p.hasValue = TRUE
          BY <3>12, <5>1 DEF IsPartOfEntry
        <5> QED BY <4>2, <5>1, <5>2
      <4> QED BY <4>1, <4>2
    <3>14. ASSUME At(n, "value") # {} PROVE \E i \in At(n, "value") : e.value = n.pairs[i][2].text
      <4>0. PICK i \in 1..size : \E p \in parts[i] : "value" \in DOMAIN p /\ e["value"] = p["value"]
        BY <3>3, <3>11, <3>14
      <4>1. PICK p \in parts[i] : "value" \in DOMAIN p /\ e["value"] = p["value"]
        BY <4>0
      <4>2. i \in At(n, "value")
        BY <1>1, <3>12, <4>1 DEF IsPartOfEntry, At
      <4>3. n.pairs[i][1] = "value" /\ IsPartOfEntry(p, n.pairs[i][1], n.pairs[i][2])
        BY <3>12, <4>2 DEF At
      <4>4. e.value = n.pairs[i][2].text
        BY <4>1, <4>3 DEF IsPartOfEntry
      <4> QED BY <4>2, <4>4
    <3>15. At(n, "env") = {} => e.env = ""
      BY <3>4, <3>9, <3>10
    <3>16. ASSUME At(n, "env") # {} PROVE \E i \in At(n, "env") : e.env = n.pairs[i][2].text
      <4>0. PICK i \in 1..size : \E p \in parts[i] : "env" \in DOMAIN p /\ e["env"] = p["env"]
        BY <3>4, <3>11, <3>16
      <4>1. PICK p \in parts[i] : "env" \in DOMAIN p /\ e["env"] = p["env"]
        BY <4>0
      <4>2. i \in At(n, "env")
        BY <1>1, <3>12, <4>1 DEF IsPartOfEntry, At
      <4>3. n.pairs[i][1] = "env" /\ IsPartOfEntry(p, n.pairs[i][1], n.pairs[i][2])
        BY <3>12, <4>2 DEF At
      <4>4. e.env = n.pairs[i][2].text
        BY <4>1, <4>3 DEF IsPartOfEntry
      <4> QED BY <4>2, <4>4
    <3>17. At(n, "file") = {} => e.file = ""
      BY <3>5, <3>9, <3>10
    <3>18. ASSUME At(n, "file") # {} PROVE \E i \in At(n, "file") : e.file = n.pairs[i][2].text
      <4>0. PICK i \in 1..size : \E p \in parts[i] : "file" \in DOMAIN p /\ e["file"] = p["file"]
        BY <3>5, <3>11, <3>18
      <4>1. PICK p \in parts[i] : "file" \in DOMAIN p /\ e["file"] = p["file"]
        BY <4>0
      <4>2. i \in At(n, "file")
        BY <1>1, <3>12, <4>1 DEF IsPartOfEntry, At
      <4>3. n.pairs[i][1] = "file" /\ IsPartOfEntry(p, n.pairs[i][1], n.pairs[i][2])
        BY <3>12, <4>2 DEF At
      <4>4. e.file = n.pairs[i][2].text
        BY <4>1, <4>3 DEF IsPartOfEntry
      <4> QED BY <4>2, <4>4
    <3>19. At(n, "scope") = {} => e.vis = IF level = "org" THEN "all" ELSE "repo"
      BY <3>6, <3>9, <3>10
    <3>20. ASSUME At(n, "scope") # {}
           PROVE  level = "org" /\ \E i \in At(n, "scope") : e.vis = n.pairs[i][2].text
      <4>0. PICK i \in 1..size : \E p \in parts[i] : "vis" \in DOMAIN p /\ e["vis"] = p["vis"]
        BY <3>6, <3>11, <3>20
      <4>1. PICK p \in parts[i] : "vis" \in DOMAIN p /\ e["vis"] = p["vis"]
        BY <4>0
      <4>2. i \in At(n, "scope")
        BY <1>1, <3>12, <4>1 DEF IsPartOfEntry, At
      <4>3. n.pairs[i][1] = "scope" /\ IsPartOfEntry(p, n.pairs[i][1], n.pairs[i][2])
        BY <3>12, <4>2 DEF At
      <4>4. e.vis = n.pairs[i][2].text
        BY <4>1, <4>3 DEF IsPartOfEntry
      <4>5. IsEntryKey(level, n.pairs[i][1], n.pairs[i][2])
        BY <2>2, <3>1
      <4>6. level = "org"
        BY <4>3, <4>5 DEF IsEntryKey
      <4> QED BY <4>2, <4>4, <4>6
    <3>21. At(n, "repos") = {} => e.repos = <<>>
      BY <3>7, <3>9, <3>10
    <3>22. ASSUME At(n, "repos") # {}
           PROVE  level = "org" /\ \E i \in At(n, "repos") : e.repos \in DecodeStringList(n.pairs[i][2])
      <4>0. PICK i \in 1..size : \E p \in parts[i] : "repos" \in DOMAIN p /\ e["repos"] = p["repos"]
        BY <3>7, <3>11, <3>22
      <4>1. PICK p \in parts[i] : "repos" \in DOMAIN p /\ e["repos"] = p["repos"]
        BY <4>0
      <4>2. i \in At(n, "repos")
        BY <1>1, <3>12, <4>1 DEF IsPartOfEntry, At
      <4>3. n.pairs[i][1] = "repos" /\ IsPartOfEntry(p, n.pairs[i][1], n.pairs[i][2])
        BY <3>12, <4>2 DEF At
      <4>4. e.repos \in DecodeStringList(n.pairs[i][2])
        BY <4>1, <4>3 DEF IsPartOfEntry
      <4>5. IsEntryKey(level, n.pairs[i][1], n.pairs[i][2])
        BY <2>2, <3>1
      <4>6. level = "org"
        BY <4>3, <4>5 DEF IsEntryKey
      <4> QED BY <4>2, <4>4, <4>6
    <3>23. ASSUME e.file # "" PROVE \E i \in At(n, "file") : e.fileAbs = AbsPath(n.pairs[i][2].text)
      <4>1. Says(parts, 1..size, "fileAbs") # {}
        BY <3>18, <3>17, <3>8, <3>23
      <4>0. PICK i \in 1..size : \E p \in parts[i] : "fileAbs" \in DOMAIN p /\ e["fileAbs"] = p["fileAbs"]
        BY <3>11, <4>1
      <4>2. PICK p \in parts[i] : "fileAbs" \in DOMAIN p /\ e["fileAbs"] = p["fileAbs"]
        BY <4>0
      <4>3. i \in At(n, "file") /\ n.pairs[i][1] = "file" /\ n.pairs[i][2].text # ""
        BY <1>1, <3>12, <4>2 DEF IsPartOfEntry, At
      <4>4. e.fileAbs = AbsPath(n.pairs[i][2].text)
        BY <3>12, <4>2, <4>3 DEF IsPartOfEntry
      <4> QED BY <4>3, <4>4
    <3> QED BY <3>13, <3>14, <3>15, <3>16, <3>17, <3>18, <3>19, <3>20, <3>21, <3>22, <3>23 DEF ComesFrom
  <2>5. RawEntry(level, n) # {} <=>
          \A i \in DOMAIN n.pairs : IsEntryKey(level, n.pairs[i][1], n.pairs[i][2])
    BY <1>1, <2>1, <2>2, <2>3
  <2> QED BY <1>4, <1>7, <2>1, <2>3, <2>4, <2>5
<1> QED BY <1>6, <1>7

\* The sources an entry has.
SourcesOf(e) == {s \in {"value", "env", "file"} : IF s = "value" THEN e.hasValue ELSE e[s] # ""}

\* validSources.
LEMMA OneSource ==
  ASSUME NEW e
  PROVE  ValidSources(e) <=> \E s \in {"value", "env", "file"} : SourcesOf(e) = {s}
<1>1. IsFiniteSet({"value", "env", "file"})
  <2>1. IsFiniteSet({"value"})
    BY FS_Singleton
  <2>2. IsFiniteSet({"value"} \cup {"env"})
    BY <2>1, FS_AddElement
  <2>3. IsFiniteSet(({"value"} \cup {"env"}) \cup {"file"})
    BY <2>2, FS_AddElement
  <2>4. ({"value"} \cup {"env"}) \cup {"file"} = {"value", "env", "file"}
    OBVIOUS
  <2> QED BY <2>3, <2>4
<1>2. SourcesOf(e) \subseteq {"value", "env", "file"}
  BY DEF SourcesOf
<1>3. IsFiniteSet(SourcesOf(e))
  BY <1>1, <1>2, FS_Subset
<1>4. ValidSources(e) <=> Cardinality(SourcesOf(e)) = 1
  BY DEF ValidSources, SourcesOf
<1> QED BY <1>2, <1>3, <1>4, FS_Singleton

\* The visibilities an entry of a level can have.
VisibilitiesOf(level) == IF level = "org" THEN Visibilities ELSE {"repo"}

\* An entry that was accepted resolves to an entry of the plan.
LEMMA EntrySettles ==
  ASSUME NEW level \in Levels, NEW n \in Nodes, NEW e \in DecodeEntry(level, n)
  PROVE  SettledEntry(e) \in Entry(VisibilitiesOf(level))
<1>1. /\ ComesFrom(level, n, e)
      /\ ValidSources(e)
      /\ level = "org" => ValidVisibility(e)
  BY EntryDecoded
<1>2. ASSUME NEW key, NEW i \in At(n, key)
      PROVE  n.pairs[i][2] \in Nodes /\ n.pairs[i][2].text \in Texts
  BY Inside DEF At
<1>3. Texts \subseteq Values /\ Texts \subseteq RepoNames
  BY TextsAssumption
<1>4. Resolve(e) \in Values \cup {Unset}
  <2>1. PICK s \in {"value", "env", "file"} : SourcesOf(e) = {s}
    BY <1>1, OneSource
  <2>2. CASE e.hasValue
    <3>1. e.value \in Texts
      BY <1>1, <1>2, <2>2 DEF ComesFrom
    <3> QED BY <1>3, <2>2, <3>1 DEF Resolve
  <2>3. CASE ~e.hasValue /\ e.file # ""
    <3>1. PICK i \in At(n, "file") : e.fileAbs = AbsPath(n.pairs[i][2].text)
      BY <1>1, <2>3 DEF ComesFrom
    <3>2. e.fileAbs \in {BaseDir, "/"} \X Texts
      BY <1>2, <3>1 DEF AbsPath
    <3>3. Files[e.fileAbs] \in Values \cup {Unset}
      BY <3>2, SourcesAssumption
    <3> QED BY <2>3, <3>3 DEF Resolve
  <2>4. CASE ~e.hasValue /\ e.file = ""
    <3>1. e.env # ""
      BY <2>1, <2>4 DEF SourcesOf
    <3>2. e.env \in Texts
      BY <1>1, <1>2, <3>1 DEF ComesFrom
    <3>3. Environment[e.env] \in Values \cup {Unset}
      BY <3>2, SourcesAssumption
    <3> QED BY <2>4, <3>3 DEF Resolve
  <2> QED BY <2>2, <2>3, <2>4
<1>5. e.repos \in Seq(Texts)
  <2>1. CASE At(n, "repos") = {}
    <3>1. e.repos = <<>>
      BY <1>1, <2>1 DEF ComesFrom
    <3>2. <<>> \in Seq(Texts)
      OBVIOUS
    <3> QED BY <3>1, <3>2
  <2>2. CASE At(n, "repos") # {}
    BY <1>1, <1>2, <2>2, TextLists DEF ComesFrom
  <2> QED BY <2>1, <2>2
<1>6. Range(e.repos) \subseteq RepoNames /\ (Range(e.repos) = {} <=> e.repos = <<>>)
  <2>1. \A i \in DOMAIN e.repos : e.repos[i] \in Texts
    BY <1>5
  <2>2. DOMAIN e.repos = 1..Len(e.repos) /\ Len(e.repos) \in Nat
    BY <1>5
  <2>3. e.repos = <<>> <=> Len(e.repos) = 0
    BY <1>5
  <2>4. e.repos # <<>> => 1 \in DOMAIN e.repos
    BY <2>2, <2>3
  <2>5. e.repos = <<>> => DOMAIN e.repos = {}
    BY <2>2, <2>3
  <2> QED BY <1>3, <2>1, <2>4, <2>5 DEF Range
<1>7. e.vis \in VisibilitiesOf(level) /\ (e.vis = "selected" <=> e.repos # <<>>)
  <2>1. CASE level = "org"
    BY <1>1, <2>1 DEF ValidVisibility, VisibilitiesOf
  <2>2. CASE level = "repo"
    <3>1. At(n, "scope") = {} /\ At(n, "repos") = {}
      BY <1>1, <2>2 DEF ComesFrom
    <3>2. e.vis = "repo" /\ e.repos = <<>>
      BY <1>1, <2>2, <3>1 DEF ComesFrom
    <3> QED BY <2>2, <3>2 DEF VisibilitiesOf
  <2> QED BY <2>1, <2>2 DEF Levels
<1>8. SettledEntry(e) = [val |-> Resolve(e), vis |-> e.vis, repos |-> Range(e.repos)]
  BY DEF SettledEntry
<1> QED BY <1>4, <1>6, <1>7, <1>8 DEF Entry

\* What a keyed decoder does with a node: it refuses what is no mapping.
Decodes(D, n, zero, keyOf, results) ==
  /\ n.kind # "mapping" => D = {}
  /\ n.kind = "mapping" => Joins(D, zero, keyOf, results, DOMAIN n.pairs)

\* The keys of a mapping, by their place.
KeyAt(n) == [i \in DOMAIN n.pairs |-> n.pairs[i][1]]

\* The results that decodeEntries collects, by their place.
EntriesAt(level, n) == [i \in DOMAIN n.pairs |-> DecodeEntry(level, n.pairs[i][2])]

\* decodeEntries and decodeOrgEntries: a map by name.
LEMMA EntriesDecoded ==
  ASSUME NEW level \in Levels, NEW n \in Nodes
  PROVE  Decodes(DecodeEntries(level, n), n, Nothing, KeyAt(n), EntriesAt(level, n))
<1> DEFINE keyOf == KeyAt(n)
           results == EntriesAt(level, n)
           D == DecodeEntries(level, n)
<1>1. ASSUME NEW i \in DOMAIN n.pairs PROVE \A p, q \in results[i] : p = q
  <2>1. n.pairs[i][2] \in Nodes /\ results[i] = DecodeEntry(level, n.pairs[i][2])
    BY Inside DEF EntriesAt
  <2> HIDE DEF results
  <2> QED BY <2>1, EntryDecoded
<1> DEFINE parts == [i \in DOMAIN n.pairs |->
                      As(n.pairs[i][1], DecodeEntry(level, n.pairs[i][2]))]
<1>2. ASSUME NEW i \in DOMAIN n.pairs PROVE parts[i] = As(keyOf[i], results[i])
  <2>1. As(keyOf[i], {}) = {}
    BY DEF As
  <2> QED BY <2>1 DEF KeyAt, EntriesAt
<1>3. D = IF n.kind # "mapping" THEN {} ELSE Collect(Nothing, parts)
  BY DEF DecodeEntries, Decode, Refused
<1>4. IsFunctionOn(parts, DOMAIN n.pairs)
  BY DEF IsFunctionOn
<1> HIDE DEF keyOf, results, parts, D
<1>5. Decodes(D, n, Nothing, keyOf, results)
  <2>1. Gives(parts, keyOf, results, DOMAIN n.pairs)
    BY <1>1, <1>2, <1>4 DEF Gives
  <2>2. Len(n.pairs) \in Nat /\ DOMAIN n.pairs = 1..Len(n.pairs)
    BY Inside
  <2> QED BY <1>3, <2>1, <2>2, Keyed DEF Decodes
<1> QED BY <1>5 DEF keyOf, results, D

\* The results that decodeManaged collects, by their place.
ManagedAt(level, n) ==
  [i \in DOMAIN n.pairs |-> IF n.pairs[i][1] \in Kinds THEN DecodeEntries(level, n.pairs[i][2]) ELSE {}]

\* decodeManaged and decodeOrgManaged: the entries by kind.
LEMMA ManagedDecoded ==
  ASSUME NEW level \in Levels, NEW n \in Nodes
  PROVE  Decodes(DecodeManaged(level, n), n, NoEntries, KeyAt(n), ManagedAt(level, n))
<1> DEFINE keyOf == KeyAt(n)
           results == ManagedAt(level, n)
           D == DecodeManaged(level, n)
<1>1. ASSUME NEW i \in DOMAIN n.pairs PROVE \A p, q \in results[i] : p = q
  <2>1. n.pairs[i][2] \in Nodes
    BY Inside
  <2>2. results[i] \in {{}, DecodeEntries(level, n.pairs[i][2])}
    BY DEF ManagedAt
  <2>3. \A p, q \in DecodeEntries(level, n.pairs[i][2]) : p = q
    BY <2>1, EntriesDecoded DEF Decodes, Joins
  <2> HIDE DEF results
  <2> QED BY <2>2, <2>3
<1> DEFINE parts == [i \in DOMAIN n.pairs |->
                      IF n.pairs[i][1] \in Kinds THEN As(n.pairs[i][1], DecodeEntries(level, n.pairs[i][2])) ELSE {}]
<1>2. ASSUME NEW i \in DOMAIN n.pairs PROVE parts[i] = As(keyOf[i], results[i])
  <2>1. As(keyOf[i], {}) = {}
    BY DEF As
  <2> QED BY <2>1 DEF KeyAt, ManagedAt
<1>3. D = IF n.kind # "mapping" THEN {} ELSE Collect(NoEntries, parts)
  BY DEF DecodeManaged, Decode, Refused
<1>4. IsFunctionOn(parts, DOMAIN n.pairs)
  BY DEF IsFunctionOn
<1> HIDE DEF keyOf, results, parts, D
<1>5. Decodes(D, n, NoEntries, keyOf, results)
  <2>1. Gives(parts, keyOf, results, DOMAIN n.pairs)
    BY <1>1, <1>2, <1>4 DEF Gives
  <2>2. Len(n.pairs) \in Nat /\ DOMAIN n.pairs = 1..Len(n.pairs)
    BY Inside
  <2> QED BY <1>3, <2>1, <2>2, Keyed DEF Decodes
<1> QED BY <1>5 DEF keyOf, results, D

\* The results that decodeIgnored collects, by their place.
ListsAt(n) ==
  [i \in DOMAIN n.pairs |-> IF n.pairs[i][1] \in Kinds THEN DecodeStringList(n.pairs[i][2]) ELSE {}]

\* decodeIgnored: the lists by kind.
LEMMA IgnoredDecoded ==
  ASSUME NEW n \in Nodes
  PROVE  Decodes(DecodeIgnored(n), n, NoLists, KeyAt(n), ListsAt(n))
<1> DEFINE keyOf == KeyAt(n)
           results == ListsAt(n)
           D == DecodeIgnored(n)
<1>1. ASSUME NEW i \in DOMAIN n.pairs PROVE \A p, q \in results[i] : p = q
  <2>1. n.pairs[i][2] \in Nodes
    BY Inside
  <2>2. results[i] \in {{}, DecodeStringList(n.pairs[i][2])}
    BY DEF ListsAt
  <2> HIDE DEF results
  <2> QED BY <2>1, <2>2, TextLists
<1> DEFINE parts == [i \in DOMAIN n.pairs |->
                      IF n.pairs[i][1] \in Kinds THEN As(n.pairs[i][1], DecodeStringList(n.pairs[i][2])) ELSE {}]
<1>2. ASSUME NEW i \in DOMAIN n.pairs PROVE parts[i] = As(keyOf[i], results[i])
  <2>1. As(keyOf[i], {}) = {}
    BY DEF As
  <2> QED BY <2>1 DEF KeyAt, ListsAt
<1>3. D = IF n.kind # "mapping" THEN {} ELSE Collect(NoLists, parts)
  BY DEF DecodeIgnored, Decode, Refused
<1>4. IsFunctionOn(parts, DOMAIN n.pairs)
  BY DEF IsFunctionOn
<1> HIDE DEF keyOf, results, parts, D
<1>5. Decodes(D, n, NoLists, keyOf, results)
  <2>1. Gives(parts, keyOf, results, DOMAIN n.pairs)
    BY <1>1, <1>2, <1>4 DEF Gives
  <2>2. Len(n.pairs) \in Nat /\ DOMAIN n.pairs = 1..Len(n.pairs)
    BY Inside
  <2> QED BY <1>3, <2>1, <2>2, Keyed DEF Decodes
<1> QED BY <1>5 DEF keyOf, results, D

\* A block before it is validated.
BlockAt(level, n) ==
  [i \in DOMAIN n.pairs |-> CASE n.pairs[i][1] = "managed" -> DecodeManaged(level, n.pairs[i][2])
                              [] n.pairs[i][1] = "ignored" -> DecodeIgnored(n.pairs[i][2])
                              [] OTHER -> {}]

\* The block a decoder starts from, and a block before it is validated.
NoBlock == [managed |-> NoEntries, ignored |-> NoLists]

RawBlock(level, n) ==
  IF n.kind # "mapping" THEN {}
  ELSE Collect(NoBlock, [i \in DOMAIN n.pairs |-> BlockPart(level, n.pairs[i][1], n.pairs[i][2])])

\* decodeRepo and decodeOrgScope: two parts, validated together.
LEMMA BlockDecoded ==
  ASSUME NEW level \in Levels, NEW n \in Nodes
  PROVE  /\ DecodeBlock(level, n) = {b \in RawBlock(level, n) : NoConflict(b)}
         /\ Decodes(RawBlock(level, n), n, NoBlock, KeyAt(n), BlockAt(level, n))
         /\ \A b, c \in DecodeBlock(level, n) : b = c
<1> DEFINE keyOf == KeyAt(n)
           results == BlockAt(level, n)
           D == RawBlock(level, n)
           parts == [i \in DOMAIN n.pairs |-> BlockPart(level, n.pairs[i][1], n.pairs[i][2])]
<1>0. DecodeBlock(level, n) = {b \in RawBlock(level, n) : NoConflict(b)}
  BY DEF DecodeBlock, Decode, RawBlock, NoBlock, Refused
<1>1. ASSUME NEW i \in DOMAIN n.pairs PROVE \A p, q \in results[i] : p = q
  <2>1. n.pairs[i][2] \in Nodes
    BY Inside
  <2>2. results[i] \in {{}, DecodeManaged(level, n.pairs[i][2]), DecodeIgnored(n.pairs[i][2])}
    BY DEF BlockAt
  <2>3. \A p, q \in DecodeManaged(level, n.pairs[i][2]) : p = q
    BY <2>1, ManagedDecoded DEF Decodes, Joins
  <2>4. \A p, q \in DecodeIgnored(n.pairs[i][2]) : p = q
    BY <2>1, IgnoredDecoded DEF Decodes, Joins
  <2> HIDE DEF results
  <2> QED BY <2>2, <2>3, <2>4
<1>2. ASSUME NEW i \in DOMAIN n.pairs PROVE parts[i] = As(keyOf[i], results[i])
  <2>1. As(keyOf[i], {}) = {}
    BY DEF As
  <2>2. parts[i] = BlockPart(level, n.pairs[i][1], n.pairs[i][2]) /\ keyOf[i] = n.pairs[i][1]
    BY DEF KeyAt
  <2>3. CASE n.pairs[i][1] = "managed"
    BY <2>2, <2>3 DEF BlockAt, BlockPart
  <2>4. CASE n.pairs[i][1] = "ignored"
    BY <2>2, <2>4 DEF BlockAt, BlockPart
  <2>5. CASE n.pairs[i][1] \notin {"managed", "ignored"}
    BY <2>1, <2>2, <2>5 DEF BlockAt, BlockPart, Refused
  <2> QED BY <2>3, <2>4, <2>5
<1>3. D = IF n.kind # "mapping" THEN {} ELSE Collect(NoBlock, parts)
  BY DEF RawBlock
<1>4. IsFunctionOn(parts, DOMAIN n.pairs)
  BY DEF IsFunctionOn
<1> HIDE DEF keyOf, results, parts, D
<1>5. Decodes(D, n, NoBlock, keyOf, results)
  <2>1. Gives(parts, keyOf, results, DOMAIN n.pairs)
    BY <1>1, <1>2, <1>4 DEF Gives
  <2>2. Len(n.pairs) \in Nat /\ DOMAIN n.pairs = 1..Len(n.pairs)
    BY Inside
  <2> QED BY <1>3, <2>1, <2>2, Keyed DEF Decodes
<1>6. \A b, c \in D : b = c
  BY <1>5 DEF Decodes, Joins
<1> QED BY <1>0, <1>5, <1>6 DEF keyOf, results, D

\* The section `per-repo` of an owner.
ReposAt(n)    == [i \in DOMAIN n.pairs |-> DecodeBlock("repo", n.pairs[i][2])]
RepoKeysAt(n) == [i \in DOMAIN n.pairs |-> <<"per-repo", n.pairs[i][1]>>]

DecodeRepos(n) ==
  IF n.kind # "mapping" THEN {}
  ELSE Collect(Nothing, [i \in DOMAIN n.pairs |->
                           As(<<"per-repo", n.pairs[i][1]>>, DecodeBlock("repo", n.pairs[i][2]))])

\* The section `per-repo` of an owner: a block by repository.
LEMMA ReposDecoded ==
  ASSUME NEW n \in Nodes
  PROVE  /\ Decodes(DecodeRepos(n), n, Nothing, RepoKeysAt(n), ReposAt(n))
         /\ OwnerPart("per-repo", n) = DecodeRepos(n)
<1> DEFINE keyOf == RepoKeysAt(n)
           results == ReposAt(n)
           D == DecodeRepos(n)
           parts == [i \in DOMAIN n.pairs |->
                       As(<<"per-repo", n.pairs[i][1]>>, DecodeBlock("repo", n.pairs[i][2]))]
<1>0. OwnerPart("per-repo", n) = DecodeRepos(n)
  BY DEF OwnerPart, Decode, DecodeRepos, Refused
<1>1. ASSUME NEW i \in DOMAIN n.pairs PROVE \A p, q \in results[i] : p = q
  <2>1. n.pairs[i][2] \in Nodes /\ results[i] = DecodeBlock("repo", n.pairs[i][2])
    BY Inside DEF ReposAt
  <2> HIDE DEF results
  <2> QED BY <2>1, BlockDecoded DEF Levels
<1>2. ASSUME NEW i \in DOMAIN n.pairs PROVE parts[i] = As(keyOf[i], results[i])
  BY DEF RepoKeysAt, ReposAt
<1>3. D = IF n.kind # "mapping" THEN {} ELSE Collect(Nothing, parts)
  BY DEF DecodeRepos
<1>4. IsFunctionOn(parts, DOMAIN n.pairs)
  BY DEF IsFunctionOn
<1> HIDE DEF keyOf, results, parts, D
<1>5. Decodes(D, n, Nothing, keyOf, results)
  <2>1. Gives(parts, keyOf, results, DOMAIN n.pairs)
    BY <1>1, <1>2, <1>4 DEF Gives
  <2>2. Len(n.pairs) \in Nat /\ DOMAIN n.pairs = 1..Len(n.pairs)
    BY Inside
  <2> QED BY <1>3, <2>1, <2>2, Keyed DEF Decodes
<1> QED BY <1>0, <1>5 DEF keyOf, results, D

\* How the block of a layer is decoded.
LevelOf(layer) == IF layer = "org" THEN "org" ELSE "repo"

\* What one key gives an owner.
IsPartOfOwner(p, key, v) ==
  /\ \A layer \in {"org", "all-repos"} :
       /\ <<layer, "">> \in DOMAIN p <=> key = layer
       /\ key = layer => p[<<layer, "">>] \in DecodeBlock(LevelOf(layer), v)
  /\ \A r :
       /\ <<"per-repo", r>> \in DOMAIN p <=> key = "per-repo" /\ At(v, r) # {}
       /\ key = "per-repo" /\ At(v, r) # {} =>
            \E j \in At(v, r) : p[<<"per-repo", r>>] \in DecodeBlock("repo", v.pairs[j][2])

\* decodeOrg, one key.
LEMMA OwnerParts ==
  ASSUME NEW key, NEW v \in Nodes
  PROVE  /\ OwnerPart(key, v) # {} <=>
              \/ key \in {"org", "all-repos"} /\ DecodeBlock(LevelOf(key), v) # {}
              \/ key = "per-repo" /\ DecodeRepos(v) # {}
         /\ \A p, q \in OwnerPart(key, v) : p = q
         /\ \A p \in OwnerPart(key, v) : IsPartOfOwner(p, key, v)
<1> DEFINE P == OwnerPart(key, v)
<1>1. CASE key \in {"org", "all-repos"}
  <2> DEFINE B == DecodeBlock(LevelOf(key), v)
  <2>1. P = As(<<key, "">>, B)
    BY <1>1 DEF OwnerPart, LevelOf
  <2>2. \A b, c \in B : b = c
    BY BlockDecoded DEF Levels, LevelOf
  <2> HIDE DEF B
  <2>3. P # {} <=> B # {}
    <3>1. \A b \in B : [x \in {<<key, "">>} |-> b] \in P
      BY <2>1 DEF As
    <3>2. \A p \in P : \E b \in B : TRUE
      BY <2>1 DEF As
    <3> QED BY <3>1, <3>2
  <2>4. \A p, q \in P : p = q
    BY <2>1, <2>2 DEF As
  <2>5. ASSUME NEW p \in P PROVE IsPartOfOwner(p, key, v)
    <3>1. \A x : (x \in DOMAIN p <=> x = <<key, "">>) /\ (x = <<key, "">> => p[x] \in B)
      <4> DEFINE at == <<key, "">>
      <4>1. p \in As(at, B)
        BY <2>1
      <4> HIDE DEF at
      <4>2. \A x : (x \in DOMAIN p <=> x = at) /\ (x = at => p[x] \in B)
        BY <4>1, PartOf
      <4> QED BY <4>2 DEF at
    <3>2. ASSUME NEW layer \in {"org", "all-repos"}
          PROVE  /\ <<layer, "">> \in DOMAIN p <=> key = layer
                 /\ key = layer => p[<<layer, "">>] \in DecodeBlock(LevelOf(layer), v)
      <4>1. <<layer, "">> = <<key, "">> <=> layer = key
        OBVIOUS
      <4> QED BY <3>1, <4>1 DEF B
    <3>3. ASSUME NEW r PROVE <<"per-repo", r>> \notin DOMAIN p /\ key # "per-repo"
      <4>1. <<"per-repo", r>> # <<key, "">>
        BY <1>1
      <4> QED BY <1>1, <3>1, <4>1
    <3> QED BY <3>2, <3>3 DEF IsPartOfOwner
  <2> QED BY <1>1, <2>3, <2>4, <2>5 DEF B
<1>2. CASE key = "per-repo"
  <2>1. P = DecodeRepos(v) /\ Decodes(DecodeRepos(v), v, Nothing, RepoKeysAt(v), ReposAt(v))
    BY <1>2, ReposDecoded
  <2>2. \A p, q \in P : p = q
    BY <2>1 DEF Decodes, Joins
  <2>3. ASSUME NEW p \in P PROVE IsPartOfOwner(p, key, v)
    <3>1. IsKeyed(p, Nothing, RepoKeysAt(v), ReposAt(v), DOMAIN v.pairs)
      BY <2>1 DEF Decodes, Joins
    <3>2. DOMAIN Nothing = {}
      BY DEF Nothing
    <3>3. \A i \in DOMAIN v.pairs :
            RepoKeysAt(v)[i] = <<"per-repo", v.pairs[i][1]>> /\ ReposAt(v)[i] = DecodeBlock("repo", v.pairs[i][2])
      BY DEF RepoKeysAt, ReposAt
    <3>4. /\ \A x : x \in DOMAIN p <=> \E i \in DOMAIN v.pairs : RepoKeysAt(v)[i] = x
          /\ \A x : (\E i \in DOMAIN v.pairs : RepoKeysAt(v)[i] = x) =>
               \E i \in DOMAIN v.pairs : RepoKeysAt(v)[i] = x /\ p[x] \in ReposAt(v)[i]
      BY <3>1, <3>2 DEF IsKeyed
    <3>5. ASSUME NEW layer \in {"org", "all-repos"} PROVE <<layer, "">> \notin DOMAIN p /\ key # layer
      <4>1. \A i \in DOMAIN v.pairs : <<"per-repo", v.pairs[i][1]>> # <<layer, "">>
        OBVIOUS
      <4>2. \A i \in DOMAIN v.pairs : RepoKeysAt(v)[i] # <<layer, "">>
        BY <3>3, <4>1
      <4>3. <<layer, "">> \notin DOMAIN p
        BY <3>4, <4>2
      <4> QED BY <1>2, <4>3
    <3>6. ASSUME NEW r, NEW i \in DOMAIN v.pairs
          PROVE  RepoKeysAt(v)[i] = <<"per-repo", r>> <=> i \in At(v, r)
      BY <3>3 DEF At
    <3>7. ASSUME NEW r
          PROVE  /\ <<"per-repo", r>> \in DOMAIN p <=> At(v, r) # {}
                 /\ At(v, r) # {} =>
                      \E j \in At(v, r) : p[<<"per-repo", r>>] \in DecodeBlock("repo", v.pairs[j][2])
      <4>1. At(v, r) \subseteq DOMAIN v.pairs
        BY DEF At
      <4>2. <<"per-repo", r>> \in DOMAIN p <=> At(v, r) # {}
        BY <3>4, <3>6, <4>1
      <4>3. ASSUME At(v, r) # {}
            PROVE  \E j \in At(v, r) : p[<<"per-repo", r>>] \in DecodeBlock("repo", v.pairs[j][2])
        <5>1. PICK i \in DOMAIN v.pairs :
                RepoKeysAt(v)[i] = <<"per-repo", r>> /\ p[<<"per-repo", r>>] \in ReposAt(v)[i]
          BY <3>4, <3>6, <4>1, <4>3
        <5> QED BY <3>3, <3>6, <5>1
      <4> QED BY <4>2, <4>3
    <3> QED BY <1>2, <3>5, <3>7 DEF IsPartOfOwner
  <2> QED BY <1>2, <2>1, <2>2, <2>3
<1>3. CASE key \notin {"org", "all-repos", "per-repo"}
  <2>1. P = {}
    BY <1>3 DEF OwnerPart, Refused
  <2> QED BY <1>3, <2>1
<1> QED BY <1>1, <1>2, <1>3

\* The blocks of an owner come from its keys.
HasBlocks(o, n) ==
  /\ \A layer \in {"org", "all-repos"} :
       /\ <<layer, "">> \in DOMAIN o <=> At(n, layer) # {}
       /\ At(n, layer) # {} =>
            \E i \in At(n, layer) : o[<<layer, "">>] \in DecodeBlock(LevelOf(layer), n.pairs[i][2])
  /\ \A r :
       /\ <<"per-repo", r>> \in DOMAIN o <=> \E i \in At(n, "per-repo") : At(n.pairs[i][2], r) # {}
       /\ <<"per-repo", r>> \in DOMAIN o =>
            \E i \in At(n, "per-repo") : \E j \in At(n.pairs[i][2], r) :
               o[<<"per-repo", r>>] \in DecodeBlock("repo", n.pairs[i][2].pairs[j][2])

\* decodeOrg.
LEMMA OwnerDecoded ==
  ASSUME NEW n \in Nodes
  PROVE  /\ DecodeOrg(n) # {} <=>
              n.kind = "mapping" /\ \A i \in DOMAIN n.pairs : OwnerPart(n.pairs[i][1], n.pairs[i][2]) # {}
         /\ \A o \in DecodeOrg(n) : HasBlocks(o, n)
         /\ \A o, p \in DecodeOrg(n) : o = p
<1> DEFINE parts == [i \in DOMAIN n.pairs |-> OwnerPart(n.pairs[i][1], n.pairs[i][2])]
           size == Len(n.pairs)
<1>1. size \in Nat /\ DOMAIN n.pairs = 1..size
  BY Inside
<1>2. \A i \in 1..size : n.pairs[i][1] \in Texts /\ n.pairs[i][2] \in Nodes
  BY <1>1, Inside
<1>3. \A i \in 1..size : parts[i] = OwnerPart(n.pairs[i][1], n.pairs[i][2])
  BY <1>1
<1>4. DecodeOrg(n) = IF n.kind # "mapping" THEN {} ELSE Collect(Nothing, parts)
  BY DEF DecodeOrg, Decode, Refused
<1>5. Len(parts) = size
  <2>1. IsFunctionOn(parts, 1..size)
    BY <1>1 DEF IsFunctionOn
  <2> HIDE DEF parts, size
  <2> QED BY <1>1, <2>1, LengthOf
<1> HIDE DEF parts, size
<1>6. CASE n.kind # "mapping"
  BY <1>4, <1>6
<1>7. CASE n.kind = "mapping"
  <2>1. DecodeOrg(n) = Collect(Nothing, parts)
    BY <1>4, <1>7
  <2>2. ASSUME NEW i \in 1..size
        PROVE  /\ \A p, q \in parts[i] : p = q
               /\ \A p \in parts[i] : IsPartOfOwner(p, n.pairs[i][1], n.pairs[i][2])
    BY <1>2, <1>3, OwnerParts
  <2>3. /\ Collect(Nothing, parts) # {} <=> \A i \in 1..size : parts[i] # {}
        /\ \A g \in Collect(Nothing, parts) : IsCollected(g, Nothing, parts, 1..size)
        /\ \A g, h \in Collect(Nothing, parts) : g = h
    BY <1>1, <1>5, <2>2, Collected
  <2>4. ASSUME NEW o \in Collect(Nothing, parts) PROVE HasBlocks(o, n)
    <3>0. IsCollected(o, Nothing, parts, 1..size) /\ \A i \in 1..size : parts[i] # {}
      BY <2>3
    <3>1. DOMAIN Nothing = {}
      BY DEF Nothing
    <3>2. /\ \A x : x \in DOMAIN o <=> Says(parts, 1..size, x) # {}
          /\ \A x : Says(parts, 1..size, x) # {} =>
               \E i \in 1..size : \E p \in parts[i] : x \in DOMAIN p /\ o[x] = p[x]
      BY <3>0, <3>1 DEF IsCollected
    <3>3. ASSUME NEW layer \in {"org", "all-repos"}
          PROVE  /\ <<layer, "">> \in DOMAIN o <=> At(n, layer) # {}
                 /\ At(n, layer) # {} =>
                      \E i \in At(n, layer) : o[<<layer, "">>] \in DecodeBlock(LevelOf(layer), n.pairs[i][2])
      <4>1. ASSUME NEW i \in 1..size, NEW p \in parts[i]
            PROVE  /\ <<layer, "">> \in DOMAIN p <=> n.pairs[i][1] = layer
                   /\ n.pairs[i][1] = layer => p[<<layer, "">>] \in DecodeBlock(LevelOf(layer), n.pairs[i][2])
        BY <2>2 DEF IsPartOfOwner
      <4>2. ASSUME NEW i \in 1..size
            PROVE  (\E p \in parts[i] : <<layer, "">> \in DOMAIN p) <=> n.pairs[i][1] = layer
        BY <3>0, <4>1
      <4>3. Says(parts, 1..size, <<layer, "">>) = At(n, layer)
        BY <1>1, <4>2 DEF Says, At
      <4>4. ASSUME At(n, layer) # {}
            PROVE  \E i \in At(n, layer) : o[<<layer, "">>] \in DecodeBlock(LevelOf(layer), n.pairs[i][2])
        <5>1. PICK i \in 1..size : \E p \in parts[i] : <<layer, "">> \in DOMAIN p /\ o[<<layer, "">>] = p[<<layer, "">>]
          BY <3>2, <4>3, <4>4
        <5>2. n.pairs[i][1] = layer /\ o[<<layer, "">>] \in DecodeBlock(LevelOf(layer), n.pairs[i][2])
          BY <4>1, <5>1
        <5> QED BY <1>1, <5>2 DEF At
      <4> QED BY <3>2, <4>3, <4>4
    <3>4. ASSUME NEW r
          PROVE  /\ <<"per-repo", r>> \in DOMAIN o <=> \E i \in At(n, "per-repo") : At(n.pairs[i][2], r) # {}
                 /\ <<"per-repo", r>> \in DOMAIN o =>
                      \E i \in At(n, "per-repo") : \E j \in At(n.pairs[i][2], r) :
                         o[<<"per-repo", r>>] \in DecodeBlock("repo", n.pairs[i][2].pairs[j][2])
      <4> DEFINE x == <<"per-repo", r>>
      <4>1. ASSUME NEW i \in 1..size, NEW p \in parts[i]
            PROVE  /\ x \in DOMAIN p <=> n.pairs[i][1] = "per-repo" /\ At(n.pairs[i][2], r) # {}
                   /\ x \in DOMAIN p =>
                        \E j \in At(n.pairs[i][2], r) : p[x] \in DecodeBlock("repo", n.pairs[i][2].pairs[j][2])
        BY <2>2 DEF IsPartOfOwner
      <4> HIDE DEF x
      <4>2. ASSUME NEW i \in 1..size
            PROVE  (\E p \in parts[i] : x \in DOMAIN p) <=> n.pairs[i][1] = "per-repo" /\ At(n.pairs[i][2], r) # {}
        BY <3>0, <4>1
      <4>3. Says(parts, 1..size, x) = {i \in At(n, "per-repo") : At(n.pairs[i][2], r) # {}}
        <5>1. \A i : i \in At(n, "per-repo") <=> i \in 1..size /\ n.pairs[i][1] = "per-repo"
          BY <1>1 DEF At
        <5> QED BY <4>2, <5>1 DEF Says
      <4>4. ASSUME x \in DOMAIN o
            PROVE  \E i \in At(n, "per-repo") : \E j \in At(n.pairs[i][2], r) :
                      o[x] \in DecodeBlock("repo", n.pairs[i][2].pairs[j][2])
        <5>1. PICK i \in 1..size : \E p \in parts[i] : x \in DOMAIN p /\ o[x] = p[x]
          BY <3>2, <4>4
        <5>2. PICK p \in parts[i] : x \in DOMAIN p /\ o[x] = p[x]
          BY <5>1
        <5>3. i \in At(n, "per-repo")
          BY <1>1, <4>1, <5>2 DEF At
        <5> QED BY <4>1, <5>2, <5>3
      <4>5. x \in DOMAIN o <=> \E i \in At(n, "per-repo") : At(n.pairs[i][2], r) # {}
        BY <3>2, <4>3
      <4> QED BY <4>4, <4>5 DEF x
    <3> QED BY <3>3, <3>4 DEF HasBlocks
  <2>5. (\A i \in 1..size : parts[i] # {}) <=>
          \A i \in DOMAIN n.pairs : OwnerPart(n.pairs[i][1], n.pairs[i][2]) # {}
    BY <1>1, <1>3
  <2> QED BY <1>7, <2>1, <2>3, <2>4, <2>5
<1> QED BY <1>6, <1>7

\* What a map decoded from a mapping holds.
HoldsKeys(g, n, zero, results) ==
  /\ \A x : x \in DOMAIN g <=> x \in DOMAIN zero \/ At(n, x) # {}
  /\ \A x \in DOMAIN zero : At(n, x) = {} => g[x] = zero[x]
  /\ \A x : At(n, x) # {} => \E i \in At(n, x) : g[x] \in results[i]

\* A map decoded from a mapping has the keys of the mapping, each with a result
\* of one of its places.
LEMMA Holds ==
  ASSUME NEW D, NEW n, NEW zero, NEW results,
         Decodes(D, n, zero, KeyAt(n), results), NEW g \in D
  PROVE  n.kind = "mapping" /\ HoldsKeys(g, n, zero, results)
<1>1. n.kind = "mapping" /\ IsKeyed(g, zero, KeyAt(n), results, DOMAIN n.pairs)
  BY DEF Decodes, Joins
<1>2. \A x : \A i \in DOMAIN n.pairs : KeyAt(n)[i] = x <=> i \in At(n, x)
  BY DEF KeyAt, At
<1>3. \A x : At(n, x) \subseteq DOMAIN n.pairs
  BY DEF At
<1>4. \A x : (\E i \in DOMAIN n.pairs : KeyAt(n)[i] = x) <=> At(n, x) # {}
  BY <1>2, <1>3
<1>5. \A x : x \in DOMAIN g <=> x \in DOMAIN zero \/ At(n, x) # {}
  BY <1>1, <1>4 DEF IsKeyed
<1>6. \A x \in DOMAIN zero : At(n, x) = {} => g[x] = zero[x]
  BY <1>1, <1>4 DEF IsKeyed
<1>7. ASSUME NEW x, At(n, x) # {} PROVE \E i \in At(n, x) : g[x] \in results[i]
  <2>1. PICK i \in DOMAIN n.pairs : KeyAt(n)[i] = x /\ g[x] \in results[i]
    BY <1>1, <1>4, <1>7 DEF IsKeyed
  <2> QED BY <1>2, <2>1
<1> QED BY <1>1, <1>5, <1>6, <1>7 DEF HoldsKeys

\* What stands in one of the places of a key.
LEMMA Found ==
  ASSUME NEW n \in Nodes, NEW x, NEW i \in At(n, x)
  PROVE  i \in DOMAIN n.pairs /\ n.pairs[i][1] = x /\ n.pairs[i][2] \in Nodes
BY Inside DEF At

\* Entries by name come from a place with that name.
LEMMA EntriesHold ==
  ASSUME NEW level \in Levels, NEW n \in Nodes, NEW g \in DecodeEntries(level, n), NEW x
  PROVE  /\ x \in DOMAIN g <=> At(n, x) # {}
         /\ At(n, x) # {} => \E i \in At(n, x) : g[x] \in DecodeEntry(level, n.pairs[i][2])
<1>1. Decodes(DecodeEntries(level, n), n, Nothing, KeyAt(n), EntriesAt(level, n))
  BY EntriesDecoded
<1>2. /\ \A y : y \in DOMAIN g <=> y \in DOMAIN Nothing \/ At(n, y) # {}
      /\ \A y : At(n, y) # {} => \E i \in At(n, y) : g[y] \in EntriesAt(level, n)[i]
  BY <1>1, Holds DEF HoldsKeys
<1>3. DOMAIN Nothing = {}
  BY DEF Nothing
<1>4. \A i \in At(n, x) : EntriesAt(level, n)[i] = DecodeEntry(level, n.pairs[i][2])
  BY DEF At, EntriesAt
<1> QED BY <1>2, <1>3, <1>4

\* Entries by kind come from a place with that kind, or are empty.
LEMMA ManagedHolds ==
  ASSUME NEW level \in Levels, NEW n \in Nodes, NEW g \in DecodeManaged(level, n), NEW kind \in Kinds
  PROVE  /\ At(n, kind) = {} => g[kind] = Nothing
         /\ At(n, kind) # {} => \E i \in At(n, kind) : g[kind] \in DecodeEntries(level, n.pairs[i][2])
<1>1. Decodes(DecodeManaged(level, n), n, NoEntries, KeyAt(n), ManagedAt(level, n))
  BY ManagedDecoded
<1>2. kind \in DOMAIN NoEntries /\ NoEntries[kind] = Nothing
  BY DEF NoEntries
<1>3. /\ At(n, kind) = {} => g[kind] = NoEntries[kind]
      /\ At(n, kind) # {} => \E i \in At(n, kind) : g[kind] \in ManagedAt(level, n)[i]
  BY <1>1, <1>2, Holds DEF HoldsKeys
<1>4. \A i \in At(n, kind) : ManagedAt(level, n)[i] = DecodeEntries(level, n.pairs[i][2])
  BY DEF At, ManagedAt
<1> QED BY <1>2, <1>3, <1>4

\* A list comes from a place with its kind, or is empty.
LEMMA IgnoredHolds ==
  ASSUME NEW n \in Nodes, NEW g \in DecodeIgnored(n), NEW kind \in Kinds
  PROVE  /\ At(n, kind) = {} => g[kind] = <<>>
         /\ At(n, kind) # {} => \E i \in At(n, kind) : g[kind] \in DecodeStringList(n.pairs[i][2])
<1>1. Decodes(DecodeIgnored(n), n, NoLists, KeyAt(n), ListsAt(n))
  BY IgnoredDecoded
<1>2. kind \in DOMAIN NoLists /\ NoLists[kind] = <<>>
  BY DEF NoLists
<1>3. /\ At(n, kind) = {} => g[kind] = NoLists[kind]
      /\ At(n, kind) # {} => \E i \in At(n, kind) : g[kind] \in ListsAt(n)[i]
  BY <1>1, <1>2, Holds DEF HoldsKeys
<1>4. \A i \in At(n, kind) : ListsAt(n)[i] = DecodeStringList(n.pairs[i][2])
  BY DEF At, ListsAt
<1> QED BY <1>2, <1>3, <1>4

\* The parts of a block come from places with their keys, or are empty.
LEMMA BlockHolds ==
  ASSUME NEW level \in Levels, NEW n \in Nodes, NEW b \in RawBlock(level, n)
  PROVE  /\ At(n, "managed") = {} => b.managed = NoEntries
         /\ At(n, "managed") # {} => \E i \in At(n, "managed") : b.managed \in DecodeManaged(level, n.pairs[i][2])
         /\ At(n, "ignored") = {} => b.ignored = NoLists
         /\ At(n, "ignored") # {} => \E i \in At(n, "ignored") : b.ignored \in DecodeIgnored(n.pairs[i][2])
<1>1. Decodes(RawBlock(level, n), n, NoBlock, KeyAt(n), BlockAt(level, n))
  BY BlockDecoded
<1>2. /\ "managed" \in DOMAIN NoBlock /\ NoBlock["managed"] = NoEntries
      /\ "ignored" \in DOMAIN NoBlock /\ NoBlock["ignored"] = NoLists
  BY DEF NoBlock
<1>3. /\ \A x \in DOMAIN NoBlock : At(n, x) = {} => b[x] = NoBlock[x]
      /\ \A x : At(n, x) # {} => \E i \in At(n, x) : b[x] \in BlockAt(level, n)[i]
  BY <1>1, Holds DEF HoldsKeys
<1>4. \A i \in At(n, "managed") : BlockAt(level, n)[i] = DecodeManaged(level, n.pairs[i][2])
  BY DEF At, BlockAt
<1>5. \A i \in At(n, "ignored") : BlockAt(level, n)[i] = DecodeIgnored(n.pairs[i][2])
  BY DEF At, BlockAt
<1> QED BY <1>2, <1>3, <1>4, <1>5

\* A block that was accepted is a block of the plan.
LEMMA BlockSettles ==
  ASSUME NEW level \in Levels, NEW n \in Nodes, NEW b \in DecodeBlock(level, n)
  PROVE  SettledBlock(b) \in Block(VisibilitiesOf(level))
<1>1. b \in RawBlock(level, n) /\ NoConflict(b)
  BY BlockDecoded
<1>2. ASSUME NEW k \in Keys PROVE Kind(k) \in Kinds
  BY NamesAssumption DEF Kind
<1>3. ASSUME NEW kind \in Kinds, NEW name \in DOMAIN b.managed[kind]
      PROVE  SettledEntry(b.managed[kind][name]) \in Entry(VisibilitiesOf(level))
  <2>1. DOMAIN Nothing = {} /\ NoEntries[kind] = Nothing
    BY DEF Nothing, NoEntries
  <2>2. At(n, "managed") # {}
    BY <1>1, <2>1, BlockHolds
  <2>3. PICK i \in At(n, "managed") : b.managed \in DecodeManaged(level, n.pairs[i][2])
    BY <1>1, <2>2, BlockHolds
  <2>4. n.pairs[i][2] \in Nodes
    BY Found
  <2> DEFINE m == n.pairs[i][2]
  <2> HIDE DEF m
  <2>5. m \in Nodes /\ b.managed \in DecodeManaged(level, m)
    BY <2>3, <2>4 DEF m
  <2>6. At(m, kind) # {}
    BY <2>1, <2>5, ManagedHolds
  <2>7. PICK j \in At(m, kind) : b.managed[kind] \in DecodeEntries(level, m.pairs[j][2])
    BY <2>5, <2>6, ManagedHolds
  <2>8. m.pairs[j][2] \in Nodes
    BY <2>5, Found
  <2> DEFINE es == m.pairs[j][2]
  <2> HIDE DEF es
  <2>9. es \in Nodes /\ b.managed[kind] \in DecodeEntries(level, es)
    BY <2>7, <2>8 DEF es
  <2>10. PICK l \in At(es, name) : b.managed[kind][name] \in DecodeEntry(level, es.pairs[l][2])
    BY <2>9, EntriesHold
  <2>11. es.pairs[l][2] \in Nodes
    BY <2>9, Found
  <2> QED BY <2>10, <2>11, EntrySettles
<1> DEFINE s == SettledBlock(b)
<1>4. /\ s = [managed |-> s.managed, ignored |-> s.ignored]
      /\ s.managed = [k \in Keys |-> IF NameOf(k) \in DOMAIN b.managed[Kind(k)]
                                     THEN SettledEntry(b.managed[Kind(k)][NameOf(k)]) ELSE None]
      /\ s.ignored = {k \in Keys : NameOf(k) \in Range(b.ignored[Kind(k)])}
  BY DEF SettledBlock
<1> HIDE DEF s
<1>5. s.managed \in [Keys -> Entry(VisibilitiesOf(level)) \cup {None}]
  BY <1>2, <1>3, <1>4
<1>6. ASSUME NEW k \in s.ignored PROVE s.managed[k] = None
  <2>1. k \in Keys /\ NameOf(k) \in Range(b.ignored[Kind(k)])
    BY <1>4
  <2>2. NameOf(k) \notin DOMAIN b.managed[Kind(k)]
    BY <1>1, <1>2, <2>1 DEF NoConflict
  <2> QED BY <1>4, <2>1, <2>2
<1>7. s.ignored \subseteq Keys
  BY <1>4
<1>8. s \in Block(VisibilitiesOf(level))
  BY <1>4, <1>5, <1>6, <1>7 DEF Block
<1> QED BY <1>8 DEF s

\* An owner that was accepted is a configuration of the plan.
LEMMA OwnerSettles ==
  ASSUME NEW n \in Nodes, NEW o \in DecodeOrg(n)
  PROVE  Settled(o) \in Configuration
<1>1. HasBlocks(o, n)
  BY OwnerDecoded
<1>2. BlockOf(o, <<"org", "">>) \in Block(Visibilities) \cup {None}
  <2>1. CASE <<"org", "">> \in DOMAIN o
    <3>1. PICK i \in At(n, "org") : o[<<"org", "">>] \in DecodeBlock(LevelOf("org"), n.pairs[i][2])
      BY <1>1, <2>1 DEF HasBlocks
    <3>2. LevelOf("org") = "org" /\ "org" \in Levels /\ VisibilitiesOf("org") = Visibilities
      BY DEF LevelOf, Levels, VisibilitiesOf
    <3> QED BY <2>1, <3>1, <3>2, Found, BlockSettles DEF BlockOf
  <2>2. CASE <<"org", "">> \notin DOMAIN o
    BY <2>2 DEF BlockOf
  <2> QED BY <2>1, <2>2
<1>3. BlockOf(o, <<"all-repos", "">>) \in Block({"repo"}) \cup {None}
  <2>1. CASE <<"all-repos", "">> \in DOMAIN o
    <3>1. PICK i \in At(n, "all-repos") : o[<<"all-repos", "">>] \in DecodeBlock(LevelOf("all-repos"), n.pairs[i][2])
      BY <1>1, <2>1 DEF HasBlocks
    <3>2. LevelOf("all-repos") = "repo" /\ "repo" \in Levels /\ VisibilitiesOf("repo") = {"repo"}
      BY DEF LevelOf, Levels, VisibilitiesOf
    <3> QED BY <2>1, <3>1, <3>2, Found, BlockSettles DEF BlockOf
  <2>2. CASE <<"all-repos", "">> \notin DOMAIN o
    BY <2>2 DEF BlockOf
  <2> QED BY <2>1, <2>2
<1>4. ASSUME NEW r \in Repos PROVE BlockOf(o, <<"per-repo", r>>) \in Block({"repo"}) \cup {None}
  <2>1. CASE <<"per-repo", r>> \in DOMAIN o
    <3>1. PICK i \in At(n, "per-repo") : \E j \in At(n.pairs[i][2], r) :
             o[<<"per-repo", r>>] \in DecodeBlock("repo", n.pairs[i][2].pairs[j][2])
      BY <1>1, <2>1 DEF HasBlocks
    <3>2. PICK j \in At(n.pairs[i][2], r) :
             o[<<"per-repo", r>>] \in DecodeBlock("repo", n.pairs[i][2].pairs[j][2])
      BY <3>1
    <3>3. n.pairs[i][2] \in Nodes
      BY Found
    <3>4. n.pairs[i][2].pairs[j][2] \in Nodes
      BY <3>3, Found
    <3>5. "repo" \in Levels /\ VisibilitiesOf("repo") = {"repo"}
      BY DEF Levels, VisibilitiesOf
    <3> QED BY <2>1, <3>2, <3>4, <3>5, BlockSettles DEF BlockOf
  <2>2. CASE <<"per-repo", r>> \notin DOMAIN o
    BY <2>2 DEF BlockOf
  <2> QED BY <2>1, <2>2
<1>5. Settled(o) = [org |-> BlockOf(o, <<"org", "">>), all |-> BlockOf(o, <<"all-repos", "">>),
                    per |-> [r \in Repos |-> BlockOf(o, <<"per-repo", r>>)]]
  BY DEF Settled
<1>6. [r \in Repos |-> BlockOf(o, <<"per-repo", r>>)] \in [Repos -> Block({"repo"}) \cup {None}]
  BY <1>4
<1> DEFINE org == BlockOf(o, <<"org", "">>)
           all == BlockOf(o, <<"all-repos", "">>)
           per == [r \in Repos |-> BlockOf(o, <<"per-repo", r>>)]
           orgs == Block(Visibilities) \cup {None}
           repos == Block({"repo"}) \cup {None}
<1>7. Settled(o) = [org |-> org, all |-> all, per |-> per]
  BY <1>5
<1>8. Configuration = [org : orgs, all : repos, per : [Repos -> repos]]
  BY DEF Configuration
<1>9. org \in orgs /\ all \in repos /\ per \in [Repos -> repos]
  BY <1>2, <1>3, <1>6
<1> HIDE DEF org, all, per, orgs, repos
<1> QED BY <1>7, <1>8, <1>9

\* The section of the host: its owners.
OwnersAt(n) == [i \in DOMAIN n.pairs |-> DecodeOrg(n.pairs[i][2])]

DecodeHost(n) == IF n.kind # "mapping" THEN {}
                 ELSE Collect(Nothing, [i \in DOMAIN n.pairs |-> As(n.pairs[i][1], DecodeOrg(n.pairs[i][2]))])

\* The section of the host: the owners by name.
LEMMA HostDecoded ==
  ASSUME NEW n \in Nodes
  PROVE  Decodes(DecodeHost(n), n, Nothing, KeyAt(n), OwnersAt(n))
<1> DEFINE keyOf == KeyAt(n)
           results == OwnersAt(n)
           D == DecodeHost(n)
           parts == [i \in DOMAIN n.pairs |-> As(n.pairs[i][1], DecodeOrg(n.pairs[i][2]))]
<1>1. ASSUME NEW i \in DOMAIN n.pairs PROVE \A p, q \in results[i] : p = q
  <2>1. n.pairs[i][2] \in Nodes /\ results[i] = DecodeOrg(n.pairs[i][2])
    BY Inside DEF OwnersAt
  <2> HIDE DEF results
  <2> QED BY <2>1, OwnerDecoded
<1>2. ASSUME NEW i \in DOMAIN n.pairs PROVE parts[i] = As(keyOf[i], results[i])
  BY DEF KeyAt, OwnersAt
<1>3. D = IF n.kind # "mapping" THEN {} ELSE Collect(Nothing, parts)
  BY DEF DecodeHost
<1>4. IsFunctionOn(parts, DOMAIN n.pairs)
  BY DEF IsFunctionOn
<1> HIDE DEF keyOf, results, parts, D
<1>5. Decodes(D, n, Nothing, keyOf, results)
  <2>1. Gives(parts, keyOf, results, DOMAIN n.pairs)
    BY <1>1, <1>2, <1>4 DEF Gives
  <2>2. Len(n.pairs) \in Nat /\ DOMAIN n.pairs = 1..Len(n.pairs)
    BY Inside
  <2> QED BY <1>3, <2>1, <2>2, Keyed DEF Decodes
<1> QED BY <1>5 DEF keyOf, results, D

\* The owners of a file that was accepted.
LEMMA HostHolds ==
  ASSUME NEW n \in Nodes, NEW g \in DecodeHost(n), NEW x
  PROVE  /\ x \in DOMAIN g <=> At(n, x) # {}
         /\ At(n, x) # {} => \E i \in At(n, x) : g[x] \in DecodeOrg(n.pairs[i][2])
<1>1. Decodes(DecodeHost(n), n, Nothing, KeyAt(n), OwnersAt(n))
  BY HostDecoded
<1>2. /\ \A y : y \in DOMAIN g <=> y \in DOMAIN Nothing \/ At(n, y) # {}
      /\ \A y : At(n, y) # {} => \E i \in At(n, y) : g[y] \in OwnersAt(n)[i]
  BY <1>1, Holds DEF HoldsKeys
<1>3. DOMAIN Nothing = {}
  BY DEF Nothing
<1>4. \A i \in At(n, x) : OwnersAt(n)[i] = DecodeOrg(n.pairs[i][2])
  BY DEF At, OwnersAt
<1> QED BY <1>2, <1>3, <1>4

\* LoadBytes: the first section of the host is decoded.
LEMMA FileDecoded ==
  ASSUME NEW file \in Documents, file # Unparsable, file # <<>>
  PROVE  /\ file[1] \in Nodes
         /\ file[1].kind # "mapping" => LoadBytes(file) = {}
         /\ file[1].kind = "mapping" /\ At(file[1], "github.com") = {} => LoadBytes(file) = {Nothing}
         /\ file[1].kind = "mapping" /\ At(file[1], "github.com") # {} =>
              \E i \in At(file[1], "github.com") : LoadBytes(file) = DecodeHost(file[1].pairs[i][2])
<1>1. file[1] \in Nodes
  <2>1. file \in Seq(Nodes)
    BY DEF Documents
  <2>2. 1 \in DOMAIN file
    BY <2>1
  <2> QED BY <2>1, <2>2
<1> DEFINE root == file[1]
           found == At(root, "github.com")
           first == CHOOSE i \in found : \A j \in found : i <= j
<1>2. LoadBytes(file) = CASE root.kind # "mapping" -> {}
                          [] root.kind = "mapping" /\ found = {} -> {Nothing}
                          [] root.kind = "mapping" /\ found # {} -> DecodeHost(root.pairs[first][2])
  BY DEF LoadBytes, At, DecodeHost, Decode, Refused
<1>3. found # {} => first \in found
  <2>1. found \subseteq Nat
    <3>1. DOMAIN root.pairs \subseteq Nat
      BY <1>1, Inside
    <3> QED BY <3>1 DEF At
  <2> HIDE DEF found
  <2>2. found # {} => \E i \in found : \A j \in found : i <= j
    BY <2>1, Least
  <2> QED BY <2>2
<1> HIDE DEF root, found, first
<1>4. /\ root.kind # "mapping" => LoadBytes(file) = {}
      /\ root.kind = "mapping" /\ found = {} => LoadBytes(file) = {Nothing}
      /\ root.kind = "mapping" /\ found # {} =>
           \E i \in found : LoadBytes(file) = DecodeHost(root.pairs[i][2])
  BY <1>2, <1>3
<1> QED BY <1>1, <1>4 DEF root, found

\* Every owner of an accepted file has a configuration of the plan.
LEMMA LoadSettles ==
  ASSUME NEW file \in Documents \cup {Unparsable}, NEW orgs \in LoadBytes(file), NEW owner \in DOMAIN orgs
  PROVE  Settled(orgs[owner]) \in Configuration
<1>1. file # Unparsable /\ file # <<>>
  BY DEF LoadBytes, Refused
<1>2. file \in Documents
  BY <1>1
<1>3. file[1] \in Nodes /\ file[1].kind = "mapping"
  BY <1>1, <1>2, FileDecoded
<1>4. CASE At(file[1], "github.com") = {}
  <2>1. orgs = Nothing
    BY <1>1, <1>2, <1>3, <1>4, FileDecoded
  <2> QED BY <2>1 DEF Nothing
<1>5. CASE At(file[1], "github.com") # {}
  <2>1. PICK i \in At(file[1], "github.com") : orgs \in DecodeHost(file[1].pairs[i][2])
    BY <1>1, <1>2, <1>3, <1>5, FileDecoded
  <2> DEFINE host == file[1].pairs[i][2]
  <2>2. host \in Nodes /\ orgs \in DecodeHost(host)
    BY <1>3, <2>1, Found
  <2> HIDE DEF host
  <2>3. PICK j \in At(host, owner) : orgs[owner] \in DecodeOrg(host.pairs[j][2])
    BY <2>2, HostHolds
  <2>4. host.pairs[j][2] \in Nodes
    BY <2>2, Found
  <2> QED BY <2>3, <2>4, OwnerSettles
<1> QED BY <1>4, <1>5

-----------------------------------------------------------------------------
(* The invocation.                                                         *)

\* What load leaves behind when the file at the path is the given one.
LoadOf(file) == IF file = Absent THEN Refused ELSE LoadBytes(file)

\* The commands go their own ways, and what is loaded comes from a file; from
\* the one that is still there, when nobody has touched it.
CommandInv ==
  /\ CommandTypeOK
  /\ LoadedIsConfiguration
  /\ step \in {"load", "backend", "lookup", "running"} => args.cmd \in RunCommands
  /\ step \in {"stat", "open", "write"} => args.cmd = "example" /\ args.path
  /\ step \in {"lookup", "running"} => args.token
  /\ loaded # None => args.cmd \in RunCommands /\ (touches = 0 => loaded = LoadOf(disk))
  /\ standing /\ step \in {"dispatch", "stat"} => disk # Absent
  /\ standing /\ ~args.force => step \notin {"open", "write"}
  /\ ExampleZeroMeansWritten

\* Init establishes the invariant.
LEMMA CommandStarts == Init => CommandInv
<1> SUFFICES ASSUME Init PROVE CommandInv
  OBVIOUS
<1>1. PICK i \in Invocations : args = i.args /\ disk = i.disk
  BY DEF Init
<1>2. args \in CommandLines /\ disk \in Documents \cup {Absent, Unparsable}
  BY <1>1, InvocationsAssumption
<1>3. /\ step = "dispatch" /\ loaded = None /\ exit = None
      /\ touches = 0 /\ standing = (disk # Absent)
  BY DEF Init
<1>4. CommandTypeOK
  BY <1>2, <1>3, TouchesAssumption DEF CommandTypeOK, Steps
<1> QED BY <1>3, <1>4, ExitAssumption DEF CommandInv, LoadedIsConfiguration, ExampleZeroMeansWritten

\* What the handlers never change.
LEMMA CommandLineStays ==
  ASSUME CommandTypeOK, Next
  PROVE  args' = args /\ args' \in CommandLines
BY DEF CommandTypeOK, Next, Dispatch, ParseFlags, Load, NewBackend, LookUpOwner, ParseExampleFlags,
       Stat, OpenOutput, WriteOutput, OthersTouch, Goto, Exit

\* Each step keeps the invariant.
LEMMA CommandSteps == CommandInv /\ [Next]_vars => CommandInv'
<1> SUFFICES ASSUME CommandInv, [Next]_vars PROVE CommandInv'
  OBVIOUS
<1> USE DEF CommandInv, CommandTypeOK, Steps, RunCommands, LoadedIsConfiguration,
            ExampleZeroMeansWritten, LoadOf, Exit, Goto
<1>0. None \notin {0, 1, 2}
  BY ExitAssumption
<1>1. CASE Dispatch
  BY <1>0, <1>1 DEF Dispatch
<1>2. CASE ParseFlags
  BY <1>0, <1>2 DEF ParseFlags
<1>3. CASE Load
  <2> HIDE DEF LoadedIsConfiguration
  <2>1. /\ step = "load" /\ loaded' = LoadOf(disk)
        /\ IF loaded' = Refused THEN Exit(2) ELSE Goto("backend")
        /\ disk' = disk
    BY <1>3 DEF Load
  <2>2. LoadedIsConfiguration'
    <3>1. ASSUME NEW orgs \in loaded', NEW owner \in DOMAIN orgs
          PROVE  Settled(orgs[owner]) \in Configuration
      <4>1. orgs \in LoadBytes(disk) /\ disk \in Documents \cup {Unparsable}
        BY <2>1 DEF Refused
      <4> QED BY <4>1, LoadSettles
    <3> QED BY <3>1 DEF LoadedIsConfiguration
  <2> QED BY <1>0, <2>1, <2>2
<1>4. CASE NewBackend
  BY <1>0, <1>4 DEF NewBackend
<1>5. CASE LookUpOwner
  BY <1>0, <1>5 DEF LookUpOwner
<1>6. CASE ParseExampleFlags
  BY <1>0, <1>6 DEF ParseExampleFlags
<1>7. CASE Stat
  BY <1>0, <1>7 DEF Stat
<1>8. CASE OpenOutput
  <2>1. /\ step = "open" /\ loaded' = loaded /\ loaded = None /\ args.cmd = "example" /\ args.path
        /\ \/ disk' = <<>> /\ Goto("write")
           \/ disk' = disk /\ Exit(1)
    BY <1>8 DEF OpenOutput
  <2>2. <<>> \in Documents
    BY DEF Documents
  <2>3. CASE disk' = <<>> /\ Goto("write")
    BY <1>0, <2>1, <2>2, <2>3
  <2>4. CASE disk' = disk /\ Exit(1)
    BY <1>0, <2>1, <2>4
  <2> QED BY <2>1, <2>3, <2>4
<1>9. CASE WriteOutput
  <2>1. /\ step = "write" /\ loaded' = loaded /\ loaded = None /\ args.cmd = "example" /\ args.path
        /\ \/ disk' = Example /\ Exit(0)
           \/ disk' \in {<<>>, Unparsable} /\ Exit(1)
    BY <1>9 DEF WriteOutput
  <2>2. <<>> \in Documents /\ Example \in Documents
    BY ExampleAssumption DEF Documents
  <2>3. CASE disk' = Example /\ Exit(0)
    BY <1>0, <2>1, <2>2, <2>3
  <2>4. CASE disk' \in {<<>>, Unparsable} /\ Exit(1)
    BY <1>0, <2>1, <2>2, <2>4
  <2> QED BY <2>1, <2>3, <2>4
<1>10. CASE OthersTouch
  <2>1. touches' \in 0..MaxTouches /\ touches' # 0
    BY <1>10, TouchesAssumption DEF OthersTouch
  <2>2. disk' \in Documents \cup {Absent, Unparsable}
    BY <1>10 DEF OthersTouch
  <2>3. standing' \in BOOLEAN /\ (standing' => standing /\ disk' # Absent)
    BY <1>10 DEF OthersTouch
  <2>4. args' = args /\ step' = step /\ loaded' = loaded /\ exit' = exit /\ step # "exited"
    BY <1>10 DEF OthersTouch
  <2> QED BY <1>0, <2>1, <2>2, <2>3, <2>4
<1>11. CASE UNCHANGED vars
  BY <1>11 DEF vars
<1> QED BY <1>1, <1>2, <1>3, <1>4, <1>5, <1>6, <1>7, <1>8, <1>9, <1>10, <1>11 DEF Next

\* The type invariant, with what the runner relies on when it takes over.
THEOREM CommandTypeCorrect == Spec => []CommandTypeOK
<1>1. CommandInv => CommandTypeOK
  BY DEF CommandInv
<1> QED BY CommandStarts, CommandSteps, <1>1, PTL DEF Spec

\* What config.Load accepts is a configuration the other modules start from.
THEOREM LoadsConfigurations == Spec => []LoadedIsConfiguration
<1>1. CommandInv => LoadedIsConfiguration
  BY DEF CommandInv
<1> QED BY CommandStarts, CommandSteps, <1>1, PTL DEF Spec

\* Exit code 0 of `example -o` means that the whole example was written.
THEOREM ExampleIsWritten == Spec => []ExampleZeroMeansWritten
<1>1. CommandInv => ExampleZeroMeansWritten
  BY DEF CommandInv
<1> QED BY CommandStarts, CommandSteps, <1>1, PTL DEF Spec

\* Without --force the tool leaves a file alone that was there all the time.
THEOREM ExistingFilesAreSpared == Spec => SparesExisting
<1>1. CommandInv /\ [Next]_vars => [standing /\ ~args.force /\ touches' = touches => disk' = disk]_vars
  <2> SUFFICES ASSUME CommandInv, Next, standing, ~args.force, touches' = touches PROVE disk' = disk
    BY DEF vars
  <2>1. step \notin {"open", "write"} /\ touches \in 0..MaxTouches
    BY DEF CommandInv, CommandTypeOK
  <2>2. ~OthersTouch
    BY <2>1, TouchesAssumption DEF OthersTouch
  <2> QED BY <2>1, <2>2 DEF Next, Dispatch, ParseFlags, Load, NewBackend, LookUpOwner, ParseExampleFlags,
                            Stat, OpenOutput, WriteOutput
<1> QED BY CommandStarts, CommandSteps, <1>1, PTL DEF Spec, SparesExisting

-----------------------------------------------------------------------------
(* What is read from plain nodes.                                          *)

\* A key leads somewhere when it is there, and on a plain node to one place.
LEMMA Leads ==
  ASSUME NEW n \in Nodes, NEW key
  PROVE  /\ Under({n}, key) = {n.pairs[i][2] : i \in At(n, key)}
         /\ key \in KeysOf(n) <=> At(n, key) # {}
         /\ Under({}, key) = {}
         /\ \A i \in At(n, key) : IsPlainHere(n) => At(n, key) = {i}
<1>1. Under({n}, key) = {n.pairs[i][2] : i \in At(n, key)}
  BY DEF Under, At
<1>2. key \in KeysOf(n) <=> At(n, key) # {}
  BY DEF KeysOf, At
<1>3. Under({}, key) = {}
  BY DEF Under
<1>4. \A i \in At(n, key) : IsPlainHere(n) => At(n, key) = {i}
  BY DEF IsPlainHere, At
<1> QED BY <1>1, <1>2, <1>3, <1>4

\* On a plain node a key leads to the one place it has.
LEMMA LeadsTo ==
  ASSUME NEW n \in Nodes, IsPlainHere(n), NEW key, NEW i \in At(n, key)
  PROVE  Under({n}, key) = {n.pairs[i][2]} /\ TextAt(n, key) = n.pairs[i][2].text
<1>1. At(n, key) = {i}
  BY Leads
<1>2. Under({n}, key) = {n.pairs[i][2]}
  <2>1. Under({n}, key) = {n.pairs[j][2] : j \in At(n, key)}
    BY Leads
  <2> QED BY <1>1, <2>1
<1> QED BY <1>2 DEF TextAt

\* A key that is not there leads nowhere.
LEMMA LeadsNowhere ==
  ASSUME NEW n \in Nodes, NEW key, At(n, key) = {}
  PROVE  Under({n}, key) = {} /\ TextAt(n, key) = "" /\ key \notin KeysOf(n)
<1>1. Under({n}, key) = {} /\ key \notin KeysOf(n)
  BY Leads
<1> QED BY <1>1 DEF TextAt

\* The fields of an entry are the texts of a plain node.
LEMMA EntryTexts ==
  ASSUME NEW level \in Levels, NEW n \in Nodes, IsPlainHere(n), NEW e \in RawEntry(level, n)
  PROVE  /\ e.hasValue = ("value" \in KeysOf(n))
         /\ e.hasValue => e.value = TextAt(n, "value")
         /\ e.env = TextAt(n, "env")
         /\ e.file = TextAt(n, "file")
         /\ e.file # "" => e.fileAbs = AbsPath(e.file)
         /\ e.vis = IF level = "repo" THEN "repo" ELSE IF "scope" \in KeysOf(n) THEN TextAt(n, "scope") ELSE "all"
         /\ level = "repo" => TextAt(n, "scope") = "" /\ Under({n}, "repos") = {}
         /\ Range(e.repos) = UNION {TextsIn(l) : l \in Under({n}, "repos")}
         /\ e.repos = <<>> <=> \A l \in Under({n}, "repos") : l.items = <<>>
<1>1. ComesFrom(level, n, e)
  BY EntryDecoded
<1>2. e.hasValue = ("value" \in KeysOf(n))
  <2>1. "value" \in KeysOf(n) <=> At(n, "value") # {}
    BY Leads
  <2>2. e.hasValue = (At(n, "value") # {})
    BY <1>1 DEF ComesFrom
  <2> QED BY <2>1, <2>2
<1>3. e.hasValue => e.value = TextAt(n, "value")
  BY <1>1, LeadsTo DEF ComesFrom
<1>4. e.env = TextAt(n, "env")
  <2>1. CASE At(n, "env") = {}
    BY <1>1, <2>1, LeadsNowhere DEF ComesFrom
  <2>2. CASE At(n, "env") # {}
    BY <1>1, <2>2, LeadsTo DEF ComesFrom
  <2> QED BY <2>1, <2>2
<1>5. e.file = TextAt(n, "file")
  <2>1. CASE At(n, "file") = {}
    BY <1>1, <2>1, LeadsNowhere DEF ComesFrom
  <2>2. CASE At(n, "file") # {}
    BY <1>1, <2>2, LeadsTo DEF ComesFrom
  <2> QED BY <2>1, <2>2
<1>6. e.file # "" => e.fileAbs = AbsPath(e.file)
  BY <1>1, <1>5, LeadsTo DEF ComesFrom
<1>7. e.vis =
        IF level = "repo" THEN "repo" ELSE IF "scope" \in KeysOf(n) THEN TextAt(n, "scope") ELSE "all"
  <2>1. CASE At(n, "scope") = {}
    BY <1>1, <2>1, LeadsNowhere DEF ComesFrom, Levels
  <2>2. CASE At(n, "scope") # {}
    <3>1. level = "org" /\ "scope" \in KeysOf(n)
      BY <1>1, <2>2, Leads DEF ComesFrom
    <3>2. e.vis = TextAt(n, "scope")
      BY <1>1, <2>2, LeadsTo DEF ComesFrom
    <3> QED BY <3>1, <3>2
  <2> QED BY <2>1, <2>2
<1>8. level = "repo" => TextAt(n, "scope") = "" /\ Under({n}, "repos") = {}
  <2>1. level = "repo" => At(n, "scope") = {} /\ At(n, "repos") = {}
    BY <1>1 DEF ComesFrom
  <2> QED BY <2>1, LeadsNowhere
<1>9. /\ Range(e.repos) = UNION {TextsIn(l) : l \in Under({n}, "repos")}
      /\ e.repos = <<>> <=> \A l \in Under({n}, "repos") : l.items = <<>>
  <2>1. CASE At(n, "repos") = {}
    <3>1. e.repos = <<>> /\ Under({n}, "repos") = {}
      BY <1>1, <2>1, LeadsNowhere DEF ComesFrom
    <3>2. Range(<<>>) = {}
      BY DEF Range
    <3> QED BY <3>1, <3>2
  <2>2. CASE At(n, "repos") # {}
    <3>1. PICK i \in At(n, "repos") : e.repos \in DecodeStringList(n.pairs[i][2])
      BY <1>1, <2>2 DEF ComesFrom
    <3>2. Under({n}, "repos") = {n.pairs[i][2]} /\ n.pairs[i][2] \in Nodes
      BY LeadsTo, Found
    <3>3. Range(e.repos) = TextsIn(n.pairs[i][2]) /\ (e.repos = <<>> <=> n.pairs[i][2].items = <<>>)
      BY <3>1, <3>2, TextLists
    <3> QED BY <3>2, <3>3
  <2> QED BY <2>1, <2>2
<1> QED BY <1>2, <1>3, <1>4, <1>5, <1>6, <1>7, <1>8, <1>9

\* An accepted entry is what its plain node says.
LEMMA EntryIsRead ==
  ASSUME NEW level \in Levels, NEW n \in Nodes, IsPlainHere(n), NEW e \in DecodeEntry(level, n)
  PROVE  SettledEntry(e) = EntryRead(level, {n})
<1>1. e \in RawEntry(level, n)
  BY EntryDecoded
<1> DEFINE path == TextAt(n, "file")
           val == IF "value" \in KeysOf(n) THEN TextAt(n, "value")
                  ELSE IF path = "" THEN Environment[TextAt(n, "env")]
                  ELSE IF path \in Rooted THEN Files[<<"/", path>>]
                  ELSE Files[<<BaseDir, path>>]
           vis == IF level = "repo" THEN "repo" ELSE IF "scope" \in KeysOf(n) THEN TextAt(n, "scope") ELSE "all"
           repos == UNION {TextsIn(l) : l \in Under({n}, "repos")}
<1>2. EntryRead(level, {n}) = [val |-> val, vis |-> vis, repos |-> repos]
  <2>1. (CHOOSE v \in {n} : TRUE) = n /\ {n} # {}
    OBVIOUS
  <2> QED BY <2>1 DEF EntryRead
<1>3. Resolve(e) = val
  <2>1. CASE "value" \in KeysOf(n)
    BY <1>1, <2>1, EntryTexts DEF Resolve
  <2>2. CASE "value" \notin KeysOf(n) /\ path = ""
    BY <1>1, <2>2, EntryTexts DEF Resolve
  <2>3. CASE "value" \notin KeysOf(n) /\ path # ""
    <3>1. ~e.hasValue /\ e.file = path /\ e.fileAbs = AbsPath(path)
      <4>1. e.hasValue = ("value" \in KeysOf(n))
        BY <1>1, EntryTexts
      <4>2. e.file = path
        BY <1>1, EntryTexts
      <4>3. e.file # "" => e.fileAbs = AbsPath(e.file)
        BY <1>1, EntryTexts
      <4> HIDE DEF path
      <4> QED BY <2>3, <4>1, <4>2, <4>3
    <3> HIDE DEF path
    <3>2. Resolve(e) = Files[AbsPath(path)]
      BY <2>3, <3>1 DEF Resolve
    <3> QED BY <2>3, <3>2 DEF AbsPath
  <2> QED BY <2>1, <2>2, <2>3
<1>4. e.vis = vis
  BY <1>1, EntryTexts
<1>5. Range(e.repos) = repos
  BY <1>1, EntryTexts
<1> QED BY <1>2, <1>3, <1>4, <1>5 DEF SettledEntry

\* An entry is accepted exactly when its plain node makes sense.
LEMMA EntryIsJudged ==
  ASSUME NEW level \in Levels, NEW n \in Nodes, IsPlainHere(n)
  PROVE  DecodeEntry(level, n) # {} <=> EntryMakesSense(level, n)
<1> DEFINE keys == {"value", "env", "file"} \cup IF level = "org" THEN {"scope", "repos"} ELSE {}
           lists == Under({n}, "repos")
<1>1. RawEntry(level, n) # {} <=> IsMapping(n, keys) /\ \A l \in lists : IsText(l)
  <2>1. RawEntry(level, n) # {} <=>
          n.kind = "mapping" /\ \A i \in DOMAIN n.pairs : IsEntryKey(level, n.pairs[i][1], n.pairs[i][2])
    BY EntryDecoded
  <2>2. lists = {n.pairs[i][2] : i \in At(n, "repos")}
    BY Leads
  <2>3. (\A l \in lists : IsText(l)) <=>
          \A i \in DOMAIN n.pairs : n.pairs[i][1] = "repos" => IsText(n.pairs[i][2])
    BY <2>2 DEF At
  <2>4. KeysOf(n) \subseteq keys <=> \A i \in DOMAIN n.pairs : n.pairs[i][1] \in keys
    BY DEF KeysOf
  <2>5. ASSUME NEW i \in DOMAIN n.pairs
        PROVE  IsEntryKey(level, n.pairs[i][1], n.pairs[i][2]) <=>
                 n.pairs[i][1] \in keys /\ (n.pairs[i][1] = "repos" => IsText(n.pairs[i][2]))
    BY DEF IsEntryKey
  <2> HIDE DEF keys, lists
  <2> QED BY <2>1, <2>3, <2>4, <2>5 DEF IsMapping
<1>2. ASSUME NEW e \in RawEntry(level, n)
      PROVE  /\ SourcesOf(e) = SourcesIn(n)
             /\ (level = "org" => ValidVisibility(e)) <=>
                  /\ "scope" \in KeysOf(n) => TextAt(n, "scope") \in Visibilities
                  /\ TextAt(n, "scope") = "selected" <=> \E l \in lists : l.items # <<>>
  <2>1. SourcesOf(e) = SourcesIn(n)
    <3>1. e.hasValue = ("value" \in KeysOf(n))
      BY EntryTexts
    <3>2. e.env = TextAt(n, "env") /\ e.file = TextAt(n, "file")
      BY EntryTexts
    <3> QED BY <3>1, <3>2 DEF SourcesOf, SourcesIn
  <2>2. e.vis =
          IF level = "repo" THEN "repo" ELSE IF "scope" \in KeysOf(n) THEN TextAt(n, "scope") ELSE "all"
    BY EntryTexts
  <2>3. level = "repo" => TextAt(n, "scope") = "" /\ lists = {}
    BY EntryTexts
  <2>4. e.repos = <<>> <=> \A l \in lists : l.items = <<>>
    BY EntryTexts
  <2>5. "scope" \notin KeysOf(n) => TextAt(n, "scope") = ""
    BY Leads, LeadsNowhere
  <2>6. level = "repo" => "scope" \notin KeysOf(n)
    <3>1. ComesFrom(level, n, e)
      BY EntryDecoded
    <3>2. level = "repo" => At(n, "scope") = {}
      BY <3>1 DEF ComesFrom
    <3> QED BY <3>2, LeadsNowhere
  <2> HIDE DEF lists
  <2>7. CASE level = "repo"
    BY <2>1, <2>3, <2>6, <2>7
  <2>8. CASE level = "org"
    <3>1. CASE "scope" \in KeysOf(n)
      BY <2>1, <2>2, <2>4, <2>8, <3>1 DEF ValidVisibility, Visibilities
    <3>2. CASE "scope" \notin KeysOf(n)
      BY <2>1, <2>2, <2>4, <2>5, <2>8, <3>2 DEF ValidVisibility, Visibilities
    <3> QED BY <3>1, <3>2
  <2> QED BY <2>7, <2>8 DEF Levels
<1>3. DecodeEntry(level, n) =
        {e \in RawEntry(level, n) : ValidSources(e) /\ (level = "org" => ValidVisibility(e))}
  BY EntryDecoded
<1>4. EntryMakesSense(level, n) <=>
        /\ IsMapping(n, keys)
        /\ \E source \in {"value", "env", "file"} : SourcesIn(n) = {source}
        /\ "scope" \in KeysOf(n) => TextAt(n, "scope") \in Visibilities
        /\ \A l \in lists : IsText(l)
        /\ TextAt(n, "scope") = "selected" <=> \E l \in lists : l.items # <<>>
  BY DEF EntryMakesSense
<1> HIDE DEF keys, lists
<1>5. CASE RawEntry(level, n) = {}
  BY <1>1, <1>3, <1>4, <1>5
<1>6. CASE RawEntry(level, n) # {}
  <2>1. PICK e \in RawEntry(level, n) : TRUE
    BY <1>6
  <2>2. \A f \in RawEntry(level, n) : f = e
    BY EntryDecoded
  <2>3. DecodeEntry(level, n) # {} <=> ValidSources(e) /\ (level = "org" => ValidVisibility(e))
    BY <1>3, <2>1, <2>2
  <2>4. ValidSources(e) <=> \E source \in {"value", "env", "file"} : SourcesIn(n) = {source}
    BY <1>2, OneSource
  <2> QED BY <1>1, <1>2, <1>4, <1>6, <2>3, <2>4
<1> QED BY <1>5, <1>6

\* Plain down to the entries below the names, the kinds, ..., the owners.
Plain1(n) == IsPlainHere(n) /\ \A c \in Children(n) : IsPlainHere(c)
Plain2(n) == IsPlainHere(n) /\ \A c \in Children(n) : Plain1(c)
Plain3(n) == IsPlainHere(n) /\ \A c \in Children(n) : Plain2(c)
Plain4(n) == IsPlainHere(n) /\ \A c \in Children(n) : Plain3(c)
Plain5(n) == IsPlainHere(n) /\ \A c \in Children(n) : Plain4(c)
Plain6(n) == IsPlainHere(n) /\ \A c \in Children(n) : Plain5(c)

\* Plainness goes down from a node to what stands below it.
LEMMA Plainness ==
  /\ \A n : IsPlain(n) => Plain6(n)
  /\ \A n : Plain4(n) => Plain3(n)
  /\ \A n : \A key : \A i \in At(n, key) : n.pairs[i][2] \in Children(n)
<1>1. \A n : \A key : \A i \in At(n, key) : n.pairs[i][2] \in Children(n)
  BY DEF At, Children
<1>2. ASSUME NEW n, IsPlain(n) PROVE Plain6(n)
  <2> DEFINE owners  == NextLevel({n})
             layers  == NextLevel(owners)
             blocks  == NextLevel(layers)
             parts   == NextLevel(blocks)
             kinds   == NextLevel(parts)
             entries == NextLevel(kinds)
  <2>1. \A m \in {n} \cup owners \cup layers \cup blocks \cup parts \cup kinds \cup entries : IsPlainHere(m)
    BY <1>2 DEF IsPlain
  <2>2. ASSUME NEW nodes, NEW m \in nodes, NEW c \in Children(m) PROVE c \in NextLevel(nodes)
    BY DEF NextLevel
  <2> HIDE DEF owners, layers, blocks, parts, kinds, entries
  <2>3. \A m \in kinds : Plain1(m)
    BY <2>1, <2>2 DEF entries, Plain1
  <2>4. \A m \in parts : Plain2(m)
    BY <2>1, <2>2, <2>3 DEF kinds, Plain2
  <2>5. \A m \in blocks : Plain3(m)
    BY <2>1, <2>2, <2>4 DEF parts, Plain3
  <2>6. \A m \in layers : Plain4(m)
    BY <2>1, <2>2, <2>5 DEF blocks, Plain4
  <2>7. \A m \in owners : Plain5(m)
    BY <2>1, <2>2, <2>6 DEF layers, Plain5
  <2> QED BY <2>1, <2>2, <2>7 DEF owners, Plain6
<1>3. \A n : Plain2(n) => Plain1(n)
  BY DEF Plain2, Plain1
<1>4. \A n : Plain3(n) => Plain2(n)
  BY <1>3 DEF Plain3, Plain2
<1>5. \A n : Plain4(n) => Plain3(n)
  BY <1>4 DEF Plain4, Plain3
<1> QED BY <1>1, <1>2, <1>5

\* A keyed decoder accepts a mapping all of whose keys it accepts.
LEMMA Judged ==
  ASSUME NEW D, NEW n, NEW zero, NEW keyOf, NEW results, Decodes(D, n, zero, keyOf, results)
  PROVE  D # {} <=> n.kind = "mapping" /\ \A i \in DOMAIN n.pairs : results[i] # {}
BY DEF Decodes, Joins

\* Entries are accepted exactly when all of them make sense.
LEMMA EntriesAreJudged ==
  ASSUME NEW level \in Levels, NEW n \in Nodes, Plain1(n)
  PROVE  DecodeEntries(level, n) # {} <=>
           n.kind = "mapping" /\ \A e \in Children(n) : EntryMakesSense(level, e)
<1>1. DecodeEntries(level, n) # {} <=>
        n.kind = "mapping" /\ \A i \in DOMAIN n.pairs : EntriesAt(level, n)[i] # {}
  BY EntriesDecoded, Judged
<1>2. ASSUME NEW i \in DOMAIN n.pairs
      PROVE  EntriesAt(level, n)[i] # {} <=> EntryMakesSense(level, n.pairs[i][2])
  <2>1. n.pairs[i][2] \in Nodes /\ IsPlainHere(n.pairs[i][2])
    BY Inside DEF Plain1, Children
  <2>2. EntriesAt(level, n)[i] = DecodeEntry(level, n.pairs[i][2])
    BY DEF EntriesAt
  <2> QED BY <2>1, <2>2, EntryIsJudged
<1> QED BY <1>1, <1>2 DEF Children

\* What stands under the name of an entry.
EntryOf(g, name) == IF name \in DOMAIN g THEN SettledEntry(g[name]) ELSE None

\* Accepted entries are, name by name, what their plain node says.
LEMMA EntriesAreRead ==
  ASSUME NEW level \in Levels, NEW n \in Nodes, Plain1(n), NEW g \in DecodeEntries(level, n), NEW name
  PROVE  /\ EntryOf(g, name) = EntryRead(level, Under({n}, name))
         /\ name \in DOMAIN g <=> Under({n}, name) # {}
<1>1. CASE At(n, name) = {}
  <2>1. name \notin DOMAIN g /\ Under({n}, name) = {}
    BY <1>1, EntriesHold, LeadsNowhere
  <2> QED BY <2>1 DEF EntryOf, EntryRead
<1>2. CASE At(n, name) # {}
  <2>1. PICK i \in At(n, name) : g[name] \in DecodeEntry(level, n.pairs[i][2])
    BY <1>2, EntriesHold
  <2>2. name \in DOMAIN g
    BY <1>2, EntriesHold
  <2>3. n.pairs[i][2] \in Nodes /\ IsPlainHere(n.pairs[i][2]) /\ Under({n}, name) = {n.pairs[i][2]}
    BY Found, Plainness, LeadsTo DEF Plain1
  <2>4. SettledEntry(g[name]) = EntryRead(level, {n.pairs[i][2]})
    BY <2>1, <2>3, EntryIsRead
  <2> QED BY <2>2, <2>3, <2>4 DEF EntryOf
<1> QED BY <1>1, <1>2

\* Managed entries are accepted exactly when they make sense.
LEMMA ManagedAreJudged ==
  ASSUME NEW level \in Levels, NEW n \in Nodes, Plain2(n)
  PROVE  DecodeManaged(level, n) # {} <=> ManagedMakesSense(level, n)
<1>1. DecodeManaged(level, n) # {} <=>
        n.kind = "mapping" /\ \A i \in DOMAIN n.pairs : ManagedAt(level, n)[i] # {}
  BY ManagedDecoded, Judged
<1>2. ASSUME NEW i \in DOMAIN n.pairs
      PROVE  ManagedAt(level, n)[i] # {} <=>
               /\ n.pairs[i][1] \in Kinds
               /\ n.pairs[i][2].kind = "mapping"
               /\ \A e \in Children(n.pairs[i][2]) : EntryMakesSense(level, e)
  <2>1. n.pairs[i][2] \in Nodes /\ Plain1(n.pairs[i][2])
    BY Inside DEF Plain2, Children
  <2>2. ManagedAt(level, n)[i] =
          IF n.pairs[i][1] \in Kinds THEN DecodeEntries(level, n.pairs[i][2]) ELSE {}
    BY DEF ManagedAt
  <2> QED BY <2>1, <2>2, EntriesAreJudged
<1>3. ManagedMakesSense(level, n) <=>
        /\ n.kind = "mapping"
        /\ \A i \in DOMAIN n.pairs : n.pairs[i][1] \in Kinds
        /\ \A i \in DOMAIN n.pairs :
             /\ n.pairs[i][2].kind = "mapping"
             /\ \A e \in Children(n.pairs[i][2]) : EntryMakesSense(level, e)
  <2>2. KeysOf(n) \subseteq Kinds <=> \A i \in DOMAIN n.pairs : n.pairs[i][1] \in Kinds
    BY DEF KeysOf
  <2>3. (\A entries \in Children(n) :
           entries.kind = "mapping" /\ \A e \in Children(entries) : EntryMakesSense(level, e)) <=>
        \A i \in DOMAIN n.pairs :
             /\ n.pairs[i][2].kind = "mapping"
             /\ \A e \in Children(n.pairs[i][2]) : EntryMakesSense(level, e)
    <3>1. \A c : c \in Children(n) <=> \E i \in DOMAIN n.pairs : c = n.pairs[i][2]
      BY DEF Children
    <3> QED BY <3>1
  <2> QED BY <2>2, <2>3 DEF ManagedMakesSense, IsMapping
<1> QED BY <1>1, <1>2, <1>3

\* Accepted entries are, kind by kind and name by name, what the node says.
LEMMA ManagedAreRead ==
  ASSUME NEW level \in Levels, NEW n \in Nodes, Plain2(n), NEW g \in DecodeManaged(level, n),
         NEW kind \in Kinds, NEW name
  PROVE  /\ EntryOf(g[kind], name) = EntryRead(level, Under(Under({n}, kind), name))
         /\ name \in DOMAIN g[kind] <=> Under(Under({n}, kind), name) # {}
<1>1. CASE At(n, kind) = {}
  <2>1. g[kind] = Nothing /\ Under({n}, kind) = {}
    BY <1>1, ManagedHolds, LeadsNowhere
  <2>2. Under({}, name) = {}
    BY DEF Under
  <2>3. DOMAIN Nothing = {}
    BY DEF Nothing
  <2> QED BY <2>1, <2>2, <2>3 DEF EntryOf, EntryRead
<1>2. CASE At(n, kind) # {}
  <2>1. PICK i \in At(n, kind) : g[kind] \in DecodeEntries(level, n.pairs[i][2])
    BY <1>2, ManagedHolds
  <2>2. n.pairs[i][2] \in Nodes /\ Plain1(n.pairs[i][2]) /\ Under({n}, kind) = {n.pairs[i][2]}
    BY Found, Plainness, LeadsTo DEF Plain2
  <2> DEFINE m == n.pairs[i][2]
             h == g[kind]
  <2>3. m \in Nodes /\ Plain1(m) /\ h \in DecodeEntries(level, m)
    BY <2>1, <2>2
  <2> HIDE DEF m, h
  <2>4. /\ EntryOf(h, name) = EntryRead(level, Under({m}, name))
        /\ name \in DOMAIN h <=> Under({m}, name) # {}
    BY <2>3, EntriesAreRead
  <2> QED BY <2>2, <2>4 DEF m, h
<1> QED BY <1>1, <1>2

\* Lists of ignored names are accepted exactly when they make sense.
LEMMA IgnoredAreJudged ==
  ASSUME NEW n \in Nodes
  PROVE  DecodeIgnored(n) # {} <=> IgnoredMakesSense(n)
<1>1. DecodeIgnored(n) # {} <=> n.kind = "mapping" /\ \A i \in DOMAIN n.pairs : ListsAt(n)[i] # {}
  BY IgnoredDecoded, Judged
<1>2. ASSUME NEW i \in DOMAIN n.pairs
      PROVE  ListsAt(n)[i] # {} <=> n.pairs[i][1] \in Kinds /\ IsText(n.pairs[i][2])
  <2>1. n.pairs[i][2] \in Nodes
    BY Inside
  <2>2. ListsAt(n)[i] = IF n.pairs[i][1] \in Kinds THEN DecodeStringList(n.pairs[i][2]) ELSE {}
    BY DEF ListsAt
  <2> QED BY <2>1, <2>2, TextLists
<1>3. KeysOf(n) \subseteq Kinds <=> \A i \in DOMAIN n.pairs : n.pairs[i][1] \in Kinds
  BY DEF KeysOf
<1>4. (\A l \in Children(n) : IsText(l)) <=> \A i \in DOMAIN n.pairs : IsText(n.pairs[i][2])
  BY DEF Children
<1> QED BY <1>1, <1>2, <1>3, <1>4 DEF IgnoredMakesSense, IsMapping

\* An accepted list holds what its plain node says.
LEMMA IgnoredAreRead ==
  ASSUME NEW n \in Nodes, IsPlainHere(n), NEW g \in DecodeIgnored(n), NEW kind \in Kinds
  PROVE  Range(g[kind]) = UNION {TextsIn(l) : l \in Under({n}, kind)}
<1>1. CASE At(n, kind) = {}
  <2>1. g[kind] = <<>> /\ Under({n}, kind) = {}
    BY <1>1, IgnoredHolds, LeadsNowhere
  <2>2. Range(<<>>) = {}
    BY DEF Range
  <2> QED BY <2>1, <2>2
<1>2. CASE At(n, kind) # {}
  <2>1. PICK i \in At(n, kind) : g[kind] \in DecodeStringList(n.pairs[i][2])
    BY <1>2, IgnoredHolds
  <2>2. n.pairs[i][2] \in Nodes /\ Under({n}, kind) = {n.pairs[i][2]}
    BY Found, LeadsTo
  <2>3. Range(g[kind]) = TextsIn(n.pairs[i][2])
    BY <2>1, <2>2, TextLists
  <2> QED BY <2>2, <2>3
<1> QED BY <1>1, <1>2

\* The two parts of a block, validated or not, are what its plain node says.
LEMMA BlockManages ==
  ASSUME NEW level \in Levels, NEW n \in Nodes, Plain3(n), NEW b \in RawBlock(level, n),
         NEW kind \in Kinds, NEW name
  PROVE  /\ EntryOf(b.managed[kind], name) = EntryRead(level, Under(Under(Under({n}, "managed"), kind), name))
         /\ name \in DOMAIN b.managed[kind] <=> Under(Under(Under({n}, "managed"), kind), name) # {}
<1> DEFINE g == b.managed
<1>1. CASE At(n, "managed") = {}
  <2>1. g = NoEntries /\ Under({n}, "managed") = {}
    BY <1>1, BlockHolds, LeadsNowhere
  <2>2. NoEntries[kind] = Nothing /\ DOMAIN Nothing = {}
    BY DEF NoEntries, Nothing
  <2>3. Under(Under({}, kind), name) = {}
    BY DEF Under
  <2> HIDE DEF g
  <2>4. name \notin DOMAIN g[kind]
    BY <2>1, <2>2
  <2>5. EntryRead(level, {}) = None /\ EntryOf(g[kind], name) = None
    BY <2>4 DEF EntryRead, EntryOf
  <2> QED BY <2>1, <2>3, <2>4, <2>5 DEF g
<1>2. CASE At(n, "managed") # {}
  <2>1. PICK i \in At(n, "managed") : g \in DecodeManaged(level, n.pairs[i][2])
    BY <1>2, BlockHolds
  <2> DEFINE m == n.pairs[i][2]
  <2>2. m \in Nodes /\ Plain2(m) /\ Under({n}, "managed") = {m}
    BY Found, Plainness, LeadsTo DEF Plain3
  <2>3. g \in DecodeManaged(level, m)
    BY <2>1
  <2> HIDE DEF m, g
  <2>4. /\ EntryOf(g[kind], name) = EntryRead(level, Under(Under({m}, kind), name))
        /\ name \in DOMAIN g[kind] <=> Under(Under({m}, kind), name) # {}
    BY <2>2, <2>3, ManagedAreRead
  <2> QED BY <2>2, <2>4 DEF g
<1> QED BY <1>1, <1>2

\* The ignored names of a block are those of its plain node.
LEMMA BlockIgnores ==
  ASSUME NEW level \in Levels, NEW n \in Nodes, Plain3(n), NEW b \in RawBlock(level, n), NEW kind \in Kinds
  PROVE  Range(b.ignored[kind]) = IgnoredTexts({n}, kind)
<1> DEFINE g == b.ignored
<1>1. CASE At(n, "ignored") = {}
  <2>1. g = NoLists /\ Under({n}, "ignored") = {}
    BY <1>1, BlockHolds, LeadsNowhere
  <2>2. NoLists[kind] = <<>> /\ Range(<<>>) = {}
    BY DEF NoLists, Range
  <2>3. Under({}, kind) = {}
    BY DEF Under
  <2> HIDE DEF g
  <2> QED BY <2>1, <2>2, <2>3 DEF IgnoredTexts, g
<1>2. CASE At(n, "ignored") # {}
  <2>1. PICK i \in At(n, "ignored") : g \in DecodeIgnored(n.pairs[i][2])
    BY <1>2, BlockHolds
  <2> DEFINE m == n.pairs[i][2]
  <2>2. m \in Nodes /\ IsPlainHere(m) /\ Under({n}, "ignored") = {m}
    BY Found, Plainness, LeadsTo DEF Plain3, Plain2
  <2>3. g \in DecodeIgnored(m)
    BY <2>1
  <2> HIDE DEF m, g
  <2>4. Range(g[kind]) = UNION {TextsIn(l) : l \in Under({m}, kind)}
    BY <2>2, <2>3, IgnoredAreRead
  <2> QED BY <2>2, <2>4 DEF IgnoredTexts, g
<1> QED BY <1>1, <1>2

\* A block is accepted exactly when its plain node makes sense.
LEMMA BlockIsJudged ==
  ASSUME NEW level \in Levels, NEW n \in Nodes, Plain3(n)
  PROVE  DecodeBlock(level, n) # {} <=> BlockMakesSense(level, n)
<1> DEFINE managed == Under({n}, "managed")
           ignored == Under({n}, "ignored")
<1>1. DecodeBlock(level, n) = {b \in RawBlock(level, n) : NoConflict(b)}
  BY BlockDecoded
<1>2. RawBlock(level, n) # {} <=>
        n.kind = "mapping" /\ \A i \in DOMAIN n.pairs : BlockAt(level, n)[i] # {}
  BY BlockDecoded, Judged
<1>3. ASSUME NEW i \in DOMAIN n.pairs
      PROVE  BlockAt(level, n)[i] # {} <=>
               /\ n.pairs[i][1] \in {"managed", "ignored"}
               /\ n.pairs[i][1] = "managed" => ManagedMakesSense(level, n.pairs[i][2])
               /\ n.pairs[i][1] = "ignored" => IgnoredMakesSense(n.pairs[i][2])
  <2>1. n.pairs[i][2] \in Nodes /\ Plain2(n.pairs[i][2])
    BY Inside DEF Plain3, Children
  <2>2. DecodeManaged(level, n.pairs[i][2]) # {} <=> ManagedMakesSense(level, n.pairs[i][2])
    BY <2>1, ManagedAreJudged
  <2>3. DecodeIgnored(n.pairs[i][2]) # {} <=> IgnoredMakesSense(n.pairs[i][2])
    BY <2>1, IgnoredAreJudged
  <2>4. CASE n.pairs[i][1] = "managed"
    BY <2>2, <2>4 DEF BlockAt
  <2>5. CASE n.pairs[i][1] = "ignored"
    BY <2>3, <2>5 DEF BlockAt
  <2>6. CASE n.pairs[i][1] \notin {"managed", "ignored"}
    BY <2>6 DEF BlockAt
  <2> QED BY <2>4, <2>5, <2>6
<1>4. RawBlock(level, n) # {} <=>
        /\ IsMapping(n, {"managed", "ignored"})
        /\ \A section \in managed : ManagedMakesSense(level, section)
        /\ \A section \in ignored : IgnoredMakesSense(section)
  <2>1. KeysOf(n) \subseteq {"managed", "ignored"} <=>
          \A i \in DOMAIN n.pairs : n.pairs[i][1] \in {"managed", "ignored"}
    BY DEF KeysOf
  <2>2. (\A section \in managed : ManagedMakesSense(level, section)) <=>
          \A i \in DOMAIN n.pairs : n.pairs[i][1] = "managed" => ManagedMakesSense(level, n.pairs[i][2])
    <3>1. managed = {n.pairs[i][2] : i \in At(n, "managed")}
      BY Leads
    <3> HIDE DEF managed
    <3>2. \A section : section \in managed <=>
            \E i \in DOMAIN n.pairs : n.pairs[i][1] = "managed" /\ section = n.pairs[i][2]
      BY <3>1 DEF At
    <3> QED BY <3>2
  <2>3. (\A section \in ignored : IgnoredMakesSense(section)) <=>
          \A i \in DOMAIN n.pairs : n.pairs[i][1] = "ignored" => IgnoredMakesSense(n.pairs[i][2])
    <3>1. ignored = {n.pairs[i][2] : i \in At(n, "ignored")}
      BY Leads
    <3> HIDE DEF ignored
    <3>2. \A section : section \in ignored <=>
            \E i \in DOMAIN n.pairs : n.pairs[i][1] = "ignored" /\ section = n.pairs[i][2]
      BY <3>1 DEF At
    <3> QED BY <3>2
  <2> HIDE DEF managed, ignored
  <2> QED BY <1>2, <1>3, <2>1, <2>2, <2>3 DEF IsMapping
<1>5. ASSUME NEW b \in RawBlock(level, n)
      PROVE  NoConflict(b) <=>
               \A kind \in Kinds : \A text \in IgnoredTexts({n}, kind) : Under(Under(managed, kind), text) = {}
  <2>1. ASSUME NEW kind \in Kinds PROVE Range(b.ignored[kind]) = IgnoredTexts({n}, kind)
    BY BlockIgnores
  <2>2. ASSUME NEW kind \in Kinds, NEW text
        PROVE  text \in DOMAIN b.managed[kind] <=> Under(Under(managed, kind), text) # {}
    BY BlockManages
  <2> HIDE DEF managed
  <2>3. ASSUME NEW kind \in Kinds
        PROVE  Range(b.ignored[kind]) \cap DOMAIN b.managed[kind] = {} <=>
                 \A text \in IgnoredTexts({n}, kind) : Under(Under(managed, kind), text) = {}
    <3>1. Range(b.ignored[kind]) = IgnoredTexts({n}, kind)
      BY <2>1
    <3> QED BY <2>2, <3>1
  <2> QED BY <2>3 DEF NoConflict
<1>6. BlockMakesSense(level, n) <=>
        /\ IsMapping(n, {"managed", "ignored"})
        /\ \A section \in managed : ManagedMakesSense(level, section)
        /\ \A section \in ignored : IgnoredMakesSense(section)
        /\ \A kind \in Kinds : \A text \in IgnoredTexts({n}, kind) : Under(Under(managed, kind), text) = {}
  BY DEF BlockMakesSense
<1> HIDE DEF managed, ignored
<1>7. \A b, c \in RawBlock(level, n) : b = c
  BY BlockDecoded DEF Decodes, Joins
<1> QED BY <1>1, <1>4, <1>5, <1>6, <1>7

\* An accepted block is what its plain node says.
LEMMA BlockIsRead ==
  ASSUME NEW level \in Levels, NEW n \in Nodes, Plain3(n), NEW b \in DecodeBlock(level, n)
  PROVE  SettledBlock(b) = BlockRead(level, {n})
<1>1. b \in RawBlock(level, n)
  BY BlockDecoded
<1>2. ASSUME NEW k \in Keys PROVE Kind(k) \in Kinds
  BY NamesAssumption DEF Kind
<1>3. ASSUME NEW k \in Keys
      PROVE  (IF NameOf(k) \in DOMAIN b.managed[Kind(k)] THEN SettledEntry(b.managed[Kind(k)][NameOf(k)]) ELSE None)
               = EntryRead(level, Under(Under(Under({n}, "managed"), Kind(k)), NameOf(k)))
  BY <1>1, <1>2, BlockManages DEF EntryOf
<1>4. ASSUME NEW k \in Keys PROVE Range(b.ignored[Kind(k)]) = IgnoredTexts({n}, Kind(k))
  BY <1>1, <1>2, BlockIgnores
<1>5. SettledBlock(b) =
        [managed |-> [k \in Keys |-> IF NameOf(k) \in DOMAIN b.managed[Kind(k)]
                                     THEN SettledEntry(b.managed[Kind(k)][NameOf(k)]) ELSE None],
         ignored |-> {k \in Keys : NameOf(k) \in Range(b.ignored[Kind(k)])}]
  BY DEF SettledBlock
<1>6. BlockRead(level, {n}) =
        [managed |-> [k \in Keys |->
                        EntryRead(level, Under(Under(Under({n}, "managed"), Kind(k)), NameOf(k)))],
         ignored |-> {k \in Keys : NameOf(k) \in IgnoredTexts({n}, Kind(k))}]
  BY DEF BlockRead
<1>7. [k \in Keys |-> IF NameOf(k) \in DOMAIN b.managed[Kind(k)]
                      THEN SettledEntry(b.managed[Kind(k)][NameOf(k)]) ELSE None]
        = [k \in Keys |-> EntryRead(level, Under(Under(Under({n}, "managed"), Kind(k)), NameOf(k)))]
  BY <1>3
<1>8. {k \in Keys : NameOf(k) \in Range(b.ignored[Kind(k)])} =
        {k \in Keys : NameOf(k) \in IgnoredTexts({n}, Kind(k))}
  BY <1>4
<1> QED BY <1>5, <1>6, <1>7, <1>8

\* A section of an owner is accepted exactly when its plain node makes sense.
LEMMA OwnerIsJudged ==
  ASSUME NEW n \in Nodes, Plain5(n)
  PROVE  DecodeOrg(n) # {} <=> OwnerMakesSense(n)
<1> DEFINE org == Under({n}, "org")
           all == Under({n}, "all-repos")
           per == Under({n}, "per-repo")
           PerMakesSense(v) == v.kind = "mapping" /\ \A b \in Children(v) : BlockMakesSense("repo", b)
<1>1. DecodeOrg(n) # {} <=>
        n.kind = "mapping" /\ \A i \in DOMAIN n.pairs : OwnerPart(n.pairs[i][1], n.pairs[i][2]) # {}
  BY OwnerDecoded
<1>2. ASSUME NEW i \in DOMAIN n.pairs
      PROVE  OwnerPart(n.pairs[i][1], n.pairs[i][2]) # {} <=>
               /\ n.pairs[i][1] \in {"org", "all-repos", "per-repo"}
               /\ n.pairs[i][1] = "org" => BlockMakesSense("org", n.pairs[i][2])
               /\ n.pairs[i][1] = "all-repos" => BlockMakesSense("repo", n.pairs[i][2])
               /\ n.pairs[i][1] = "per-repo" => PerMakesSense(n.pairs[i][2])
  <2> DEFINE key == n.pairs[i][1]
             v == n.pairs[i][2]
  <2>1. v \in Nodes /\ Plain4(v) /\ Plain3(v)
    BY Inside, Plainness DEF Plain5, Children
  <2> HIDE DEF key, v
  <2>2. OwnerPart(key, v) # {} <=>
              \/ key \in {"org", "all-repos"} /\ DecodeBlock(LevelOf(key), v) # {}
              \/ key = "per-repo" /\ DecodeRepos(v) # {}
    BY <2>1, OwnerParts
  <2>3. \A level \in Levels : DecodeBlock(level, v) # {} <=> BlockMakesSense(level, v)
    BY <2>1, BlockIsJudged
  <2>4. DecodeRepos(v) # {} <=> PerMakesSense(v)
    <3>1. DecodeRepos(v) # {} <=> v.kind = "mapping" /\ \A j \in DOMAIN v.pairs : ReposAt(v)[j] # {}
      BY <2>1, ReposDecoded, Judged
    <3>2. ASSUME NEW j \in DOMAIN v.pairs
          PROVE  ReposAt(v)[j] # {} <=> BlockMakesSense("repo", v.pairs[j][2])
      <4>1. v.pairs[j][2] \in Nodes /\ Plain3(v.pairs[j][2])
        BY <2>1, Inside DEF Plain4, Children
      <4>2. ReposAt(v)[j] = DecodeBlock("repo", v.pairs[j][2]) /\ "repo" \in Levels
        BY DEF ReposAt, Levels
      <4> QED BY <4>1, <4>2, BlockIsJudged
    <3>3. (\A b \in Children(v) : BlockMakesSense("repo", b)) <=>
            \A j \in DOMAIN v.pairs : BlockMakesSense("repo", v.pairs[j][2])
      BY DEF Children
    <3> QED BY <3>1, <3>2, <3>3
  <2> HIDE DEF PerMakesSense
  <2>5. OwnerPart(key, v) # {} <=>
               /\ key \in {"org", "all-repos", "per-repo"}
               /\ key = "org" => BlockMakesSense("org", v)
               /\ key = "all-repos" => BlockMakesSense("repo", v)
               /\ key = "per-repo" => PerMakesSense(v)
    BY <2>2, <2>3, <2>4 DEF LevelOf, Levels
  <2> QED BY <2>5 DEF key, v
<1>3. KeysOf(n) \subseteq {"org", "all-repos", "per-repo"} <=>
        \A i \in DOMAIN n.pairs : n.pairs[i][1] \in {"org", "all-repos", "per-repo"}
  BY DEF KeysOf
<1>4. ASSUME NEW key
      PROVE  \A v : v \in Under({n}, key) <=> \E i \in DOMAIN n.pairs : n.pairs[i][1] = key /\ v = n.pairs[i][2]
  <2>1. Under({n}, key) = {n.pairs[i][2] : i \in At(n, key)}
    BY Leads
  <2> QED BY <2>1 DEF At
<1>5. OwnerMakesSense(n) <=>
        /\ IsMapping(n, {"org", "all-repos", "per-repo"})
        /\ \A b \in org : BlockMakesSense("org", b)
        /\ \A b \in all : BlockMakesSense("repo", b)
        /\ \A v \in per : PerMakesSense(v)
  BY DEF OwnerMakesSense
<1>9. /\ \A v : v \in org <=> \E i \in DOMAIN n.pairs : n.pairs[i][1] = "org" /\ v = n.pairs[i][2]
      /\ \A v : v \in all <=> \E i \in DOMAIN n.pairs : n.pairs[i][1] = "all-repos" /\ v = n.pairs[i][2]
      /\ \A v : v \in per <=> \E i \in DOMAIN n.pairs : n.pairs[i][1] = "per-repo" /\ v = n.pairs[i][2]
  <2> DEFINE Leading(nodes, key) ==
               \A v : v \in nodes <=> \E i \in DOMAIN n.pairs : n.pairs[i][1] = key /\ v = n.pairs[i][2]
  <2>1. \A key : Leading(Under({n}, key), key)
    BY <1>4
  <2> HIDE DEF Leading
  <2>2. Leading(org, "org") /\ Leading(all, "all-repos") /\ Leading(per, "per-repo")
    BY <2>1
  <2> QED BY <2>2 DEF Leading
<1> HIDE DEF PerMakesSense, org, all, per
<1>6. (\A b \in org : BlockMakesSense("org", b)) <=>
        \A i \in DOMAIN n.pairs : n.pairs[i][1] = "org" => BlockMakesSense("org", n.pairs[i][2])
  BY <1>9
<1>7. (\A b \in all : BlockMakesSense("repo", b)) <=>
        \A i \in DOMAIN n.pairs : n.pairs[i][1] = "all-repos" => BlockMakesSense("repo", n.pairs[i][2])
  BY <1>9
<1>8. (\A v \in per : PerMakesSense(v)) <=>
        \A i \in DOMAIN n.pairs : n.pairs[i][1] = "per-repo" => PerMakesSense(n.pairs[i][2])
  BY <1>9
<1> QED BY <1>1, <1>2, <1>3, <1>5, <1>6, <1>7, <1>8 DEF IsMapping

\* An accepted section of an owner is what its plain node says.
LEMMA OwnerIsRead ==
  ASSUME NEW n \in Nodes, Plain5(n), NEW o \in DecodeOrg(n)
  PROVE  Settled(o) = Reading({n})
<1>1. HasBlocks(o, n)
  BY OwnerDecoded
<1>2. \A level : BlockRead(level, {}) = None
  BY DEF BlockRead
<1>3. ASSUME NEW layer \in {"org", "all-repos"}
      PROVE  BlockOf(o, <<layer, "">>) = BlockRead(LevelOf(layer), Under({n}, layer))
  <2>1. CASE At(n, layer) = {}
    <3>1. Under({n}, layer) = {} /\ <<layer, "">> \notin DOMAIN o
      BY <1>1, <2>1, LeadsNowhere DEF HasBlocks
    <3> QED BY <1>2, <3>1 DEF BlockOf
  <2>2. CASE At(n, layer) # {}
    <3>1. PICK i \in At(n, layer) : o[<<layer, "">>] \in DecodeBlock(LevelOf(layer), n.pairs[i][2])
      BY <1>1, <2>2 DEF HasBlocks
    <3>2. <<layer, "">> \in DOMAIN o
      BY <1>1, <2>2 DEF HasBlocks
    <3> DEFINE v == n.pairs[i][2]
               b == o[<<layer, "">>]
    <3>3. v \in Nodes /\ Plain3(v) /\ Under({n}, layer) = {v} /\ b \in DecodeBlock(LevelOf(layer), v)
      <4>1. v \in Nodes /\ Under({n}, layer) = {v}
        BY Found, LeadsTo DEF Plain5
      <4>2. Plain3(v)
        BY Plainness DEF Plain5
      <4> QED BY <3>1, <4>1, <4>2
    <3>4. BlockOf(o, <<layer, "">>) = SettledBlock(b)
      BY <3>2 DEF BlockOf
    <3> HIDE DEF v, b
    <3>5. LevelOf(layer) \in Levels
      BY DEF LevelOf, Levels
    <3> QED BY <3>3, <3>4, <3>5, BlockIsRead
  <2> QED BY <2>1, <2>2
<1>4. ASSUME NEW r
      PROVE  BlockOf(o, <<"per-repo", r>>) = BlockRead("repo", Under(Under({n}, "per-repo"), r))
  <2> DEFINE at == <<"per-repo", r>>
  <2>1. /\ at \in DOMAIN o <=> \E i \in At(n, "per-repo") : At(n.pairs[i][2], r) # {}
        /\ at \in DOMAIN o =>
             \E i \in At(n, "per-repo") : \E j \in At(n.pairs[i][2], r) :
                o[at] \in DecodeBlock("repo", n.pairs[i][2].pairs[j][2])
    BY <1>1 DEF HasBlocks
  <2> HIDE DEF at
  <2>2. CASE At(n, "per-repo") = {}
    <3>1. Under({n}, "per-repo") = {} /\ at \notin DOMAIN o
      BY <2>1, <2>2, LeadsNowhere
    <3>2. Under({}, r) = {}
      BY DEF Under
    <3> QED BY <1>2, <3>1, <3>2 DEF BlockOf, at
  <2>3. CASE At(n, "per-repo") # {}
    <3>1. PICK i \in At(n, "per-repo") : TRUE
      BY <2>3
    <3>2. At(n, "per-repo") = {i}
      BY Leads DEF Plain5
    <3> DEFINE v == n.pairs[i][2]
    <3>3. v \in Nodes /\ Plain4(v) /\ IsPlainHere(v) /\ Under({n}, "per-repo") = {v}
      BY Found, Plainness, LeadsTo DEF Plain5, Plain4
    <3>4. /\ at \in DOMAIN o <=> At(v, r) # {}
          /\ at \in DOMAIN o => \E j \in At(v, r) : o[at] \in DecodeBlock("repo", v.pairs[j][2])
      BY <2>1, <3>2
    <3> HIDE DEF v
    <3>5. CASE At(v, r) = {}
      <4>1. Under({v}, r) = {} /\ at \notin DOMAIN o
        BY <3>3, <3>4, <3>5, LeadsNowhere
      <4> QED BY <1>2, <3>3, <4>1 DEF BlockOf, at
    <3>6. CASE At(v, r) # {}
      <4>1. PICK j \in At(v, r) : o[at] \in DecodeBlock("repo", v.pairs[j][2])
        BY <3>4, <3>6
      <4> DEFINE w == v.pairs[j][2]
                 b == o[at]
      <4>2. w \in Nodes /\ Plain3(w) /\ Under({v}, r) = {w} /\ b \in DecodeBlock("repo", w)
        BY <3>3, <4>1, Found, Plainness, LeadsTo DEF Plain4
      <4>3. BlockOf(o, at) = SettledBlock(b)
        BY <3>4, <3>6 DEF BlockOf
      <4> HIDE DEF w, b
      <4>4. "repo" \in Levels
        BY DEF Levels
      <4> QED BY <3>3, <4>2, <4>3, <4>4, BlockIsRead DEF at
    <3> QED BY <3>5, <3>6
  <2> QED BY <2>2, <2>3
<1>5. Settled(o) = [org |-> BlockOf(o, <<"org", "">>), all |-> BlockOf(o, <<"all-repos", "">>),
                    per |-> [r \in Repos |-> BlockOf(o, <<"per-repo", r>>)]]
  BY DEF Settled
<1>6. Reading({n}) = [org |-> BlockRead("org", Under({n}, "org")),
                      all |-> BlockRead("repo", Under({n}, "all-repos")),
                      per |-> [r \in Repos |-> BlockRead("repo", Under(Under({n}, "per-repo"), r))]]
  BY DEF Reading
<1>7. /\ BlockOf(o, <<"org", "">>) = BlockRead("org", Under({n}, "org"))
      /\ BlockOf(o, <<"all-repos", "">>) = BlockRead("repo", Under({n}, "all-repos"))
  BY <1>3 DEF LevelOf
<1>8. [r \in Repos |-> BlockOf(o, <<"per-repo", r>>)]
        = [r \in Repos |-> BlockRead("repo", Under(Under({n}, "per-repo"), r))]
  BY <1>4
<1> QED BY <1>5, <1>6, <1>7, <1>8

\* The section of the host in a plain file, if there is one.
LEMMA HostOf ==
  ASSUME NEW root \in Nodes, NEW i \in At(root, "github.com"),
         \A j, k \in DOMAIN root.pairs :
           root.pairs[j][1] = "github.com" /\ root.pairs[k][1] = "github.com" => j = k,
         \A n \in Under({root}, "github.com") : IsPlain(n)
  PROVE  /\ Under({root}, "github.com") = {root.pairs[i][2]}
         /\ root.pairs[i][2] \in Nodes
         /\ Plain6(root.pairs[i][2])
         /\ At(root, "github.com") = {i}
<1>1. At(root, "github.com") = {i}
  BY DEF At
<1>2. Under({root}, "github.com") = {root.pairs[j][2] : j \in At(root, "github.com")}
  BY Leads
<1>3. Under({root}, "github.com") = {root.pairs[i][2]}
  BY <1>1, <1>2
<1> QED BY <1>1, <1>3, Found, Plainness

\* A plain file is accepted exactly when it makes sense, and what was accepted
\* is what it says.
LEMMA FileIsRead ==
  ASSUME NEW file \in Documents, file # Unparsable, file # <<>>,
         \A i, j \in DOMAIN file[1].pairs :
           file[1].pairs[i][1] = "github.com" /\ file[1].pairs[j][1] = "github.com" => i = j,
         \A n \in Under({file[1]}, "github.com") : IsPlain(n)
  PROVE  /\ LoadBytes(file) # {} <=> MakesSense(file[1])
         /\ \A orgs \in LoadBytes(file) : \A owner :
              LET section == Under(Under({file[1]}, "github.com"), owner)
              IN /\ owner \in DOMAIN orgs <=> section # {}
                 /\ owner \in DOMAIN orgs => Settled(orgs[owner]) = Reading(section)
<1> DEFINE root == file[1]
           found == At(root, "github.com")
<1>1. /\ root \in Nodes
      /\ root.kind # "mapping" => LoadBytes(file) = {}
      /\ root.kind = "mapping" /\ found = {} => LoadBytes(file) = {Nothing}
      /\ root.kind = "mapping" /\ found # {} =>
           \E i \in found : LoadBytes(file) = DecodeHost(root.pairs[i][2])
  BY FileDecoded
<1>2. CASE root.kind # "mapping"
  BY <1>1, <1>2 DEF MakesSense
<1>3. CASE root.kind = "mapping" /\ found = {}
  <2>1. Under({root}, "github.com") = {}
    BY <1>1, <1>3, LeadsNowhere
  <2>2. MakesSense(root)
    BY <1>3, <2>1 DEF MakesSense
  <2>3. DOMAIN Nothing = {}
    BY DEF Nothing
  <2>4. \A owner : Under({}, owner) = {}
    BY DEF Under
  <2> QED BY <1>1, <1>3, <2>1, <2>2, <2>3, <2>4
<1>4. CASE root.kind = "mapping" /\ found # {}
  <2>1. PICK i \in found : LoadBytes(file) = DecodeHost(root.pairs[i][2])
    BY <1>1, <1>4
  <2> DEFINE host == root.pairs[i][2]
  <2>2. Under({root}, "github.com") = {host} /\ host \in Nodes /\ Plain6(host)
    BY <1>1, HostOf
  <2>3. LoadBytes(file) = DecodeHost(host)
    BY <2>1
  <2> HIDE DEF host
  <2>4. IsPlainHere(host) /\ \A c \in Children(host) : Plain5(c)
    BY <2>2 DEF Plain6
  <2>5. DecodeHost(host) # {} <=> MakesSense(root)
    <3>1. DecodeHost(host) # {} <=>
            host.kind = "mapping" /\ \A j \in DOMAIN host.pairs : OwnersAt(host)[j] # {}
      BY <2>2, HostDecoded, Judged
    <3>2. ASSUME NEW j \in DOMAIN host.pairs
          PROVE  OwnersAt(host)[j] # {} <=> OwnerMakesSense(host.pairs[j][2])
      <4>1. host.pairs[j][2] \in Nodes /\ Plain5(host.pairs[j][2])
        BY <2>2, <2>4, Inside DEF Children
      <4>2. OwnersAt(host)[j] = DecodeOrg(host.pairs[j][2])
        BY DEF OwnersAt
      <4> QED BY <4>1, <4>2, OwnerIsJudged
    <3>3. (\A o \in Children(host) : OwnerMakesSense(o)) <=>
            \A j \in DOMAIN host.pairs : OwnerMakesSense(host.pairs[j][2])
      BY DEF Children
    <3>4. MakesSense(root) <=> host.kind = "mapping" /\ \A o \in Children(host) : OwnerMakesSense(o)
      BY <1>4, <2>2 DEF MakesSense
    <3> QED BY <3>1, <3>2, <3>3, <3>4
  <2>6. ASSUME NEW orgs \in DecodeHost(host), NEW owner
        PROVE  /\ owner \in DOMAIN orgs <=> Under({host}, owner) # {}
               /\ owner \in DOMAIN orgs => Settled(orgs[owner]) = Reading(Under({host}, owner))
    <3>1. owner \in DOMAIN orgs <=> At(host, owner) # {}
      BY <2>2, HostHolds
    <3>2. CASE At(host, owner) = {}
      BY <2>2, <3>1, <3>2, LeadsNowhere
    <3>3. CASE At(host, owner) # {}
      <4>1. PICK j \in At(host, owner) : orgs[owner] \in DecodeOrg(host.pairs[j][2])
        BY <2>2, <3>3, HostHolds
      <4> DEFINE v == host.pairs[j][2]
                 o == orgs[owner]
      <4>2. v \in Nodes /\ Under({host}, owner) = {v} /\ o \in DecodeOrg(v)
        BY <2>2, <2>4, <4>1, Found, LeadsTo
      <4>3. Plain5(v)
        BY <2>4, Plainness
      <4> HIDE DEF v
      <4>4. Settled(o) = Reading({v})
        <5> HIDE DEF o
        <5> QED BY <4>2, <4>3, OwnerIsRead
      <4> QED BY <3>1, <3>3, <4>2, <4>4
    <3> QED BY <3>2, <3>3
  <2> QED BY <2>2, <2>3, <2>5, <2>6
<1> QED BY <1>2, <1>3, <1>4

\* A file is refused exactly when some owner's section does not make sense.
THEOREM RefusesNothingElse == Spec => []RefusesOnlyBadDocuments
<1>1. CommandInv => RefusesOnlyBadDocuments
  <2> SUFFICES ASSUME CommandInv, loaded # None, Untouched, IsPlainFile
               PROVE  loaded # Refused <=> MakesSense(disk[1])
    BY DEF RefusesOnlyBadDocuments
  <2>1. disk \in Documents /\ disk # Absent /\ disk # Unparsable /\ disk # <<>>
    BY DEF CommandInv, CommandTypeOK, Untouched
  <2>2. loaded = LoadBytes(disk)
    BY <2>1 DEF CommandInv, LoadOf, Untouched
  <2> QED BY <2>1, <2>2, FileIsRead DEF IsPlainFile, Refused
<1> QED BY CommandStarts, CommandSteps, <1>1, PTL DEF Spec

\* Nothing of an accepted file is lost, moved, or given another meaning.
THEOREM LoadingKeepsMeaning == Spec => []LoadKeepsMeaning
<1>1. CommandInv => LoadKeepsMeaning
  <2> SUFFICES ASSUME CommandInv, loaded # None, Untouched, IsPlainFile,
                      NEW orgs \in loaded, NEW owner \in Owners
               PROVE  /\ owner \in DOMAIN orgs <=> Sections(owner) # {}
                      /\ owner \in DOMAIN orgs => Settled(orgs[owner]) = Reading(Sections(owner))
    BY DEF LoadKeepsMeaning
  <2>1. disk \in Documents /\ disk # Absent /\ disk # Unparsable /\ disk # <<>>
    BY DEF CommandInv, CommandTypeOK, Untouched
  <2>2. orgs \in LoadBytes(disk)
    BY <2>1 DEF CommandInv, LoadOf, Untouched
  <2> QED BY <2>1, <2>2, FileIsRead DEF IsPlainFile, Sections
<1> QED BY CommandStarts, CommandSteps, <1>1, PTL DEF Spec

=============================================================================
