----------------------------- MODULE RequestProofs -----------------------------
(* What a request for a job passes through, for every value of the constants  *)
(* of NotionDiscovery and JobRequest: the listing of the documents, the       *)
(* checks of the Memos instance, the expansion of what was selected and the   *)
(* job that is stored.                                                       *)
(*                                                                         *)
(* Each fold of NotionDiscovery is a recursive function over the sets of     *)
(* positions; that it has values is shown by way of the least number without. *)
EXTENDS JobRequest, DocumentOrder, SequenceTheorems, FiniteSetTheorems, FunctionTheorems,
        WellFoundedInduction, TLAPS

-----------------------------------------------------------------------------
(* Induction, by sets.                                                     *)

Below == {p \in Nat \X Nat : p[1] < p[2]}

\* A set of numbers has a least one.
LEMMA LeastNumber ==
  ASSUME NEW T \in SUBSET Nat, T # {}
  PROVE  \E n \in T : \A m \in T : n <= m
  <1>1. IsWellFoundedOn(Below, Nat)
    BY NatLessThanWellFounded, Zenon DEF OpToRel, Below
  <1>2. PICK n \in T : \A m \in T : ~(<<m, n>> \in Below)
    BY <1>1, WFMin, Zenon
  <1>3. ASSUME NEW m \in T PROVE n <= m
    <2>1. m \in Nat /\ n \in Nat
      OBVIOUS
    <2>2. ~(m < n)
      BY <1>2, <2>1 DEF Below
    <2> QED
      BY <2>1, <2>2
  <1> QED
    BY <1>3

\* What holds of 0, and of each number if it holds of the one before, holds up to n.
LEMMA UpTo ==
  ASSUME NEW n \in Nat, NEW P, 0 \in P, \A k \in 1..n : k - 1 \in P => k \in P
  PROVE  \A k \in 0..n : k \in P
  <1> SUFFICES ASSUME (0..n) \ P # {} PROVE FALSE
    OBVIOUS
  <1>0. (0..n) \ P \in SUBSET Nat
    OBVIOUS
  <1>1. PICK k \in (0..n) \ P : \A m \in (0..n) \ P : k <= m
    BY <1>0, LeastNumber
  <1>2. k \in 1..n /\ k - 1 \in 0..n /\ ~(k <= k - 1)
    BY <1>1
  <1>3. k - 1 \in P
    BY <1>1, <1>2
  <1> QED
    BY <1>1, <1>2, <1>3

\* A set of numbers that are not more than n has a greatest one.
LEMMA GreatestNumber ==
  ASSUME NEW n \in Nat, NEW S \in SUBSET (0..n), S # {}
  PROVE  Max(S) \in S /\ \A k \in S : k <= Max(S)
  <1> DEFINE T == {n - k : k \in S}
  <1>0. \A k \in S : n - k \in Nat
    OBVIOUS
  <1>1. T \in SUBSET Nat /\ T # {}
    BY <1>0
  <1>2. PICK t \in T : \A m \in T : t <= m
    BY <1>1, LeastNumber
  <1>3. PICK g \in S : t = n - g
    BY <1>2
  <1>4. ASSUME NEW k \in S PROVE g >= k /\ k <= g
    <2>1. t <= n - k /\ k \in 0..n /\ g \in 0..n
      BY <1>2
    <2> QED
      BY <1>3, <2>1
  <1>5. \E x \in S : \A y \in S : x >= y
    BY <1>4
  <1>6. Max(S) \in S /\ \A y \in S : Max(S) >= y
    BY <1>5 DEF Max
  <1>7. ASSUME NEW k \in S PROVE k <= Max(S)
    <2>1. Max(S) >= k /\ Max(S) \in 0..n /\ k \in 0..n
      BY <1>6
    <2> QED
      BY <2>1
  <1> QED
    BY <1>6, <1>7

\* The greatest is found.
LEMMA IsGreatest ==
  ASSUME NEW S \in SUBSET Nat, NEW g \in S, \A k \in S : k <= g
  PROVE  Max(S) = g
  <1>1. \A k \in S : g >= k
    OBVIOUS
  <1>2. Max(S) \in S /\ \A k \in S : Max(S) >= k
    BY <1>1 DEF Max
  <1>3. Max(S) \in Nat /\ g \in Nat /\ Max(S) >= g /\ Max(S) <= g
    BY <1>2
  <1> QED
    BY <1>3

-----------------------------------------------------------------------------
(* Folds.                                                                  *)

\* The function that FoldLeft is made of, for the step F and the base b.
Folds(f, n, b, F) ==
  f = [z \in SUBSET (1..n) |-> IF z = {} THEN b ELSE F[<<Max(z), f[z \ {Max(z)}]>>]]

\* There is one.
LEMMA FoldExists ==
  ASSUME NEW n \in Nat, NEW D, NEW b \in D, NEW F \in [(1..n) \X D -> D]
  PROVE  \E f \in [SUBSET (1..n) -> D] :
           /\ Folds(f, n, b, F)
           /\ \A z \in SUBSET (1..n) : z # {} => Max(z) \in 1..n /\ f[z \ {Max(z)}] \in D
  <1> DEFINE IsFold(f, m) ==
        \A z \in SUBSET (1..m) : f[z] = IF z = {} THEN b ELSE F[<<Max(z), f[z \ {Max(z)}]>>]
      P == {m \in 0..n : \E f \in [SUBSET (1..m) -> D] : IsFold(f, m)}
  <1>1. 0 \in P
    <2> DEFINE f == [z \in SUBSET (1..0) |-> b]
    <2>1. f \in [SUBSET (1..0) -> D]
      OBVIOUS
    <2>2. \A z \in SUBSET (1..0) : z = {} /\ f[z] = b
      OBVIOUS
    <2>3. IsFold(f, 0)
      BY <2>2
    <2> HIDE DEF f
    <2>4. \E g \in [SUBSET (1..0) -> D] : IsFold(g, 0)
      BY <2>1, <2>3, Zenon
    <2>5. 0 \in 0..n
      OBVIOUS
    <2> QED
      BY <2>4, <2>5
  <1>2. ASSUME NEW m \in 1..n, m - 1 \in P PROVE m \in P
    <2>1. PICK g \in [SUBSET (1..(m - 1)) -> D] : IsFold(g, m - 1)
      BY <1>2
    <2> DEFINE f == [z \in SUBSET (1..m) |-> IF m \in z THEN F[<<m, g[z \ {m}]>>] ELSE g[z]]
    <2>2. ASSUME NEW z \in SUBSET (1..m)
          PROVE  /\ m \in z => Max(z) = m /\ z \ {m} \in SUBSET (1..(m - 1))
                 /\ m \notin z => z \in SUBSET (1..(m - 1))
      <3>1. CASE m \in z
        <4>1. \A k \in z : k \in Nat /\ k <= m
          OBVIOUS
        <4>2. Max(z) = m
          BY <3>1, <4>1, IsGreatest
        <4> QED
          BY <3>1, <4>2
      <3>2. CASE m \notin z
        BY <3>2
      <3> QED
        BY <3>1, <3>2
    <2>3. f \in [SUBSET (1..m) -> D]
      <3> SUFFICES ASSUME NEW z \in SUBSET (1..m)
                   PROVE  (IF m \in z THEN F[<<m, g[z \ {m}]>>] ELSE g[z]) \in D
        OBVIOUS
      <3>1. m \in z => g[z \ {m}] \in D
        BY <2>2
      <3>2. m \notin z => g[z] \in D
        BY <2>2
      <3> QED
        BY <3>1, <3>2
    <2>4. ASSUME NEW z \in SUBSET (1..m)
          PROVE  f[z] = IF z = {} THEN b ELSE F[<<Max(z), f[z \ {Max(z)}]>>]
      <3>1. CASE m \in z
        <4>1. Max(z) = m /\ m \notin z \ {m} /\ z \ {m} \in SUBSET (1..m)
          BY <2>2, <3>1
        <4>2. f[z \ {m}] = g[z \ {m}]
          BY <4>1
        <4>3. f[z] = F[<<m, g[z \ {m}]>>]
          BY <3>1
        <4> QED
          BY <3>1, <4>1, <4>2, <4>3
      <3>2. CASE m \notin z /\ z # {}
        <4>1. z \in SUBSET (1..(m - 1)) /\ z \in SUBSET (0..m)
          BY <2>2, <3>2
        <4>2. Max(z) \in z
          <5>1. m \in Nat
            OBVIOUS
          <5> QED
            BY <3>2, <4>1, <5>1, GreatestNumber
        <4>3. /\ f[z] = g[z]
              /\ z \ {Max(z)} \in SUBSET (1..m) /\ m \notin z \ {Max(z)}
          BY <3>2, <4>1
        <4>4. f[z \ {Max(z)}] = g[z \ {Max(z)}]
          BY <4>3
        <4> QED
          BY <2>1, <3>2, <4>1, <4>3, <4>4
      <3>3. CASE z = {}
        <4>1. f[z] = g[z] /\ z \in SUBSET (1..(m - 1))
          BY <3>3
        <4> QED
          BY <2>1, <3>3, <4>1
      <3> QED
        BY <3>1, <3>2, <3>3
    <2> HIDE DEF f
    <2>5. IsFold(f, m)
      BY <2>4
    <2>6. \E h \in [SUBSET (1..m) -> D] : IsFold(h, m)
      BY <2>3, <2>5, Zenon
    <2>7. m \in 0..n
      OBVIOUS
    <2> QED
      BY <2>6, <2>7
  <1>3. n \in P
    <2> HIDE DEF P
    <2>1. \A k \in 0..n : k \in P
      BY <1>1, <1>2, UpTo
    <2> QED
      BY <2>1
  <1>4. PICK f \in [SUBSET (1..n) -> D] : IsFold(f, n)
    BY <1>3
  <1>5. f = [z \in SUBSET (1..n) |-> f[z]]
    OBVIOUS
  <1>6. ASSUME NEW z \in SUBSET (1..n), z # {}
        PROVE  Max(z) \in 1..n /\ f[z \ {Max(z)}] \in D
    <2>1. z \in SUBSET (0..n)
      OBVIOUS
    <2>2. Max(z) \in z
      BY <1>6, <2>1, GreatestNumber
    <2> QED
      BY <2>2
  <1>7. Folds(f, n, b, F)
    BY <1>4, <1>5 DEF Folds
  <1> QED
    BY <1>6, <1>7

\* The positions up to k, as a fold takes them.
LEMMA Positions ==
  ASSUME NEW n \in Nat, NEW k \in 1..n
  PROVE  /\ 1..k \in SUBSET (1..n) /\ 1..k # {} /\ (1..k) \ {k} = 1..(k - 1)
         /\ Max(1..k) = k
  BY IsGreatest

-----------------------------------------------------------------------------
(* What the operators of NotionDiscovery that are folds do.                *)

\* addUnseen, one position after the other.
LEMMA AddUnseenSteps ==
  ASSUME NEW S, NEW s \in Seq(S), NEW new \in Seq(S)
  PROVE  \E h :
           /\ h[0] = s
           /\ \A k \in 1..Len(new) :
                h[k] = IF new[k] \in ToSet(h[k - 1]) THEN h[k - 1] ELSE Append(h[k - 1], new[k])
           /\ addUnseen(s, new) = h[Len(new)]
  <1> DEFINE n == Len(new)
             step(k, acc) == IF new[k] \in ToSet(acc) THEN acc ELSE Append(acc, new[k])
             F == [p \in (1..n) \X Seq(S) |-> step(p[1], p[2])]
             IsFold(f) == f = [z \in SUBSET (DOMAIN new) |->
                            IF z = {} THEN s ELSE step(Max(z), f[z \ {Max(z)}])]
             g == CHOOSE f : IsFold(f)
             h == [k \in 0..n |-> g[1..k]]
  <1>1. n \in Nat /\ DOMAIN new = 1..n
    BY LenProperties
  <1>2. \A k \in 1..n, acc \in Seq(S) : step(k, acc) \in Seq(S)
    BY ElementOfSeq, AppendProperties
  <1>3. F \in [(1..n) \X Seq(S) -> Seq(S)]
    BY <1>2
  <1>4. PICK f \in [SUBSET (1..n) -> Seq(S)] :
          /\ Folds(f, n, s, F)
          /\ \A z \in SUBSET (1..n) : z # {} => Max(z) \in 1..n /\ f[z \ {Max(z)}] \in Seq(S)
    <2> HIDE DEF F, n
    <2> QED
      BY <1>1, <1>3, FoldExists
  <1>5. IsFold(f)
    <2>1. ASSUME NEW z \in SUBSET (1..n), z # {}
          PROVE  F[<<Max(z), f[z \ {Max(z)}]>>] = step(Max(z), f[z \ {Max(z)}])
      BY <1>4, <2>1
    <2> HIDE DEF F, n, step
    <2> QED
      BY <1>1, <1>4, <2>1 DEF Folds
  <1>6. IsFold(g)
    <2> HIDE DEF IsFold
    <2> QED
      BY <1>5
  <1>7. addUnseen(s, new) = g[DOMAIN new]
    BY Zenon DEF addUnseen, FoldLeft, MapThenFoldSet
  <1>8. h[0] = s
    <2>1. 0 \in 0..n /\ 1..0 = {} /\ {} \in SUBSET (DOMAIN new)
      BY <1>1
    <2> HIDE DEF g, n, step
    <2> QED
      BY <1>6, <2>1
  <1>9. ASSUME NEW k \in 1..n PROVE h[k] = step(k, h[k - 1])
    <2>1. k \in 0..n /\ k - 1 \in 0..n
      BY <1>1
    <2> HIDE DEF g, n, step
    <2>2. h[k] = g[1..k] /\ h[k - 1] = g[1..(k - 1)]
      BY <2>1
    <2>3. /\ 1..k \in SUBSET (DOMAIN new) /\ 1..k # {}
          /\ Max(1..k) = k /\ (1..k) \ {k} = 1..(k - 1)
      BY <1>1, Positions
    <2>4. g[1..k] = step(Max(1..k), g[(1..k) \ {Max(1..k)}])
      BY <1>6, <2>3
    <2> QED
      BY <2>2, <2>3, <2>4
  <1>10. h[n] = addUnseen(s, new)
    <2> HIDE DEF g
    <2> QED
      BY <1>1, <1>7
  <1> HIDE DEF h
  <1> QED
    BY <1>8, <1>9, <1>10

\* addRefs, in the same way.
LEMMA AddRefsSteps ==
  ASSUME NEW S, refs \in Seq(S), \A i \in Ids : Ref(i) \in S, NEW new \in Seq(Ids)
  PROVE  \E h :
           /\ h[0] = refs
           /\ \A k \in 1..Len(new) :
                h[k] = IF new[k] \in Listed(h[k - 1]) THEN h[k - 1]
                       ELSE Append(h[k - 1], Ref(new[k]))
           /\ addRefs(new) = h[Len(new)]
  <1> DEFINE n == Len(new)
             step(k, acc) == IF new[k] \in Listed(acc) THEN acc ELSE Append(acc, Ref(new[k]))
             F == [p \in (1..n) \X Seq(S) |-> step(p[1], p[2])]
             IsFold(f) == f = [z \in SUBSET (DOMAIN new) |->
                            IF z = {} THEN refs ELSE step(Max(z), f[z \ {Max(z)}])]
             g == CHOOSE f : IsFold(f)
             h == [k \in 0..n |-> g[1..k]]
  <1>1. n \in Nat /\ DOMAIN new = 1..n
    BY LenProperties
  <1>2. \A k \in 1..n, acc \in Seq(S) : step(k, acc) \in Seq(S)
    BY ElementOfSeq, AppendProperties
  <1>3. F \in [(1..n) \X Seq(S) -> Seq(S)]
    BY <1>2
  <1>4. PICK f \in [SUBSET (1..n) -> Seq(S)] :
          /\ Folds(f, n, refs, F)
          /\ \A z \in SUBSET (1..n) : z # {} => Max(z) \in 1..n /\ f[z \ {Max(z)}] \in Seq(S)
    <2> HIDE DEF F, n
    <2> QED
      BY <1>1, <1>3, FoldExists
  <1>5. IsFold(f)
    <2>1. ASSUME NEW z \in SUBSET (1..n), z # {}
          PROVE  F[<<Max(z), f[z \ {Max(z)}]>>] = step(Max(z), f[z \ {Max(z)}])
      BY <1>4, <2>1
    <2> HIDE DEF F, n, step
    <2> QED
      BY <1>1, <1>4, <2>1 DEF Folds
  <1>6. IsFold(g)
    <2> HIDE DEF IsFold
    <2> QED
      BY <1>5
  <1>7. addRefs(new) = g[DOMAIN new]
    BY Zenon DEF addRefs, FoldLeft, MapThenFoldSet
  <1>8. h[0] = refs
    <2>1. 0 \in 0..n /\ 1..0 = {} /\ {} \in SUBSET (DOMAIN new)
      BY <1>1
    <2> HIDE DEF g, n, step
    <2> QED
      BY <1>6, <2>1
  <1>9. ASSUME NEW k \in 1..n PROVE h[k] = step(k, h[k - 1])
    <2>1. k \in 0..n /\ k - 1 \in 0..n
      BY <1>1
    <2> HIDE DEF g, n, step
    <2>2. h[k] = g[1..k] /\ h[k - 1] = g[1..(k - 1)]
      BY <2>1
    <2>3. /\ 1..k \in SUBSET (DOMAIN new) /\ 1..k # {}
          /\ Max(1..k) = k /\ (1..k) \ {k} = 1..(k - 1)
      BY <1>1, Positions
    <2>4. g[1..k] = step(Max(1..k), g[(1..k) \ {Max(1..k)}])
      BY <1>6, <2>3
    <2> QED
      BY <2>2, <2>3, <2>4
  <1>10. h[n] = addRefs(new)
    <2> HIDE DEF g
    <2> QED
      BY <1>1, <1>7
  <1> HIDE DEF h
  <1> QED
    BY <1>8, <1>9, <1>10

\* addPages, in the same way.
LEMMA AddPagesSteps ==
  ASSUME NEW S, pageIDs \in Seq(S), NEW new \in Seq(S)
  PROVE  \E h :
           /\ h[0] = pageIDs
           /\ \A k \in 1..Len(new) :
                h[k] = IF source[new[k]].kind = "page" THEN Append(h[k - 1], new[k]) ELSE h[k - 1]
           /\ addPages(new) = h[Len(new)]
  <1> DEFINE n == Len(new)
             step(k, acc) == IF source[new[k]].kind = "page" THEN Append(acc, new[k]) ELSE acc
             F == [p \in (1..n) \X Seq(S) |-> step(p[1], p[2])]
             IsFold(f) == f = [z \in SUBSET (DOMAIN new) |->
                            IF z = {} THEN pageIDs ELSE step(Max(z), f[z \ {Max(z)}])]
             g == CHOOSE f : IsFold(f)
             h == [k \in 0..n |-> g[1..k]]
  <1>1. n \in Nat /\ DOMAIN new = 1..n
    BY LenProperties
  <1>2. \A k \in 1..n, acc \in Seq(S) : step(k, acc) \in Seq(S)
    BY ElementOfSeq, AppendProperties
  <1>3. F \in [(1..n) \X Seq(S) -> Seq(S)]
    BY <1>2
  <1>4. PICK f \in [SUBSET (1..n) -> Seq(S)] :
          /\ Folds(f, n, pageIDs, F)
          /\ \A z \in SUBSET (1..n) : z # {} => Max(z) \in 1..n /\ f[z \ {Max(z)}] \in Seq(S)
    <2> HIDE DEF F, n
    <2> QED
      BY <1>1, <1>3, FoldExists
  <1>5. IsFold(f)
    <2>1. ASSUME NEW z \in SUBSET (1..n), z # {}
          PROVE  F[<<Max(z), f[z \ {Max(z)}]>>] = step(Max(z), f[z \ {Max(z)}])
      BY <1>4, <2>1
    <2> HIDE DEF F, n, step
    <2> QED
      BY <1>1, <1>4, <2>1 DEF Folds
  <1>6. IsFold(g)
    <2> HIDE DEF IsFold
    <2> QED
      BY <1>5
  <1>7. addPages(new) = g[DOMAIN new]
    BY Zenon DEF addPages, FoldLeft, MapThenFoldSet
  <1>8. h[0] = pageIDs
    <2>1. 0 \in 0..n /\ 1..0 = {} /\ {} \in SUBSET (DOMAIN new)
      BY <1>1
    <2> HIDE DEF g, n, step
    <2> QED
      BY <1>6, <2>1
  <1>9. ASSUME NEW k \in 1..n PROVE h[k] = step(k, h[k - 1])
    <2>1. k \in 0..n /\ k - 1 \in 0..n
      BY <1>1
    <2> HIDE DEF g, n, step
    <2>2. h[k] = g[1..k] /\ h[k - 1] = g[1..(k - 1)]
      BY <2>1
    <2>3. /\ 1..k \in SUBSET (DOMAIN new) /\ 1..k # {}
          /\ Max(1..k) = k /\ (1..k) \ {k} = 1..(k - 1)
      BY <1>1, Positions
    <2>4. g[1..k] = step(Max(1..k), g[(1..k) \ {Max(1..k)}])
      BY <1>6, <2>3
    <2> QED
      BY <2>2, <2>3, <2>4
  <1>10. h[n] = addPages(new)
    <2> HIDE DEF g
    <2> QED
      BY <1>1, <1>7
  <1> HIDE DEF h
  <1> QED
    BY <1>8, <1>9, <1>10

\* What an appended element adds.
LEMMA AppendAdds ==
  ASSUME NEW S, NEW s \in Seq(S), NEW e \in S
  PROVE  /\ Append(s, e) \in Seq(S) /\ Len(Append(s, e)) = Len(s) + 1 /\ Len(s) \in Nat
         /\ DOMAIN s = 1..Len(s) /\ DOMAIN Append(s, e) = 1..(Len(s) + 1)
         /\ \A k \in 1..Len(s) : Append(s, e)[k] = s[k]
         /\ Append(s, e)[Len(s) + 1] = e
         /\ ToSet(Append(s, e)) = ToSet(s) \cup {e}
  <1>1. /\ Append(s, e) \in Seq(S) /\ Len(Append(s, e)) = Len(s) + 1 /\ Len(s) \in Nat
        /\ DOMAIN s = 1..Len(s) /\ DOMAIN Append(s, e) = 1..(Len(s) + 1)
        /\ \A k \in 1..Len(s) : Append(s, e)[k] = s[k]
        /\ Append(s, e)[Len(s) + 1] = e
    BY AppendProperties, LenProperties
  <1>2. \A k \in 1..(Len(s) + 1) : k \in 1..Len(s) \/ k = Len(s) + 1
    BY <1>1
  <1>3. 1..Len(s) \subseteq 1..(Len(s) + 1) /\ Len(s) + 1 \in 1..(Len(s) + 1)
    BY <1>1
  <1>4. ToSet(Append(s, e)) = ToSet(s) \cup {e}
    BY <1>1, <1>2, <1>3 DEF ToSet
  <1> QED
    BY <1>1, <1>4

\* A new element keeps a sequence without repetition.
LEMMA AppendKeepsInjective ==
  ASSUME NEW S, NEW s \in Seq(S), NEW e \in S, IsInjective(s), e \notin ToSet(s)
  PROVE  IsInjective(Append(s, e))
  <1> DEFINE a == Append(s, e)
  <1>1. /\ DOMAIN s = 1..Len(s) /\ DOMAIN a = 1..(Len(s) + 1) /\ Len(s) \in Nat
        /\ \A k \in 1..Len(s) : a[k] = s[k]
        /\ a[Len(s) + 1] = e
    BY AppendAdds
  <1>2. \A k \in 1..Len(s) : a[k] # e
    BY <1>1 DEF ToSet
  <1>3. ASSUME NEW k \in DOMAIN a, NEW m \in DOMAIN a, a[k] = a[m] PROVE k = m
    <2>1. CASE k \in 1..Len(s) /\ m \in 1..Len(s)
      BY <1>1, <1>3, <2>1 DEF IsInjective
    <2>2. CASE k \notin 1..Len(s) \/ m \notin 1..Len(s)
      <3>1. k = Len(s) + 1 \/ m = Len(s) + 1
        BY <1>1, <2>2
      <3> QED
        BY <1>1, <1>2, <1>3, <3>1
    <2> QED
      BY <2>1, <2>2
  <1> HIDE DEF a
  <1> QED
    BY <1>3 DEF IsInjective, a

\* addUnseen adds what is new, once.
LEMMA AddUnseenResult ==
  ASSUME NEW S, NEW s \in Seq(S), NEW new \in Seq(S), IsInjective(s)
  PROVE  /\ addUnseen(s, new) \in Seq(S)
         /\ IsInjective(addUnseen(s, new))
         /\ ToSet(addUnseen(s, new)) = ToSet(s) \cup ToSet(new)
  <1> DEFINE n == Len(new)
  <1>1. n \in Nat /\ DOMAIN new = 1..n /\ \A k \in 1..n : new[k] \in S
    BY LenProperties, ElementOfSeq
  <1>2. PICK h :
          /\ h[0] = s
          /\ \A k \in 1..n :
               h[k] = IF new[k] \in ToSet(h[k - 1]) THEN h[k - 1] ELSE Append(h[k - 1], new[k])
          /\ addUnseen(s, new) = h[n]
    BY AddUnseenSteps
  <1> DEFINE P == {k \in 0..n : /\ h[k] \in Seq(S) /\ IsInjective(h[k])
                               /\ ToSet(h[k]) = ToSet(s) \cup {new[i] : i \in 1..k}}
  <1>3. 0 \in P
    BY <1>1, <1>2
  <1>4. ASSUME NEW k \in 1..n, k - 1 \in P PROVE k \in P
    <2>1. /\ h[k - 1] \in Seq(S) /\ IsInjective(h[k - 1])
          /\ ToSet(h[k - 1]) = ToSet(s) \cup {new[i] : i \in 1..(k - 1)}
      BY <1>4
    <2>2. k \in 0..n /\ new[k] \in S
      BY <1>1
    <2>3. {new[i] : i \in 1..k} = {new[i] : i \in 1..(k - 1)} \cup {new[k]}
      <3>1. \A i \in 1..k : i \in 1..(k - 1) \/ i = k
        OBVIOUS
      <3>2. 1..(k - 1) \subseteq 1..k /\ k \in 1..k
        OBVIOUS
      <3> QED
        BY <3>1, <3>2
    <2>4. CASE new[k] \in ToSet(h[k - 1])
      <3>1. h[k] = h[k - 1]
        BY <1>2, <2>4
      <3> QED
        BY <2>1, <2>2, <2>3, <2>4, <3>1
    <2>5. CASE new[k] \notin ToSet(h[k - 1])
      <3>1. h[k] = Append(h[k - 1], new[k])
        BY <1>2, <2>5
      <3>2. h[k] \in Seq(S) /\ ToSet(h[k]) = ToSet(h[k - 1]) \cup {new[k]}
        BY <2>1, <2>2, <3>1, AppendAdds
      <3>3. IsInjective(h[k])
        BY <2>1, <2>2, <2>5, <3>1, AppendKeepsInjective
      <3> QED
        BY <2>1, <2>2, <2>3, <3>2, <3>3
    <2> QED
      BY <2>4, <2>5
  <1>5. n \in P
    <2> HIDE DEF P, n
    <2>1. \A k \in 0..n : k \in P
      BY <1>1, <1>3, <1>4, UpTo
    <2>2. n \in 0..n
      BY <1>1
    <2> QED
      BY <2>1, <2>2
  <1>6. ToSet(new) = {new[i] : i \in 1..n}
    BY <1>1 DEF ToSet
  <1> QED
    BY <1>2, <1>5, <1>6

\* addPages adds the pages.
LEMMA AddPagesResult ==
  ASSUME pageIDs \in Seq(Ids), NEW new \in Seq(Ids)
  PROVE  /\ addPages(new) \in Seq(Ids)
         /\ ToSet(addPages(new)) = ToSet(pageIDs) \cup {i \in ToSet(new) : source[i].kind = "page"}
  <1> DEFINE n == Len(new)
             isPage(i) == source[i].kind = "page"
  <1>1. n \in Nat /\ DOMAIN new = 1..n /\ \A k \in 1..n : new[k] \in Ids
    BY LenProperties, ElementOfSeq
  <1>2. PICK h :
          /\ h[0] = pageIDs
          /\ \A k \in 1..n : h[k] = IF isPage(new[k]) THEN Append(h[k - 1], new[k]) ELSE h[k - 1]
          /\ addPages(new) = h[n]
    BY AddPagesSteps
  <1> HIDE DEF isPage
  <1> DEFINE pages(k) == {i \in {new[m] : m \in 1..k} : isPage(i)}
             P == {k \in 0..n : h[k] \in Seq(Ids) /\ ToSet(h[k]) = ToSet(pageIDs) \cup pages(k)}
  <1>3. 0 \in P
    BY <1>1, <1>2
  <1>4. ASSUME NEW k \in 1..n, k - 1 \in P PROVE k \in P
    <2>1. h[k - 1] \in Seq(Ids) /\ ToSet(h[k - 1]) = ToSet(pageIDs) \cup pages(k - 1)
      BY <1>4
    <2>2. k \in 0..n /\ new[k] \in Ids
      BY <1>1
    <2>3. pages(k) = pages(k - 1) \cup (IF isPage(new[k]) THEN {new[k]} ELSE {})
      <3>1. \A i \in 1..k : i \in 1..(k - 1) \/ i = k
        OBVIOUS
      <3>2. 1..(k - 1) \subseteq 1..k /\ k \in 1..k
        OBVIOUS
      <3> QED
        BY <3>1, <3>2
    <2>4. CASE isPage(new[k])
      <3>1. h[k] = Append(h[k - 1], new[k])
        BY <1>2, <2>4
      <3>2. h[k] \in Seq(Ids) /\ ToSet(h[k]) = ToSet(h[k - 1]) \cup {new[k]}
        BY <2>1, <2>2, <3>1, AppendAdds
      <3> QED
        BY <2>1, <2>2, <2>3, <2>4, <3>2
    <2>5. CASE ~isPage(new[k])
      <3>1. h[k] = h[k - 1]
        BY <1>2, <2>5
      <3> QED
        BY <2>1, <2>2, <2>3, <2>5, <3>1
    <2> QED
      BY <2>4, <2>5
  <1>5. n \in P
    <2> HIDE DEF P, n
    <2>1. \A k \in 0..n : k \in P
      BY <1>1, <1>3, <1>4, UpTo
    <2>2. n \in 0..n
      BY <1>1
    <2> QED
      BY <2>1, <2>2
  <1>6. ToSet(new) = {new[i] : i \in 1..n}
    BY <1>1 DEF ToSet
  <1> QED
    BY <1>2, <1>5, <1>6 DEF isPage

\* A ref as the types have it.
Refs == [id : Ids, parent : Ids \cup {None}, kind : Kinds, at : 0..MaxEdits]

IDs(rs) == [k \in DOMAIN rs |-> rs[k].id]

\* addRefs lists what is new, once.
LEMMA AddRefsResult ==
  ASSUME refs \in Seq(Refs), \A i \in Ids : Ref(i) \in Refs, NEW new \in Seq(Ids),
         IsInjective(IDs(refs))
  PROVE  /\ addRefs(new) \in Seq(Refs)
         /\ IsInjective(IDs(addRefs(new)))
         /\ Listed(addRefs(new)) = Listed(refs) \cup ToSet(new)
         /\ Len(addRefs(new)) <= Len(refs) + Len(new)
  <1> DEFINE n == Len(new)
  <1>1. n \in Nat /\ DOMAIN new = 1..n /\ Len(refs) \in Nat /\ \A k \in 1..n : new[k] \in Ids
    BY LenProperties, ElementOfSeq
  <1>2. PICK h :
          /\ h[0] = refs
          /\ \A k \in 1..n :
               h[k] = IF new[k] \in Listed(h[k - 1]) THEN h[k - 1]
                      ELSE Append(h[k - 1], Ref(new[k]))
          /\ addRefs(new) = h[n]
    BY AddRefsSteps
  <1> DEFINE P == {k \in 0..n : /\ h[k] \in Seq(Refs) /\ IsInjective(IDs(h[k]))
                               /\ Listed(h[k]) = Listed(refs) \cup {new[i] : i \in 1..k}
                               /\ Len(h[k]) <= Len(refs) + k}
  <1>3. 0 \in P
    BY <1>1, <1>2
  <1>4. ASSUME NEW k \in 1..n, k - 1 \in P PROVE k \in P
    <2>1. /\ h[k - 1] \in Seq(Refs) /\ IsInjective(IDs(h[k - 1]))
          /\ Listed(h[k - 1]) = Listed(refs) \cup {new[i] : i \in 1..(k - 1)}
          /\ Len(h[k - 1]) <= Len(refs) + (k - 1) /\ Len(h[k - 1]) \in Nat
      BY <1>4, LenProperties
    <2>2. k \in 0..n /\ new[k] \in Ids /\ Ref(new[k]) \in Refs /\ Ref(new[k]).id = new[k]
      BY <1>1 DEF Ref
    <2>3. {new[i] : i \in 1..k} = {new[i] : i \in 1..(k - 1)} \cup {new[k]}
      <3>1. \A i \in 1..k : i \in 1..(k - 1) \/ i = k
        OBVIOUS
      <3>2. 1..(k - 1) \subseteq 1..k /\ k \in 1..k
        OBVIOUS
      <3> QED
        BY <3>1, <3>2
    <2>4. CASE new[k] \in Listed(h[k - 1])
      <3>1. h[k] = h[k - 1]
        BY <1>2, <2>4
      <3>2. Len(h[k]) <= Len(refs) + k
        BY <1>1, <2>1, <3>1
      <3> QED
        BY <2>1, <2>2, <2>3, <2>4, <3>1, <3>2
    <2>5. CASE new[k] \notin Listed(h[k - 1])
      <3> DEFINE old == h[k - 1]
                 l == Len(old)
      <3>1. h[k] = Append(old, Ref(new[k]))
        BY <1>2, <2>5
      <3>2. /\ h[k] \in Seq(Refs) /\ Len(h[k]) = l + 1 /\ l \in Nat
            /\ DOMAIN old = 1..l /\ DOMAIN h[k] = 1..(l + 1)
            /\ \A i \in 1..l : h[k][i] = old[i]
            /\ h[k][l + 1] = Ref(new[k])
        BY <2>1, <2>2, <3>1, AppendAdds
      <3>3. /\ DOMAIN IDs(h[k]) = 1..(l + 1) /\ DOMAIN IDs(old) = 1..l
            /\ \A i \in 1..l : IDs(h[k])[i] = IDs(old)[i] /\ IDs(old)[i] \in Listed(old)
            /\ IDs(h[k])[l + 1] = new[k]
        <4>1. 1..l \subseteq 1..(l + 1) /\ l + 1 \in 1..(l + 1)
          BY <3>2
        <4> HIDE DEF l, old
        <4>2. /\ DOMAIN IDs(h[k]) = 1..(l + 1) /\ DOMAIN IDs(old) = 1..l
              /\ \A i \in 1..(l + 1) : IDs(h[k])[i] = h[k][i].id
              /\ \A i \in 1..l : IDs(old)[i] = old[i].id
          BY <3>2 DEF IDs
        <4>3. \A i \in 1..l : old[i].id \in Listed(old)
          BY <3>2 DEF Listed
        <4>4. \A i \in 1..l : IDs(h[k])[i] = IDs(old)[i]
          BY <3>2, <4>1, <4>2
        <4>5. IDs(h[k])[l + 1] = new[k]
          BY <2>2, <3>2, <4>1, <4>2
        <4> QED
          BY <4>2, <4>3, <4>4, <4>5
      <3>4. Listed(h[k]) = Listed(old) \cup {new[k]}
        <4>1. \A i \in 1..(l + 1) : i \in 1..l \/ i = l + 1
          BY <3>2
        <4>2. 1..l \subseteq 1..(l + 1) /\ l + 1 \in 1..(l + 1)
          BY <3>2
        <4> HIDE DEF l, old
        <4> QED
          BY <2>2, <3>2, <4>1, <4>2 DEF Listed
      <3>5. IsInjective(IDs(h[k]))
        <4> SUFFICES ASSUME NEW i \in 1..(l + 1), NEW m \in 1..(l + 1), IDs(h[k])[i] = IDs(h[k])[m]
                     PROVE  i = m
          BY <3>3 DEF IsInjective
        <4>1. CASE i \in 1..l /\ m \in 1..l
          BY <2>1, <3>3, <4>1 DEF IsInjective
        <4>2. CASE ~(i \in 1..l /\ m \in 1..l)
          <5>0. l \in Nat
            BY <3>2
          <5>1. i = l + 1 \/ m = l + 1
            <6> HIDE DEF l, old
            <6> QED
              BY <4>2, <5>0
          <5>2. \A j \in 1..l : IDs(h[k])[j] # new[k]
            BY <2>5, <3>3
          <5>3. \A j \in 1..(l + 1) : j \in 1..l \/ j = l + 1
            BY <3>2
          <5> HIDE DEF l, old
          <5> QED
            BY <3>3, <5>1, <5>2, <5>3
        <4> QED
          BY <4>1, <4>2
      <3>6. Len(h[k]) <= Len(refs) + k
        BY <1>1, <2>1, <3>2
      <3> QED
        BY <2>1, <2>2, <2>3, <3>2, <3>4, <3>5, <3>6
    <2> QED
      BY <2>4, <2>5
  <1>5. n \in P
    <2> HIDE DEF P, n
    <2>1. \A k \in 0..n : k \in P
      BY <1>1, <1>3, <1>4, UpTo
    <2>2. n \in 0..n
      BY <1>1
    <2> QED
      BY <2>1, <2>2
  <1>6. ToSet(new) = {new[i] : i \in 1..n}
    BY <1>1 DEF ToSet
  <1> QED
    BY <1>2, <1>5, <1>6

-----------------------------------------------------------------------------
(* What Notion answers.                                                    *)

\* A sequence of a set's members without repetition that is as long as the set has
\* them all.
LEMMA HasThemAll ==
  ASSUME NEW S, IsFiniteSet(S), NEW s \in SetToSeqs(S)
  PROVE  /\ s \in Seq(S) /\ DOMAIN s = 1..Len(s) /\ Len(s) \in Nat
         /\ IsInjective(s) /\ ToSet(s) = S
  <1> DEFINE n == Cardinality(S)
  <1>1. n \in Nat
    BY FS_CardinalityType
  <1>2. s \in [1..n -> S] /\ \A i, k \in 1..n : i # k => s[i] # s[k]
    BY DEF SetToSeqs
  <1>3. s \in Seq(S) /\ Len(s) = n
    BY <1>1, <1>2, SeqDef
  <1>4. IsInjective(s)
    BY <1>2 DEF IsInjective
  <1>5. ToSet(s) \in SUBSET S
    BY <1>2 DEF ToSet
  <1>6. s \in Bijection(1..n, ToSet(s))
    BY <1>2, <1>4 DEF Bijection, Injection, Surjection, ToSet, IsInjective
  <1>7. Cardinality(ToSet(s)) = n
    BY <1>1, <1>6, FS_CountingElements DEF ExistsBijection
  <1>8. ToSet(s) = S
    BY <1>5, <1>7, FS_Subset
  <1> QED
    BY <1>1, <1>2, <1>3, <1>4, <1>8

\* What s has from position p to position q.
Between(s, p, q) == {s[k] : k \in p..q}

\* An answer to a request for s from a cursor has what stands from p to q, and names
\* what comes next.
IsPart(answer, s, from, p, q) ==
  /\ p \in Nat /\ p >= 1 /\ q \in Nat /\ q <= Len(s) /\ p <= q + 1
  /\ from = None => p = 1
  /\ from # None => p \in 1..Len(s) /\ s[p] = from
  /\ ToSet(answer.results) = Between(s, p, q)
  /\ Len(answer.results) = q - p + 1
  /\ \A i \in 1..(q - p + 1) : answer.results[i] = s[p + i - 1]
  /\ answer.next = None => q = Len(s)
  /\ answer.next # None => q + 1 \in 1..Len(s) /\ answer.next = s[q + 1]

\* Every answer is such a part, no longer than was asked for.
LEMMA AnswerIsAPart ==
  ASSUME NEW S, NEW s \in Seq(S), None \notin S, NEW from, from # None => from \in ToSet(s),
         NEW most \in Nat, NEW answer \in Answers(s, from, most)
  PROVE  /\ answer.results \in Seq(S) /\ Len(answer.results) <= most
         /\ \E p, q : IsPart(answer, s, from, p, q)
  <1> DEFINE n == Len(s)
             first == IF from = None THEN 1 ELSE CHOOSE k \in DOMAIN s : s[k] = from
             rest == SubSeq(s, first, n)
             part(size) == [results |-> SubSeq(rest, 1, size),
                            next |-> IF Len(rest) > size THEN rest[size + 1] ELSE None]
  <1>1. n \in Nat /\ DOMAIN s = 1..n /\ \A k \in 1..n : s[k] \in S
    BY LenProperties, ElementOfSeq
  <1>2. /\ first \in 1..(n + 1)
        /\ from = None => first = 1
        /\ from # None => first \in DOMAIN s /\ s[first] = from
    <2>1. CASE from = None
      BY <1>1, <2>1
    <2>2. CASE from # None
      <3>1. \E k \in DOMAIN s : s[k] = from
        BY <2>2 DEF ToSet
      <3>2. first \in DOMAIN s /\ s[first] = from
        BY <2>2, <3>1
      <3> HIDE DEF first
      <3> QED
        BY <1>1, <2>2, <3>2
    <2> QED
      BY <2>1, <2>2
  <1> HIDE DEF first
  <1>3. /\ rest \in Seq(S) /\ Len(rest) = n - first + 1
        /\ \A i \in 1..(n - first + 1) : rest[i] = s[first + i - 1]
    BY <1>1, <1>2, SubSeqProperties
  <1>4. PICK size \in 0..Len(rest) :
          answer = part(size) /\ size <= most /\ (size = 0 => Len(rest) = 0)
    <2>1. Len(rest) \in Nat
      BY <1>1, <1>2, <1>3
    <2>2. CASE rest = << >>
      <3>1. answer = part(0)
        BY <2>2 DEF Answers, first
      <3>2. Len(rest) = 0
        BY <2>2, EmptySeq
      <3> QED
        BY <2>1, <3>1, <3>2
    <2>3. CASE rest # << >>
      <3>1. PICK size \in 1..(IF Len(rest) > most THEN most ELSE Len(rest)) : answer = part(size)
        BY <2>3 DEF Answers, first
      <3> HIDE DEF rest, part
      <3>2. size \in 0..Len(rest) /\ size <= most /\ size # 0
        <4>1. CASE Len(rest) > most
          BY <2>1, <3>1, <4>1
        <4>2. CASE ~(Len(rest) > most)
          BY <2>1, <3>1, <4>2
        <4> QED
          BY <4>1, <4>2
      <3> QED
        BY <3>1, <3>2
    <2> QED
      BY <2>2, <2>3
  <1> DEFINE q == first + size - 1
  <1>5. q \in 0..n /\ first <= q + 1 /\ size \in Nat /\ Len(rest) \in Nat
    BY <1>1, <1>2, <1>3
  <1>6. /\ answer.results \in Seq(S) /\ Len(answer.results) = size
        /\ \A i \in 1..size : answer.results[i] = s[first + i - 1]
    <2>1. answer.results = SubSeq(rest, 1, size)
      BY <1>4
    <2> HIDE DEF rest
    <2> QED
      BY <1>1, <1>2, <1>3, <1>5, <2>1, SubSeqProperties
  <1>7. ToSet(answer.results) = Between(s, first, q)
    <2>1. DOMAIN answer.results = 1..size
      BY <1>6, LenProperties
    <2>2. ToSet(answer.results) = {s[first + i - 1] : i \in 1..size}
      <3>1. \A i \in 1..size : answer.results[i] = s[first + i - 1]
        BY <1>6
      <3> HIDE DEF rest, q
      <3> QED
        BY <2>1, <3>1 DEF ToSet
    <2>3. \A k \in first..q : k - first + 1 \in 1..size /\ first + (k - first + 1) - 1 = k
      BY <1>1, <1>2, <1>5
    <2>4. \A i \in 1..size : first + i - 1 \in first..q
      BY <1>1, <1>2, <1>5
    <2> HIDE DEF q
    <2>5. ASSUME NEW k \in first..q PROVE s[k] \in {s[first + i - 1] : i \in 1..size}
      BY <2>3
    <2> QED
      BY <2>2, <2>4, <2>5 DEF Between
  <1>7a. /\ Len(answer.results) = q - first + 1
         /\ \A i \in 1..(q - first + 1) : answer.results[i] = s[first + i - 1]
    <2>1. q - first + 1 = size
      BY <1>1, <1>2, <1>5
    <2> HIDE DEF q, rest
    <2> QED
      BY <1>6, <2>1
  <1>8. ASSUME Len(rest) > size PROVE IsPart(answer, s, from, first, q)
    <2>0. /\ n \in Nat /\ first \in Nat /\ first >= 1 /\ size \in Nat
          /\ size + 1 <= n - first + 1
      <3>1. n \in Nat /\ first \in Nat /\ first >= 1 /\ size \in Nat
        BY <1>1, <1>2, <1>5
      <3>2. Len(rest) = n - first + 1 /\ Len(rest) \in Nat
        BY <1>3, <1>5
      <3> HIDE DEF n, rest
      <3> QED
        BY <1>8, <3>1, <3>2
    <2>1. size + 1 \in 1..(n - first + 1) /\ first + (size + 1) - 1 = q + 1 /\ q + 1 \in 1..n
      <3> HIDE DEF n, rest
      <3> QED
        BY <2>0
    <2>2. answer.next = s[q + 1]
      BY <1>3, <1>4, <1>8, <2>1
    <2>3. answer.next # None
      BY <1>1, <2>1, <2>2
    <2>4. /\ first \in Nat /\ first >= 1 /\ q \in Nat /\ q <= Len(s) /\ first <= q + 1
          /\ q + 1 \in 1..Len(s)
      BY <1>2, <1>5, <2>0, <2>1
    <2> HIDE DEF q
    <2> QED
      BY <1>1, <1>2, <1>7, <1>7a, <2>2, <2>3, <2>4 DEF IsPart
  <1>9. ASSUME ~(Len(rest) > size) PROVE IsPart(answer, s, from, first, q)
    <2>1. q = n
      BY <1>1, <1>2, <1>3, <1>5, <1>9
    <2>2. answer.next = None
      BY <1>4, <1>9
    <2> HIDE DEF q
    <2> QED
      BY <1>1, <1>2, <1>5, <1>7, <1>7a, <2>1, <2>2 DEF IsPart
  <1>10. IsPart(answer, s, from, first, q)
    BY <1>8, <1>9
  <1>11. Len(answer.results) <= most
    BY <1>4, <1>6
  <1> QED
    BY <1>1, <1>2, <1>5, <1>6, <1>10, <1>11

-----------------------------------------------------------------------------
(* Finding pages: the invariant.                                           *)

\* Until the documents are listed: none twice, and what is not known yet and was not
\* edited comes in the search at the cursor or after it.
ListingOK ==
  /\ phase \in {"search", "listed"} => IsInjective([k \in DOMAIN refs |-> refs[k].id])
  /\ phase = "search" =>
       /\ Len(refs) < limit
       /\ cursor # None =>
            \A i \in Ids : \/ Touched(i) \/ i \in Listed(refs)
                           \/ i = cursor \/ IsFoundBefore(cursor, i)
  /\ phase = "listed" /\ ~hasNext => \A i \in Ids : Touched(i) \/ i \in Listed(refs)

\* What has been looked at of what was selected.
LookedAt == selected \ ToSet(todo)
IsIn(i, d) == source[i].parent = d /\ source[d].kind = "database"

\* What is gone was touched.
GoneOK == \A i \in Ids : Gone(i) => Touched(i)

\* What is expanded is what has been looked at, databases only if they were gone and
\* without their pages then, in what is expanded now each page that comes before the
\* cursor.
ExpansionOK ==
  /\ phase \in {"retrieve", "query"} => todo # << >>
  /\ phase \in {"search", "listed", "expanded"} => todo = << >>
  /\ phase \in {"search", "listed"} => expanded = << >> /\ selected = {}
  /\ phase \in {"search", "listed", "retrieve", "expanded"} => pageIDs = << >>
  /\ phase = "retrieve" => cursor = None
  /\ IsInjective(todo) /\ ToSet(todo) \subseteq selected /\ selected \subseteq Ids
  /\ IsInjective(expanded)
  /\ \A i \in ToSet(expanded) : source[i].kind = "database" => i \in LookedAt /\ Gone(i)
  /\ \A i \in Ids : source[i].kind = "page" =>
       \/ Touched(i)
       \/ i \in ToSet(expanded)
            <=> i \in LookedAt \/ \E d \in LookedAt \ ToSet(expanded) : IsIn(i, d)
  /\ \A i \in ToSet(pageIDs) : source[i].kind = "page"
  /\ phase = "query" =>
       /\ source[Head(todo)].kind = "database"
       /\ \A i \in Ids : source[i].kind = "page" =>
            \/ Touched(i)
            \/ i \in ToSet(pageIDs) <=> IsIn(i, Head(todo)) /\ cursor # None /\ i < cursor

\* A job has what was expanded for it.
StoredOK ==
  job # NoJob /\ selected # {} =>
    /\ phase = "expanded"
    /\ ToSet(job.items) = ToSet(expanded) /\ IsInjective(job.items)

DiscoveryInv == DiscoveryTypeOK /\ GoneOK /\ ListingOK /\ ExpansionOK

\* What the types say, for the provers.
LEMMA DiscoveryTypes ==
  ASSUME DiscoveryTypeOK
  PROVE  /\ refs \in Seq(Refs) /\ Len(refs) \in Nat /\ limit \in Nat /\ IsFiniteSet(Ids)
         /\ \A i \in Ids : /\ Ref(i) \in Refs /\ source[i].at \in 0..MaxEdits /\ i \in Nat
                           /\ source[i].parent \in Ids \cup {None} /\ source[i].kind \in Kinds
         /\ None \notin Ids /\ cursor \in Ids \cup {None} /\ PageSize \in Nat \ {0}
         /\ todo \in Seq(Ids) /\ pageIDs \in Seq(Ids) /\ expanded \in Seq(Ids)
  <1>1. refs \in Seq(Refs) /\ Len(refs) \in Nat
    BY LenProperties DEF DiscoveryTypeOK, Refs
  <1>2. limit \in Nat
    BY DiscoveryAssumption DEF DiscoveryTypeOK
  <1>3. IsFiniteSet(Ids) /\ None \notin Ids /\ \A i \in Ids : i \in Nat
    BY DiscoveryAssumption, FS_Interval DEF Ids
  <1>4. ASSUME NEW i \in Ids
        PROVE  /\ source[i].at \in 0..MaxEdits
               /\ source[i].parent \in Ids \cup {None} /\ source[i].kind \in Kinds
    BY DEF DiscoveryTypeOK
  <1>5. \A i \in Ids : Ref(i) \in Refs
    BY <1>4 DEF Ref, Refs
  <1> QED
    BY <1>1, <1>2, <1>3, <1>4, <1>5, PageSizeAssumption DEF DiscoveryTypeOK

\* The first of a sequence without repetition and the rest.
LEMMA HeadAndTail ==
  ASSUME NEW S, NEW s \in Seq(S), s # << >>, IsInjective(s)
  PROVE  /\ Head(s) \in S /\ Tail(s) \in Seq(S)
         /\ ToSet(s) = {Head(s)} \cup ToSet(Tail(s)) /\ Head(s) \notin ToSet(Tail(s))
         /\ IsInjective(Tail(s))
  <1> DEFINE n == Len(s)
             t == Tail(s)
  <1>1. /\ n \in Nat /\ n > 0 /\ DOMAIN s = 1..n /\ \A k \in 1..n : s[k] \in S
    BY LenProperties, ElementOfSeq, EmptySeq
  <1>2. Head(s) = s[1] /\ Head(s) \in S
    BY <1>1, HeadTailProperties
  <1>3. t \in Seq(S) /\ Len(t) = n - 1 /\ \A i \in 1..(n - 1) : t[i] = s[i + 1]
    BY <1>1, HeadTailProperties
  <1>4. DOMAIN t = 1..(n - 1)
    BY <1>3, LenProperties
  <1> HIDE DEF t, n
  <1>5. ToSet(s) = {s[1]} \cup ToSet(t)
    <2>1. \A k \in 1..n : k = 1 \/ (k - 1 \in 1..(n - 1) /\ (k - 1) + 1 = k)
      BY <1>1
    <2>2. 1 \in 1..n /\ \A i \in 1..(n - 1) : i + 1 \in 1..n
      BY <1>1
    <2>3. ASSUME NEW k \in 1..n PROVE s[k] = s[1] \/ s[k] \in ToSet(t)
      <3>1. CASE k = 1
        BY <3>1
      <3>2. CASE k - 1 \in 1..(n - 1) /\ (k - 1) + 1 = k
        <4>1. t[k - 1] = s[k]
          BY <1>3, <3>2
        <4> QED
          BY <1>4, <3>2, <4>1 DEF ToSet
      <3> QED
        BY <2>1, <3>1, <3>2
    <2>4. ASSUME NEW i \in 1..(n - 1) PROVE t[i] \in ToSet(s)
      BY <1>1, <1>3, <2>2 DEF ToSet
    <2> QED
      BY <1>1, <1>4, <2>2, <2>3, <2>4 DEF ToSet
  <1>6. s[1] \notin ToSet(t)
    <2>1. ASSUME NEW i \in 1..(n - 1) PROVE t[i] # s[1]
      <3>1. i + 1 \in DOMAIN s /\ 1 \in DOMAIN s /\ i + 1 # 1
        BY <1>1
      <3> QED
        BY <1>3, <3>1 DEF IsInjective
    <2> QED
      BY <1>4, <2>1 DEF ToSet
  <1>7. IsInjective(t)
    <2>1. ASSUME NEW i \in 1..(n - 1), NEW k \in 1..(n - 1), t[i] = t[k] PROVE i = k
      <3>1. i + 1 \in DOMAIN s /\ k + 1 \in DOMAIN s /\ s[i + 1] = s[k + 1]
        BY <1>1, <1>3, <2>1
      <3>2. i + 1 = k + 1
        BY <3>1 DEF IsInjective
      <3> QED
        BY <3>2
    <2> QED
      BY <1>4, <2>1 DEF IsInjective
  <1> QED
    BY <1>2, <1>3, <1>5, <1>6, <1>7 DEF t

-----------------------------------------------------------------------------
(* The listing.                                                            *)

\* An answer to a search has what comes from the cursor to the next one.
LEMMA SearchAnswersAreParts ==
  ASSUME DiscoveryTypeOK, phase = "search", ListingOK, SearchIsValid,
         NEW answer \in SearchAnswers
  PROVE  /\ answer.results \in Seq(Ids) /\ Len(answer.results) <= limit - Len(refs)
         /\ Len(answer.results) \in Nat
         /\ answer.next \in Ids \cup {None}
         /\ \A i \in Ids :
              \/ Gone(i)
              \/ cursor # None /\ i # cursor /\ ~IsFoundBefore(cursor, i)
              \/ i \in ToSet(answer.results)
              \/ answer.next # None /\ (i = answer.next \/ IsFoundBefore(answer.next, i))
  <1> DEFINE there == {i \in Ids : ~Gone(i)}
  <1>1. /\ Len(refs) \in Nat /\ limit \in Nat /\ Len(refs) < limit
        /\ PageSize \in Nat /\ None \notin Ids /\ cursor \in Ids \cup {None} /\ IsFiniteSet(Ids)
        /\ \A i \in Ids : source[i].at \in Nat /\ i \in Nat
    <2>1. Len(refs) < limit
      BY DEF ListingOK
    <2>2. \A i \in Ids : source[i].at \in Nat /\ i \in Nat
      <3>1. \A i \in Ids : source[i].at \in 0..MaxEdits /\ i \in Nat
        BY DiscoveryTypes
      <3> QED
        BY <3>1
    <2> QED
      BY <2>1, <2>2, DiscoveryTypes
  <1>2. pageSize \in Nat /\ pageSize <= limit - Len(refs)
    BY <1>1 DEF pageSize
  <1>3. PICK s \in SearchResults : answer \in Answers(s, cursor, pageSize)
    BY DEF SearchAnswers
  <1>4. s \in SetToSeqs(there) /\ \A k, m \in DOMAIN s : k < m => IsFoundBefore(s[k], s[m])
    BY DEF SearchResults
  <1>a. IsFiniteSet(there) /\ there \subseteq Ids
    BY <1>1, FS_Subset
  <1>b. \A i \in Ids : i \in there <=> ~Gone(i)
    OBVIOUS
  <1> HIDE DEF there
  <1>5. s \in Seq(Ids) /\ DOMAIN s = 1..Len(s) /\ Len(s) \in Nat /\ ToSet(s) = there
    <2>1. s \in Seq(there) /\ DOMAIN s = 1..Len(s) /\ Len(s) \in Nat /\ ToSet(s) = there
      BY <1>4, <1>a, HasThemAll
    <2> QED
      BY <1>a, <2>1, ElementOfSeq, SeqDef
  <1>6. /\ answer.results \in Seq(Ids) /\ Len(answer.results) <= pageSize
        /\ \E p, q : IsPart(answer, s, cursor, p, q)
    <2>1. cursor # None => cursor \in ToSet(s)
      BY <1>1, <1>5, <1>b DEF SearchIsValid
    <2>2. s \in Seq(Ids) /\ None \notin Ids /\ pageSize \in Nat
      BY <1>1, <1>2, <1>5
    <2> QED
      BY <1>3, <2>1, <2>2, AnswerIsAPart
  <1>6a. PICK p, q : IsPart(answer, s, cursor, p, q)
    BY <1>6
  <1>6b. /\ p \in Nat /\ p >= 1 /\ q \in Nat /\ q <= Len(s) /\ p <= q + 1
         /\ cursor = None => p = 1
         /\ cursor # None => p \in 1..Len(s) /\ s[p] = cursor
         /\ ToSet(answer.results) = Between(s, p, q)
         /\ answer.next = None => q = Len(s)
         /\ answer.next # None => q + 1 \in 1..Len(s) /\ answer.next = s[q + 1]
    BY <1>5, <1>6a DEF IsPart
  <1>6c. p \in Nat /\ p >= 1 /\ q \in Nat /\ q <= Len(s) /\ p <= q + 1 /\ Len(s) \in Nat
    BY <1>5, <1>6b
  <1>7. ASSUME NEW i \in Ids, ~Gone(i)
        PROVE  \/ cursor # None /\ i # cursor /\ ~IsFoundBefore(cursor, i)
               \/ i \in ToSet(answer.results)
               \/ answer.next # None /\ (i = answer.next \/ IsFoundBefore(answer.next, i))
    <2>1. PICK k \in 1..Len(s) : s[k] = i
      BY <1>5, <1>7, <1>b DEF ToSet
    <2>2. CASE k < p
      <3>0. p # 1
        BY <1>6c, <2>2
      <3>1. cursor # None /\ p \in DOMAIN s /\ s[p] = cursor /\ cursor \in Ids
        BY <1>1, <1>5, <1>6b, <3>0
      <3>2. IsFoundBefore(i, cursor)
        BY <1>4, <1>5, <2>1, <2>2, <3>1
      <3>3. i # cursor /\ ~IsFoundBefore(cursor, i)
        BY <1>1, <3>1, <3>2 DEF IsFoundBefore
      <3> QED
        BY <3>1, <3>3
    <2>3. CASE k \in p..q
      BY <1>6b, <2>1, <2>3 DEF Between
    <2>4. CASE k > q
      <3>1. q # Len(s)
        BY <1>6c, <2>4
      <3>2. answer.next # None /\ q + 1 \in DOMAIN s /\ answer.next = s[q + 1]
        BY <1>6b, <3>1
      <3>3. k = q + 1 \/ q + 1 < k
        BY <1>6c, <2>4
      <3> QED
        BY <1>4, <1>5, <2>1, <3>2, <3>3
    <2> QED
      BY <1>6c, <2>2, <2>3, <2>4
  <1>8. answer.next \in Ids \cup {None}
    BY <1>5, <1>6b, ElementOfSeq
  <1>9. Len(answer.results) \in Nat /\ Len(answer.results) <= limit - Len(refs)
    BY <1>1, <1>2, <1>6, LenProperties
  <1> QED
    BY <1>6, <1>7, <1>8, <1>9

\* A page of results of the search.
LEMMA SearchKeeps ==
  ASSUME DiscoveryInv, Search
  PROVE  DiscoveryInv'
  <1>1. PICK answer \in SearchAnswers :
       /\ refs' = addRefs(answer.results)
       /\ hasNext' = (answer.next # None)
       /\ IF Len(refs') < limit /\ hasNext'
          THEN cursor' = answer.next /\ UNCHANGED phase
          ELSE phase' = "listed" /\ UNCHANGED cursor
    BY DEF Search
  <1>2. /\ phase = "search" /\ SearchIsValid
        /\ UNCHANGED <<source, limit, todo, pageIDs, expanded, selected>>
    BY DEF Search, expansion
  <1>3. /\ answer.results \in Seq(Ids) /\ Len(answer.results) <= limit - Len(refs)
        /\ Len(answer.results) \in Nat
        /\ answer.next \in Ids \cup {None}
        /\ \A i \in Ids :
             \/ Gone(i)
             \/ cursor # None /\ i # cursor /\ ~IsFoundBefore(cursor, i)
             \/ i \in ToSet(answer.results)
             \/ answer.next # None /\ (i = answer.next \/ IsFoundBefore(answer.next, i))
    BY <1>2, SearchAnswersAreParts DEF DiscoveryInv
  <1>4. /\ refs \in Seq(Refs) /\ Len(refs) \in Nat /\ limit \in Nat
        /\ \A i \in Ids : Ref(i) \in Refs
    BY DiscoveryTypes DEF DiscoveryInv
  <1>5. IsInjective(IDs(refs))
    BY <1>2 DEF DiscoveryInv, ListingOK, IDs
  <1>6. /\ refs' \in Seq(Refs) /\ IsInjective(IDs(refs)')
        /\ Listed(refs)' = Listed(refs) \cup ToSet(answer.results)
        /\ Len(refs') <= Len(refs) + Len(answer.results)
    <2>1. /\ addRefs(answer.results) \in Seq(Refs)
          /\ IsInjective(IDs(addRefs(answer.results)))
          /\ Listed(addRefs(answer.results)) = Listed(refs) \cup ToSet(answer.results)
          /\ Len(addRefs(answer.results)) <= Len(refs) + Len(answer.results)
      BY <1>3, <1>4, <1>5, AddRefsResult
    <2> QED
      BY <1>1, <2>1 DEF IDs, Listed
  <1>7. Len(refs') \in Nat /\ Len(refs') <= limit
    BY <1>3, <1>4, <1>6, LenProperties
  <1>8. DiscoveryTypeOK'
    BY <1>1, <1>2, <1>3, <1>6, <1>7 DEF DiscoveryInv, DiscoveryTypeOK, Refs
  <1>9. ASSUME NEW i \in Ids
        PROVE  \/ Touched(i) \/ i \in Listed(refs)'
               \/ answer.next # None /\ (i = answer.next \/ IsFoundBefore(answer.next, i))
    BY <1>2, <1>3, <1>6 DEF DiscoveryInv, ListingOK, GoneOK
  <1>10. /\ \A i \in Ids : Touched(i)' = Touched(i)
         /\ \A i, k \in Ids : IsFoundBefore(i, k)' = IsFoundBefore(i, k)
    BY <1>2 DEF Touched, IsFoundBefore
  <1>11. ListingOK'
    <2>1. IsInjective([k \in DOMAIN refs' |-> refs'[k].id])
      BY <1>6 DEF IDs
    <2>2. ASSUME phase' = "search"
          PROVE  /\ Len(refs') < limit'
                 /\ \A i \in Ids : Touched(i)' \/ i \in Listed(refs)' \/ i = cursor'
                                   \/ IsFoundBefore(cursor, i)'
      <3>1. Len(refs') < limit' /\ cursor' = answer.next
        BY <1>1, <1>2, <2>2
      <3>2. \A i \in Ids : IsFoundBefore(cursor, i)' = IsFoundBefore(answer.next, i)
        BY <1>2, <3>1 DEF IsFoundBefore
      <3> QED
        BY <1>9, <1>10, <3>1, <3>2
    <2>3. ASSUME phase' = "listed", ~hasNext'
          PROVE  \A i \in Ids : Touched(i)' \/ i \in Listed(refs)'
      BY <1>1, <1>9, <1>10, <2>3
    <2> QED
      BY <2>1, <2>2, <2>3 DEF ListingOK
  <1>12. ExpansionOK'
    BY <1>1, <1>2 DEF DiscoveryInv, ExpansionOK, LookedAt, IsIn, Touched, Gone
  <1>13. GoneOK'
    BY <1>2 DEF DiscoveryInv, GoneOK, Gone, Touched
  <1> QED
    BY <1>8, <1>11, <1>12, <1>13 DEF DiscoveryInv

\* What the user selects is looked at next.
LEMMA SelectKeeps ==
  ASSUME DiscoveryInv, Select
  PROVE  DiscoveryInv'
  <1>1. PICK k \in DOMAIN refs : todo' \in [1..k -> Listed(refs)]
    BY DEF Select
  <1>2. /\ phase = "listed" /\ phase' = "retrieve" /\ IsInjective(todo') /\ selected' = ToSet(todo')
        /\ limit' = 0 /\ refs' = << >> /\ hasNext' = FALSE /\ cursor' = None
        /\ UNCHANGED <<source, pageIDs, expanded>>
    BY DEF Select
  <1>3. refs \in Seq(Refs) /\ DOMAIN refs = 1..Len(refs) /\ Len(refs) \in Nat
    BY DiscoveryTypes, LenProperties DEF DiscoveryInv
  <1>4. Listed(refs) \subseteq Ids
    <2>1. \A i \in 1..Len(refs) : refs[i] \in Refs
      BY <1>3, ElementOfSeq
    <2>2. \A i \in 1..Len(refs) : refs[i].id \in Ids
      BY <2>1 DEF Refs
    <2> QED
      BY <1>3, <2>2 DEF Listed
  <1>5. todo' \in Seq(Ids) /\ todo' # << >> /\ ToSet(todo') \subseteq Ids
    <2>1. k \in Nat /\ k > 0 /\ todo' \in [1..k -> Ids]
      BY <1>1, <1>3, <1>4
    <2>2. todo' \in Seq(Ids) /\ Len(todo') = k
      BY <2>1, SeqDef
    <2> QED
      BY <2>1, <2>2 DEF ToSet
  <1>6. expanded = << >> /\ pageIDs = << >>
    BY <1>2 DEF DiscoveryInv, ExpansionOK
  <1>7. ToSet(expanded) = {} /\ ToSet(pageIDs) = {} /\ ToSet(<< >>) = {}
    BY <1>6 DEF ToSet
  <1>8. LookedAt' = {}
    BY <1>2 DEF LookedAt
  <1>9. DiscoveryTypeOK'
    <2>1. refs' \in Seq(Refs) /\ Len(refs') = 0
      BY <1>2, EmptySeq
    <2>2. Len(refs') <= limit'
      BY <1>2, <2>1
    <2>3. selected' \subseteq Ids /\ {todo', pageIDs', expanded'} \subseteq Seq(Ids)
      BY <1>2, <1>5 DEF DiscoveryInv, DiscoveryTypeOK
    <2> QED
      BY <1>2, <2>1, <2>2, <2>3 DEF DiscoveryInv, DiscoveryTypeOK, Refs
  <1>10. ListingOK'
    BY <1>2 DEF ListingOK
  <1>11. ExpansionOK'
    BY <1>2, <1>5, <1>6, <1>7, <1>8 DEF DiscoveryInv, ExpansionOK
  <1>12. GoneOK'
    BY <1>2 DEF DiscoveryInv, GoneOK, Gone, Touched
  <1> QED
    BY <1>9, <1>10, <1>11, <1>12 DEF DiscoveryInv

\* Users edit and move pages, and take some away.
LEMMA EditKeeps ==
  ASSUME DiscoveryInv, NEW e \in Ids, Edit(e)
  PROVE  DiscoveryInv'
  <1>1. /\ ~Gone(e)
        /\ \/ \E p \in Ids \cup {None} :
                source' = [source EXCEPT ![e].parent = p, ![e].at = Edits + 1]
           \/ source' = [source EXCEPT ![e].shared = FALSE, ![e].at = Edits + 1]
    BY DEF Edit
  <1>2. /\ Edits < MaxEdits
        /\ UNCHANGED <<phase, cursor, limit, refs, hasNext, todo, pageIDs, expanded, selected>>
    BY DEF Edit, list, expansion
  <1>3. /\ source \in [Ids -> [parent : Ids \cup {None}, kind : Kinds, at : 0..MaxEdits,
                              shared : BOOLEAN]]
        /\ MaxEdits \in Nat /\ N \in Nat \ {0}
    BY DiscoveryAssumption DEF DiscoveryInv, DiscoveryTypeOK
  <1>4. Edits \in 0..MaxEdits
    <2> DEFINE S == {source[i].at : i \in Ids}
    <2>1. S \in SUBSET (0..MaxEdits)
      BY <1>3
    <2>2. 1 \in Ids
      BY <1>3 DEF Ids
    <2>3. S # {}
      BY <2>2
    <2> HIDE DEF S
    <2>4. Max(S) \in S
      BY <1>3, <2>1, <2>3, GreatestNumber
    <2> QED
      BY <2>1, <2>4 DEF Edits, S
  <1>5. Edits + 1 \in 0..MaxEdits /\ Edits + 1 > 0
    BY <1>2, <1>3, <1>4
  <1> HIDE DEF Edits
  <1>6. /\ \A i \in Ids : i # e => source'[i] = source[i]
        /\ source'[e].at = Edits + 1 /\ source'[e].kind = source[e].kind
        /\ source' \in [Ids -> [parent : Ids \cup {None}, kind : Kinds, at : 0..MaxEdits,
                                shared : BOOLEAN]]
    <2>1. CASE \E p \in Ids \cup {None} :
                 source' = [source EXCEPT ![e].parent = p, ![e].at = Edits + 1]
      <3>1. PICK p \in Ids \cup {None} :
              source' = [source EXCEPT ![e].parent = p, ![e].at = Edits + 1]
        BY <2>1
      <3>2. source[e] \in [parent : Ids \cup {None}, kind : Kinds, at : 0..MaxEdits,
                           shared : BOOLEAN]
        BY <1>3
      <3>3. source' = [source EXCEPT ![e] = [source[e] EXCEPT !.parent = p, !.at = Edits + 1]]
        BY <1>3, <3>1
      <3> QED
        BY <1>3, <1>5, <3>2, <3>3
    <2>2. CASE source' = [source EXCEPT ![e].shared = FALSE, ![e].at = Edits + 1]
      <3>1. source[e] \in [parent : Ids \cup {None}, kind : Kinds, at : 0..MaxEdits,
                           shared : BOOLEAN]
        BY <1>3
      <3>2. source' = [source EXCEPT ![e] = [source[e] EXCEPT !.shared = FALSE,
                                                             !.at = Edits + 1]]
        BY <1>3, <2>2
      <3> QED
        BY <1>3, <1>5, <3>1, <3>2
    <2> QED
      BY <1>1, <2>1, <2>2
  <1>a. \A i \in Ids : (Gone(i) => Gone(i)') /\ (i # e /\ Gone(i)' => Gone(i))
    BY <1>1, <1>6 DEF Gone
  <1>7. DiscoveryTypeOK'
    BY <1>2, <1>6 DEF DiscoveryInv, DiscoveryTypeOK
  <1>8. /\ Touched(e)'
        /\ \A i \in Ids : ~Touched(i)' =>
             i # e /\ ~Touched(i) /\ source[i].at = 0 /\ source'[i].at = 0
        /\ \A i \in Ids : source'[i].kind = source[i].kind
        /\ \A i \in Ids, d \in Ids : ~Touched(i)' => (IsIn(i, d)' <=> IsIn(i, d))
    <2>1. Touched(e)'
      BY <1>5, <1>6 DEF Touched
    <2>2. \A i \in Ids : source'[i].kind = source[i].kind
      BY <1>6
    <2>3. ASSUME NEW i \in Ids, ~Touched(i)'
          PROVE  i # e /\ source'[i] = source[i] /\ ~Touched(i) /\ source[i].at = 0
      <3>1. i # e
        BY <2>1, <2>3
      <3>2. source'[i] = source[i]
        BY <1>6, <3>1
      <3>3. ~Touched(i) /\ source[i].at \in 0..MaxEdits
        BY <1>3, <2>3, <3>2 DEF Touched
      <3> QED
        BY <3>1, <3>2, <3>3 DEF Touched
    <2>4. \A i \in Ids, d \in Ids : ~Touched(i)' => (IsIn(i, d)' <=> IsIn(i, d))
      BY <2>2, <2>3 DEF IsIn
    <2> QED
      BY <2>1, <2>2, <2>3, <2>4
  <1>9. ListingOK'
    <2>1. ASSUME phase = "search", cursor # None, NEW i \in Ids, ~Touched(i)',
                 i \notin Listed(refs), i # cursor
          PROVE  IsFoundBefore(cursor, i)'
      <3>1. IsFoundBefore(cursor, i) /\ cursor \in Ids
        BY <1>8, <2>1 DEF DiscoveryInv, ListingOK, DiscoveryTypeOK
      <3>2. source'[i] = source[i] /\ source[i].at = 0
        BY <1>6, <1>8, <2>1
      <3>3. CASE cursor = e
        <4>1. source'[cursor].at > source'[i].at
          BY <1>4, <1>3, <1>6, <3>2, <3>3
        <4> QED
          BY <1>2, <4>1 DEF IsFoundBefore
      <3>4. CASE cursor # e
        <4>1. source'[cursor] = source[cursor]
          BY <1>6, <3>1, <3>4
        <4> QED
          BY <1>2, <3>1, <3>2, <4>1 DEF IsFoundBefore
      <3> QED
        BY <3>3, <3>4
    <2>2. Listed(refs)' = Listed(refs)
      BY <1>2 DEF Listed
    <2> QED
      BY <1>2, <1>8, <2>1, <2>2 DEF DiscoveryInv, ListingOK
  <1>10. ExpansionOK'
    <2>1. LookedAt' = LookedAt /\ LookedAt \subseteq Ids
      BY <1>2 DEF LookedAt, DiscoveryInv, DiscoveryTypeOK
    <2>2. ToSet(expanded) \subseteq Ids /\ ToSet(pageIDs) \subseteq Ids
      BY DiscoveryTypes, ElementOfSeq, LenProperties DEF ToSet, DiscoveryInv
    <2>3. ASSUME NEW i \in Ids, source'[i].kind = "page", ~Touched(i)'
          PROVE  i \in ToSet(expanded)
                   <=> i \in LookedAt \/ \E d \in LookedAt \ ToSet(expanded) : IsIn(i, d)'
      <3>1. i \in ToSet(expanded)
              <=> i \in LookedAt \/ \E d \in LookedAt \ ToSet(expanded) : IsIn(i, d)
        BY <1>8, <2>3 DEF DiscoveryInv, ExpansionOK
      <3> QED
        BY <1>8, <2>1, <2>3, <3>1
    <2>4. ASSUME phase = "query"
          PROVE  /\ source'[Head(todo)].kind = "database"
                 /\ \A i \in Ids : source'[i].kind = "page" =>
                      \/ Touched(i)'
                      \/ i \in ToSet(pageIDs)
                           <=> IsIn(i, Head(todo))' /\ cursor # None /\ i < cursor
      <3>1. Head(todo) \in Ids
        <4>1. todo # << >> /\ IsInjective(todo)
          BY <2>4 DEF DiscoveryInv, ExpansionOK
        <4> QED
          BY <4>1, DiscoveryTypes, HeadAndTail DEF DiscoveryInv
      <3>2. /\ source[Head(todo)].kind = "database"
            /\ \A i \in Ids : source[i].kind = "page" =>
                 \/ Touched(i)
                 \/ i \in ToSet(pageIDs) <=> IsIn(i, Head(todo)) /\ cursor # None /\ i < cursor
        BY <2>4 DEF DiscoveryInv, ExpansionOK
      <3>3. \A i \in Ids : ~Touched(i)' => (IsIn(i, Head(todo))' <=> IsIn(i, Head(todo)))
        <4>1. \A i, d : IsIn(i, d)' = (source'[i].parent = d /\ source'[d].kind = "database")
          BY DEF IsIn
        <4>2. \A i, d \in Ids : ~Touched(i)' =>
                ((source'[i].parent = d /\ source'[d].kind = "database") <=> IsIn(i, d))
          BY <1>8, <4>1
        <4> QED
          BY <1>2, <3>1, <4>2 DEF IsIn
      <3> QED
        BY <1>2, <1>8, <3>1, <3>2, <3>3
    <2>5. \A i \in ToSet(expanded) :
            source'[i].kind = "database" => i \in LookedAt' /\ Gone(i)'
      BY <1>8, <1>a, <2>1, <2>2 DEF DiscoveryInv, ExpansionOK
    <2>6. \A i, d : IsIn(i, d)' = (source'[i].parent = d /\ source'[d].kind = "database")
      BY DEF IsIn
    <2>7. Head(todo') = Head(todo)
      BY <1>2
    <2> QED
      BY <1>2, <1>8, <2>1, <2>2, <2>3, <2>4, <2>5, <2>6, <2>7 DEF DiscoveryInv, ExpansionOK, IsIn
  <1>11. GoneOK'
    BY <1>6, <1>8, <1>a DEF DiscoveryInv, GoneOK, Touched
  <1> QED
    BY <1>7, <1>9, <1>10, <1>11 DEF DiscoveryInv

-----------------------------------------------------------------------------
(* The expansion.                                                          *)

\* What is looked at is done with when it has these pages.
LEMMA ExpandKeeps ==
  ASSUME DiscoveryInv, phase \in {"retrieve", "query"}, UNCHANGED <<source, list, selected>>,
         NEW pages \in Seq(Ids), Expand(pages),
         \A i \in ToSet(pages) : source[i].kind = "database" => i = Head(todo) /\ Gone(i),
         \A i \in Ids : source[i].kind = "page" =>
           \/ Touched(i)
           \/ i \in ToSet(pages)
                <=> i = Head(todo) \/ (IsIn(i, Head(todo)) /\ Head(todo) \notin ToSet(pages))
  PROVE  DiscoveryInv'
  <1>1. /\ expanded' = addUnseen(expanded, pages) /\ pageIDs' = << >> /\ cursor' = None
        /\ todo' = Tail(todo)
        /\ phase' = IF Tail(todo) = << >> THEN "expanded" ELSE "retrieve"
        /\ UNCHANGED <<source, limit, refs, hasNext, selected>>
    BY DEF Expand, list
  <1>2. /\ todo \in Seq(Ids) /\ todo # << >> /\ IsInjective(todo) /\ ToSet(todo) \subseteq selected
        /\ expanded \in Seq(Ids) /\ IsInjective(expanded) /\ selected \subseteq Ids
    BY DiscoveryTypes DEF DiscoveryInv, ExpansionOK
  <1>3. /\ Head(todo) \in Ids /\ todo' \in Seq(Ids) /\ IsInjective(todo')
        /\ ToSet(todo) = {Head(todo)} \cup ToSet(todo') /\ Head(todo) \notin ToSet(todo')
    BY <1>1, <1>2, HeadAndTail
  <1>4. /\ expanded' \in Seq(Ids) /\ IsInjective(expanded')
        /\ ToSet(expanded') = ToSet(expanded) \cup ToSet(pages)
    BY <1>1, <1>2, AddUnseenResult
  <1>5. LookedAt' = LookedAt \cup {Head(todo)}
    BY <1>1, <1>2, <1>3 DEF LookedAt
  <1>6. ToSet(pageIDs') = {} /\ pageIDs' \in Seq(Ids)
    <2>1. pageIDs' = << >>
      BY <1>1
    <2> QED
      BY <2>1, EmptySeq DEF ToSet
  <1>7. DiscoveryTypeOK'
    BY <1>1, <1>3, <1>4, <1>6 DEF DiscoveryInv, DiscoveryTypeOK
  <1>8. ListingOK'
    BY <1>1 DEF ListingOK
  <1>9. \A i \in Ids : Touched(i)' = Touched(i)
    BY <1>1 DEF Touched
  <1>10. \A i, d : IsIn(i, d)' = IsIn(i, d) /\ Gone(i)' = Gone(i)
    BY <1>1 DEF IsIn, Gone
  <1>a. Head(todo) \notin LookedAt
    BY <1>2, <1>3 DEF LookedAt
  <1>b. \A d \in ToSet(expanded) : source[d].kind = "database" => d \in LookedAt /\ Gone(d)
    BY DEF DiscoveryInv, ExpansionOK
  <1>c. \A i, d : IsIn(i, d) => source[d].kind = "database"
    BY DEF IsIn
  <1>11. ASSUME NEW i \in Ids, source'[i].kind = "page", ~Touched(i)
         PROVE  i \in ToSet(expanded')
                  <=> i \in LookedAt' \/ \E d \in LookedAt' \ ToSet(expanded') : IsIn(i, d)
    <2>1. i \in ToSet(expanded)
            <=> i \in LookedAt \/ \E d \in LookedAt \ ToSet(expanded) : IsIn(i, d)
      BY <1>1, <1>11 DEF DiscoveryInv, ExpansionOK
    <2>2. i \in ToSet(pages)
            <=> i = Head(todo) \/ (IsIn(i, Head(todo)) /\ Head(todo) \notin ToSet(pages))
      BY <1>1, <1>11
    <2>3. ASSUME NEW d \in LookedAt, IsIn(i, d)
          PROVE  d \in ToSet(expanded') <=> d \in ToSet(expanded)
      BY <1>4, <1>a, <1>c, <2>3
    <2>4. IsIn(i, Head(todo)) => (Head(todo) \in ToSet(expanded') <=> Head(todo) \in ToSet(pages))
      BY <1>4, <1>a, <1>b, <1>c
    <2>5. (\E d \in LookedAt' \ ToSet(expanded') : IsIn(i, d))
            <=> \/ \E d \in LookedAt \ ToSet(expanded) : IsIn(i, d)
                \/ IsIn(i, Head(todo)) /\ Head(todo) \notin ToSet(pages)
      BY <1>5, <2>3, <2>4
    <2> QED
      BY <1>4, <1>5, <2>1, <2>2, <2>5
  <1>12. \A i \in ToSet(expanded') : source'[i].kind = "database" => i \in LookedAt' /\ Gone(i)'
    BY <1>1, <1>4, <1>5, <1>10, <1>b
  <1>13. ExpansionOK'
    <2>1. \A i \in Ids : source'[i].kind = "page" =>
            \/ Touched(i)'
            \/ i \in ToSet(expanded')
                 <=> i \in LookedAt' \/ \E d \in LookedAt' \ ToSet(expanded') : IsIn(i, d)'
      BY <1>9, <1>10, <1>11
    <2>2. ToSet(todo') \subseteq selected' /\ selected' \subseteq Ids
      BY <1>1, <1>2, <1>3
    <2>3. phase' \in {"expanded", "retrieve"} /\ (phase' = "expanded" <=> todo' = << >>)
      BY <1>1
    <2>4. pageIDs' = << >> /\ cursor' = None
      BY <1>1
    <2> QED
      BY <1>3, <1>4, <1>6, <1>12, <2>1, <2>2, <2>3, <2>4, Zenon DEF ExpansionOK
  <1>14. GoneOK'
    BY <1>9, <1>10 DEF DiscoveryInv, GoneOK
  <1> QED
    BY <1>7, <1>8, <1>13, <1>14 DEF DiscoveryInv

\* A page is its own expansion, and what is gone; a database is queried.
LEMMA RetrieveKeeps ==
  ASSUME DiscoveryInv, RetrieveDatabase
  PROVE  DiscoveryInv'
  <1>1. /\ phase = "retrieve" /\ todo # << >> /\ IsInjective(todo) /\ todo \in Seq(Ids)
        /\ UNCHANGED <<source, list, selected>>
    BY DiscoveryTypes DEF RetrieveDatabase, DiscoveryInv, ExpansionOK
  <1>2. Head(todo) \in Ids
    BY <1>1, HeadAndTail
  <1>4. CASE isDatabase
    <2>0. source[Head(todo)].kind = "database"
      BY <1>4 DEF isDatabase
    <2>1. /\ phase' = "query"
          /\ UNCHANGED <<source, limit, refs, hasNext, selected, cursor, pageIDs, todo, expanded>>
      BY <1>1, <1>4 DEF RetrieveDatabase, list
    <2>2. cursor = None /\ pageIDs = << >>
      BY <1>1 DEF DiscoveryInv, ExpansionOK
    <2>3. ToSet(pageIDs) = {}
      BY <2>2 DEF ToSet
    <2>4. DiscoveryTypeOK'
      BY <2>1 DEF DiscoveryInv, DiscoveryTypeOK
    <2>5. ListingOK'
      BY <2>1 DEF ListingOK
    <2>6. ExpansionOK'
      BY <1>1, <2>0, <2>1, <2>2, <2>3
      DEF DiscoveryInv, ExpansionOK, LookedAt, IsIn, Touched, Gone
    <2>7. GoneOK'
      BY <2>1 DEF DiscoveryInv, GoneOK, Gone, Touched
    <2> QED
      BY <2>4, <2>5, <2>6, <2>7 DEF DiscoveryInv
  <1>5. CASE ~isDatabase
    <2> DEFINE pages == <<Head(todo)>>
    <2>1. Expand(pages)
      BY <1>1, <1>5 DEF RetrieveDatabase
    <2>2. pages \in Seq(Ids) /\ ToSet(pages) = {Head(todo)}
      BY <1>2 DEF ToSet
    <2>3. source[Head(todo)].kind = "database" => Gone(Head(todo))
      BY <1>5 DEF isDatabase
    <2>4. \A i \in Ids : source[i].kind = "page" =>
            (i \in ToSet(pages)
              <=> i = Head(todo) \/ (IsIn(i, Head(todo)) /\ Head(todo) \notin ToSet(pages)))
      BY <2>2
    <2> HIDE DEF pages
    <2> QED
      BY <1>1, <2>1, <2>2, <2>3, <2>4, ExpandKeeps
  <1> QED
    BY <1>4, <1>5

\* An answer to a query of a database has what comes from the cursor to the next one.
LEMMA DatabaseAnswersAreParts ==
  ASSUME DiscoveryInv, phase = "query", QueryIsValid, NEW answer \in DatabaseAnswers
  PROVE  /\ answer.results \in Seq(Ids) /\ answer.next \in Ids \cup {None}
         /\ \A i \in ToSet(answer.results) : source[i].parent = Head(todo)
         /\ \A i \in Ids : source[i].parent = Head(todo) /\ ~Gone(i) =>
              ((cursor # None /\ i < cursor) \/ i \in ToSet(answer.results)
                <=> (answer.next = None \/ i < answer.next))
         /\ \A i \in Ids : cursor # None /\ i < cursor => answer.next = None \/ i < answer.next
  <1> DEFINE d == Head(todo)
             children == {i \in Ids : source[i].parent = d /\ ~Gone(i)}
  <1>1. /\ None \notin Ids /\ cursor \in Ids \cup {None} /\ IsFiniteSet(Ids)
        /\ PageSize \in Nat /\ \A i \in Ids : i \in Nat
    BY DiscoveryTypes DEF DiscoveryInv
  <1>2. IsFiniteSet(children) /\ children \subseteq Ids
    BY <1>1, FS_Subset
  <1>3. PICK s \in DatabaseResults(d) : answer \in Answers(s, cursor, PageSize)
    BY DEF DatabaseAnswers
  <1>4. s \in SetToSeqs(children) /\ \A k, m \in DOMAIN s : k < m => s[k] < s[m]
    BY <1>3 DEF DatabaseResults
  <1> HIDE DEF d, children
  <1>5. /\ s \in Seq(children) /\ DOMAIN s = 1..Len(s) /\ Len(s) \in Nat
        /\ ToSet(s) = children /\ \A k \in 1..Len(s) : s[k] \in children
    <2>1. /\ s \in Seq(children) /\ DOMAIN s = 1..Len(s) /\ Len(s) \in Nat /\ ToSet(s) = children
      BY <1>2, <1>4, HasThemAll
    <2> QED
      BY <2>1, ElementOfSeq
  <1>6. /\ answer.results \in Seq(children) /\ Len(answer.results) <= PageSize
        /\ \E p, q : IsPart(answer, s, cursor, p, q)
    <2>1. cursor # None => cursor \in ToSet(s)
      BY <1>1, <1>5 DEF QueryIsValid, children, d
    <2>2. None \notin children /\ s \in Seq(children) /\ PageSize \in Nat
      BY <1>1, <1>2, <1>5
    <2> QED
      BY <1>3, <2>1, <2>2, AnswerIsAPart
  <1>6a. PICK p, q : IsPart(answer, s, cursor, p, q)
    BY <1>6
  <1>6b. /\ p \in Nat /\ p >= 1 /\ q \in Nat /\ q <= Len(s) /\ p <= q + 1
         /\ cursor = None => p = 1
         /\ cursor # None => p \in 1..Len(s) /\ s[p] = cursor
         /\ ToSet(answer.results) = Between(s, p, q)
         /\ answer.next = None => q = Len(s)
         /\ answer.next # None => q + 1 \in 1..Len(s) /\ answer.next = s[q + 1]
    BY <1>5, <1>6a DEF IsPart
  <1>6c. p \in Nat /\ p >= 1 /\ q \in Nat /\ q <= Len(s) /\ p <= q + 1 /\ Len(s) \in Nat
    BY <1>5, <1>6b
  <1>7. \A k \in 1..Len(s) : s[k] \in Nat
    BY <1>1, <1>2, <1>5
  <1>8. ASSUME NEW i \in Ids, cursor # None, i < cursor
        PROVE  answer.next = None \/ i < answer.next
    <2> SUFFICES ASSUME answer.next # None PROVE i < answer.next
      OBVIOUS
    <2>1. /\ p \in 1..Len(s) /\ s[p] = cursor /\ q + 1 \in 1..Len(s) /\ answer.next = s[q + 1]
      BY <1>5, <1>6b, <1>8
    <2>2. p = q + 1 \/ p < q + 1
      BY <1>6b, <2>1
    <2>3. s[p] = s[q + 1] \/ s[p] < s[q + 1]
      BY <1>4, <1>5, <2>1, <2>2
    <2>4. s[p] \in Nat /\ s[q + 1] \in Nat /\ i \in Nat
      BY <1>1, <1>7, <2>1
    <2> QED
      BY <1>8, <2>1, <2>3, <2>4
  <1>9. ASSUME NEW i \in Ids, i \in ToSet(answer.results)
        PROVE  answer.next = None \/ i < answer.next
    <2>1. PICK k \in p..q : i = s[k]
      BY <1>6b, <1>9 DEF Between
    <2> SUFFICES ASSUME answer.next # None PROVE i < answer.next
      OBVIOUS
    <2>2. q + 1 \in 1..Len(s) /\ answer.next = s[q + 1]
      BY <1>6b
    <2>3. k \in 1..Len(s) /\ k < q + 1
      BY <1>6c
    <2> QED
      BY <1>4, <1>5, <2>1, <2>2, <2>3
  <1>10. ASSUME NEW i \in children, answer.next = None \/ i < answer.next
         PROVE  (cursor # None /\ i < cursor) \/ i \in ToSet(answer.results)
    <2>1. PICK k \in 1..Len(s) : s[k] = i
      BY <1>5 DEF ToSet
    <2>2. CASE k < p
      <3>0. p # 1
        BY <1>6c, <2>2
      <3>1. cursor # None /\ p \in 1..Len(s) /\ s[p] = cursor
        BY <1>6b, <3>0
      <3> QED
        BY <1>4, <1>5, <2>1, <2>2, <3>1
    <2>3. CASE k \in p..q
      BY <1>6b, <2>1, <2>3 DEF Between
    <2>4. CASE k > q
      <3>1. q # Len(s)
        BY <1>6c, <2>4
      <3>2. q + 1 \in 1..Len(s) /\ answer.next = s[q + 1] /\ i < s[q + 1]
        BY <1>5, <1>6b, <1>10, <3>1
      <3>3. k = q + 1 \/ q + 1 < k
        BY <1>6c, <2>4
      <3>4. s[q + 1] = s[k] \/ s[q + 1] < s[k]
        BY <1>4, <1>5, <2>1, <3>2, <3>3
      <3>5. s[q + 1] \in Nat /\ s[k] \in Nat
        BY <1>7, <2>1, <3>2
      <3> QED
        BY <2>1, <3>2, <3>4, <3>5
    <2> QED
      BY <1>6c, <2>2, <2>3, <2>4
  <1>11. answer.results \in Seq(Ids) /\ \A i \in ToSet(answer.results) : i \in children
    <2>1. /\ answer.results \in Seq(children) /\ DOMAIN answer.results = 1..Len(answer.results)
          /\ Len(answer.results) \in Nat
          /\ \A k \in DOMAIN answer.results : answer.results[k] \in children
      BY <1>6, LenProperties, ElementOfSeq
    <2>2. answer.results \in Seq(Ids)
      BY <1>2, <2>1, SeqDef
    <2> QED
      BY <2>1, <2>2 DEF ToSet
  <1>12. answer.next \in Ids \cup {None}
    BY <1>2, <1>5, <1>6b
  <1>13. \A i \in Ids : i \in children <=> source[i].parent = d /\ ~Gone(i)
    BY DEF children
  <1>14. \A i \in ToSet(answer.results) : source[i].parent = d
    BY <1>11 DEF children
  <1> QED
    BY <1>8, <1>9, <1>10, <1>11, <1>12, <1>13, <1>14 DEF d

\* A page of results of a database.
LEMMA QueryKeeps ==
  ASSUME DiscoveryInv, QueryDatabase
  PROVE  DiscoveryInv'
  <1>1. /\ phase = "query" /\ QueryIsValid /\ UNCHANGED <<source, list, selected>>
        /\ source[Head(todo)].kind = "database"
        /\ \A i \in Ids : source[i].kind = "page" =>
             \/ Touched(i)
             \/ i \in ToSet(pageIDs) <=> IsIn(i, Head(todo)) /\ cursor # None /\ i < cursor
        /\ \A i \in ToSet(pageIDs) : source[i].kind = "page"
        /\ pageIDs \in Seq(Ids)
    BY DiscoveryTypes DEF QueryDatabase, DiscoveryInv, ExpansionOK
  <1>2. PICK answer \in DatabaseAnswers :
          IF answer.next # None
          THEN /\ cursor' = answer.next
               /\ pageIDs' = addPages(answer.results)
               /\ UNCHANGED <<todo, expanded, phase>>
          ELSE Expand(addPages(answer.results))
    BY DEF QueryDatabase
  <1>3. /\ answer.results \in Seq(Ids) /\ answer.next \in Ids \cup {None}
        /\ \A i \in ToSet(answer.results) : source[i].parent = Head(todo)
        /\ \A i \in Ids : source[i].parent = Head(todo) /\ ~Gone(i) =>
             ((cursor # None /\ i < cursor) \/ i \in ToSet(answer.results)
               <=> (answer.next = None \/ i < answer.next))
        /\ \A i \in Ids : cursor # None /\ i < cursor => answer.next = None \/ i < answer.next
    BY <1>1, DatabaseAnswersAreParts
  <1> DEFINE pages == addPages(answer.results)
  <1>4. /\ pages \in Seq(Ids)
        /\ ToSet(pages)
             = ToSet(pageIDs) \cup {i \in ToSet(answer.results) : source[i].kind = "page"}
    BY <1>1, <1>3, AddPagesResult
  <1> HIDE DEF pages
  <1>5. \A i \in ToSet(pages) : source[i].kind = "page"
    BY <1>1, <1>4
  <1>6. ASSUME NEW i \in Ids, source[i].kind = "page", ~Touched(i)
        PROVE  i \in ToSet(pages) <=> IsIn(i, Head(todo)) /\ (answer.next = None \/ i < answer.next)
    <2>1. i \in ToSet(pageIDs) <=> IsIn(i, Head(todo)) /\ cursor # None /\ i < cursor
      BY <1>1, <1>6
    <2>2. IsIn(i, Head(todo)) <=> source[i].parent = Head(todo)
      BY <1>1 DEF IsIn
    <2>3. ~Gone(i)
      BY <1>6 DEF DiscoveryInv, GoneOK
    <2> QED
      BY <1>3, <1>4, <1>6, <2>1, <2>2, <2>3
  <1>7. CASE answer.next = None
    <2>1. Expand(pages)
      BY <1>2, <1>7 DEF pages
    <2>2. Head(todo) \notin ToSet(pages) /\ \A i \in Ids : source[i].kind = "page" => i # Head(todo)
      BY <1>1, <1>5
    <2>3. \A i \in Ids : source[i].kind = "page" =>
            \/ Touched(i)
            \/ i \in ToSet(pages)
                 <=> i = Head(todo) \/ (IsIn(i, Head(todo)) /\ Head(todo) \notin ToSet(pages))
      BY <1>6, <1>7, <2>2
    <2>4. \A i \in ToSet(pages) : source[i].kind # "database"
      BY <1>5
    <2> QED
      BY <1>1, <1>4, <2>1, <2>3, <2>4, ExpandKeeps
  <1>8. CASE answer.next # None
    <2>1. /\ cursor' = answer.next /\ pageIDs' = pages
          /\ UNCHANGED <<source, limit, refs, hasNext, selected, todo, expanded, phase>>
      BY <1>1, <1>2, <1>8 DEF pages, list
    <2>2. DiscoveryTypeOK'
      BY <1>3, <1>4, <2>1 DEF DiscoveryInv, DiscoveryTypeOK
    <2>3. ListingOK'
      BY <1>1, <2>1 DEF ListingOK
    <2>4. /\ \A i : Touched(i)' = Touched(i)
          /\ \A i, e : IsIn(i, e)' = IsIn(i, e) /\ Gone(i)' = Gone(i)
          /\ LookedAt' = LookedAt /\ Head(todo)' = Head(todo) /\ ToSet(pageIDs)' = ToSet(pages)
      BY <2>1 DEF Touched, IsIn, Gone, LookedAt
    <2>5. \A i \in Ids : source[i].kind = "page" =>
            Touched(i) \/ (i \in ToSet(pages) <=> IsIn(i, Head(todo)) /\ i < answer.next)
      BY <1>6, <1>8
    <2>6. ExpansionOK'
      BY <1>1, <1>5, <1>8, <2>1, <2>4, <2>5 DEF DiscoveryInv, ExpansionOK
    <2>7. GoneOK'
      BY <2>4 DEF DiscoveryInv, GoneOK
    <2> QED
      BY <2>2, <2>3, <2>6, <2>7 DEF DiscoveryInv
  <1> QED
    BY <1>7, <1>8

\* A call that is over has nothing.
LEMMA AbandonKeeps ==
  ASSUME DiscoveryInv, Abandon
  PROVE  DiscoveryInv'
  <1>1. /\ phase' = "error" /\ limit' = 0 /\ hasNext' = FALSE /\ cursor' = None /\ refs' = << >>
        /\ todo' = << >> /\ pageIDs' = << >> /\ expanded' = << >> /\ selected' = {}
        /\ UNCHANGED source
    BY DEF Abandon
  <1>2. DiscoveryTypeOK'
    <2>1. refs' \in Seq(Refs) /\ Len(refs') <= limit'
      BY <1>1, EmptySeq
    <2>2. {todo', pageIDs', expanded'} \subseteq Seq(Ids)
      BY <1>1, EmptySeq
    <2> QED
      BY <1>1, <2>1, <2>2 DEF DiscoveryInv, DiscoveryTypeOK, Refs
  <1>3. ListingOK'
    BY <1>1 DEF ListingOK
  <1>4. ExpansionOK'
    <2>1. /\ IsInjective(todo') /\ IsInjective(expanded')
          /\ ToSet(todo') = {} /\ ToSet(expanded') = {} /\ ToSet(pageIDs') = {}
      BY <1>1 DEF IsInjective, ToSet
    <2>2. LookedAt' = {}
      BY <1>1 DEF LookedAt
    <2> QED
      BY <1>1, <2>1, <2>2 DEF ExpansionOK
  <1>5. GoneOK'
    BY <1>1 DEF DiscoveryInv, GoneOK, Gone, Touched
  <1> QED
    BY <1>2, <1>3, <1>4, <1>5 DEF DiscoveryInv

\* Nothing is found yet.
LEMMA DiscoveryInitially == RequestInit \/ StoredInit => DiscoveryInv
  <1> SUFFICES ASSUME RequestInit \/ StoredInit PROVE DiscoveryInv
    OBVIOUS
  <1>1. /\ cursor = None /\ refs = << >> /\ hasNext = FALSE /\ todo = << >> /\ pageIDs = << >>
        /\ expanded = << >> /\ selected = {}
        /\ \/ phase = "search" /\ limit \in Limits
           \/ phase = "expanded" /\ limit = 0
    BY DEF RequestInit, StoredInit, Init
  <1>2. /\ source \in [Ids -> [parent : Ids \cup {None}, kind : Kinds, at : 0..MaxEdits,
                              shared : BOOLEAN]]
        /\ \A i \in Ids : ~Gone(i)
    <2>1. 0 \in 0..MaxEdits
      BY DiscoveryAssumption
    <2>2. CASE RequestInit
      <3>1. PICK D \in DatabaseSets, parent \in [Ids -> Ids \cup {None}] :
              source = [i \in Ids |-> [parent |-> parent[i], at |-> 0, shared |-> TRUE,
                                       kind |-> IF i \in D THEN "database" ELSE "page"]]
        BY <2>2 DEF RequestInit, Init
      <3> QED
        BY <2>1, <3>1 DEF Kinds, Gone
    <2>3. CASE StoredInit
      BY <2>1, <2>3 DEF StoredInit, Kinds, Gone
    <2> QED
      BY <2>2, <2>3
  <1>3. Len(refs) = 0 /\ << >> \in Seq(Refs) /\ << >> \in Seq(Ids)
    BY <1>1, EmptySeq
  <1>4. limit \in Nat /\ (phase = "search" => limit > 0)
    <2>1. \A l \in Limits : l \in Nat /\ l > 0
      BY DiscoveryAssumption
    <2> QED
      BY <1>1, <2>1
  <1>5. DiscoveryTypeOK
    <2>1. Len(refs) <= limit
      BY <1>3, <1>4
    <2> QED
      BY <1>1, <1>2, <1>3, <2>1 DEF DiscoveryTypeOK, Refs
  <1>6. ListingOK
    <2>1. IsInjective([k \in DOMAIN refs |-> refs[k].id])
      BY <1>1 DEF IsInjective
    <2> QED
      BY <1>1, <1>3, <1>4, <2>1 DEF ListingOK
  <1>7. ExpansionOK
    <2>1. IsInjective(<< >>) /\ ToSet(<< >>) = {}
      BY DEF IsInjective, ToSet
    <2>2. LookedAt = {}
      BY <1>1 DEF LookedAt
    <2> QED
      BY <1>1, <2>1, <2>2 DEF ExpansionOK
  <1> QED
    BY <1>2, <1>5, <1>6, <1>7 DEF DiscoveryInv, GoneOK

-----------------------------------------------------------------------------
(* The comparison of versions.                                             *)

\* A part of a version, as OnlySupportedMemos reads it.
Part(v, i) == IF i \in DOMAIN v THEN v[i] ELSE 0

\* 0.29.1 or later.
IsLater(v) ==
  \/ Part(v, 1) > 0
  \/ Part(v, 2) > 29
  \/ Part(v, 2) = 29 /\ Part(v, 3) > 0

\* Of three positions, if any is in a set, there is a first one.
LEMMA FirstOfThree ==
  ASSUME NEW S \in SUBSET (1..3), S # {}
  PROVE  Min(S) \in S /\ \A i \in S : Min(S) <= i
  <1>1. \E x \in S : \A y \in S : x <= y
    <2>1. CASE 1 \in S
      BY <2>1
    <2>2. CASE 1 \notin S /\ 2 \in S
      BY <2>2
    <2>3. CASE 1 \notin S /\ 2 \notin S
      <3>1. \A x \in S : x = 3
        BY <2>3
      <3>2. PICK x \in S : TRUE
        OBVIOUS
      <3>3. 3 \in S /\ \A y \in S : 3 <= y
        BY <3>1, <3>2
      <3> QED
        BY <3>3
    <2> QED
      BY <2>1, <2>2, <2>3
  <1> QED
    BY <1>1 DEF Min

\* The comparison decides as the property says it should.
LEMMA ComparesVersions ==
  ASSUME NEW v \in Versions
  PROVE  compareVersion(v, MinVersion) < 0 <=> ~IsLater(v)
  <1> DEFINE g == parseVersion(v)
             m == parseVersion(MinVersion)
             D == {i \in 1..3 : g[i] # m[i]}
             first == Min(D)
  <1>1. v \in Seq(Nat)
    BY RequestAssumption
  <1>2. \A i \in 1..3 : g[i] = Part(v, i) /\ g[i] \in Nat
    BY <1>1, ElementOfSeq, LenProperties DEF parseVersion, Part
  <1>3. m[1] = 0 /\ m[2] = 29 /\ m[3] = 1
    BY DEF parseVersion, MinVersion
  <1>4. CASE g = m
    <2>1. compareVersion(v, MinVersion) = 0
      BY <1>4 DEF compareVersion
    <2>2. g[2] = 29 /\ g[3] = 1
      BY <1>3, <1>4
    <2>3. Part(v, 2) = 29 /\ Part(v, 3) > 0
      BY <1>2, <2>2
    <2> QED
      BY <2>1, <2>3 DEF IsLater
  <1>5. CASE g # m
    <2>1. D # {}
      <3>1. g = [i \in 1..3 |-> g[i]] /\ m = [i \in 1..3 |-> m[i]]
        BY DEF parseVersion
      <3> QED
        BY <1>5, <3>1
    <2>2. first \in D /\ \A i \in D : first <= i
      BY <2>1, FirstOfThree
    <2>3. first \in 1..3 /\ g[first] # m[first] /\ \A i \in 1..3 : i < first => g[i] = m[i]
      BY <2>2
    <2>4. compareVersion(v, MinVersion) = IF g[first] > m[first] THEN 1 ELSE -1
      BY <1>5 DEF compareVersion
    <2>5. compareVersion(v, MinVersion) < 0 <=> ~(g[first] > m[first])
      BY <2>4
    <2>6. IsLater(v) <=> g[1] > 0 \/ g[2] > 29 \/ (g[2] = 29 /\ g[3] > 0)
      BY <1>2 DEF IsLater
    <2>7. g[1] \in Nat /\ g[2] \in Nat /\ g[3] \in Nat
      BY <1>2
    <2>8. CASE first = 1
      BY <1>3, <2>3, <2>5, <2>6, <2>7, <2>8
    <2>9. CASE first = 2
      BY <1>3, <2>3, <2>5, <2>6, <2>7, <2>9
    <2>10. CASE first = 3
      BY <1>3, <2>3, <2>5, <2>6, <2>7, <2>10
    <2> QED
      BY <2>3, <2>8, <2>9, <2>10
  <1> QED
    BY <1>4, <1>5

-----------------------------------------------------------------------------
(* The invariant.                                                          *)

HeardNothing == \A k \in DOMAIN heard : heard[k] = None

\* A request that has not been checked has heard nothing; one that asks for a limit
\* has none and has only heard that there is none.
CheckingOK ==
  /\ stage \in {"console", "version"} => version = None /\ heard = << >>
  /\ stage = "limit" => options = 0 /\ HeardNothing /\ Len(heard) < Endpoints

\* A request for a new job has none until it is stored; it is expanded after the
\* checks, and what was heard is forgotten with the first step of that.
ExpandingOK ==
  /\ stage \in {"console", "expand", "refused"} => job = NoJob
  /\ stage \in {"run", "stored"} => job # NoJob
  /\ stage \in {"version", "limit"} /\ job = NoJob => phase = "retrieve"
  /\ stage = "expand" => phase = "retrieve" \/ (version = None /\ heard = << >>)

\* A job that is run has options with its own limit, if it has one.
LimitOK ==
  /\ job = NoJob => used = {}
  /\ job # NoJob /\ job.limit > 0 =>
       /\ used \subseteq {job.limit}
       /\ stage \in {"version", "limit", "run"} => options = job.limit

RequestTypes ==
  /\ stage \in {"console", "version", "limit", "expand", "run", "stored", "refused"}
  /\ version \in Versions \cup {None}
  /\ options \in Nat
  /\ heard \in Seq(Nat \cup {None})
  /\ job # NoJob => job.limit \in Nat

RequestInv == RequestTypes /\ CheckingOK /\ ExpandingOK /\ LimitOK /\ MemosChecksDecide

\* At the console nothing is known of the job yet, and a stored job is at rest.
LEMMA RequestInitially == RequestInit \/ StoredInit => RequestInv
  <1> SUFFICES ASSUME RequestInit \/ StoredInit PROVE RequestInv
    OBVIOUS
  <1>1. /\ version = None /\ heard = << >> /\ options = 0 /\ used = {}
        /\ \/ stage = "console" /\ job = NoJob
           \/ stage = "stored" /\ job \in [items : {<<1>>}, limit : AskedLimits \cup MemosLimits]
    BY DEF RequestInit, StoredInit
  <1>2. ASSUME stage = "stored" PROVE job # NoJob /\ job.limit \in Nat
    <2>1. job \in [items : {<<1>>}, limit : AskedLimits \cup MemosLimits]
      BY <1>1, <1>2
    <2>2. job.limit \in AskedLimits \cup MemosLimits
      BY <2>1
    <2>3. job.limit \in Nat
      BY <2>2, RequestAssumption
    <2>4. NoJob.limit = None
      BY DEF NoJob
    <2>5. None \notin Nat
      BY DiscoveryAssumption
    <2> QED
      BY <2>3, <2>4, <2>5
  <1>3. RequestTypes
    BY <1>1, <1>2, EmptySeq DEF RequestTypes
  <1>4. MemosChecksDecide
    BY <1>1 DEF MemosChecksDecide, OnlySupportedMemos, LimitIsTheFirstOffered
  <1> QED
    BY <1>1, <1>2, <1>3, <1>4 DEF RequestInv, CheckingOK, ExpandingOK, LimitOK

-----------------------------------------------------------------------------
(* The steps.                                                              *)

\* A request that is refused before it has heard of a limit.
LEMMA RefusedKeeps ==
  ASSUME RequestInv, Refused, stage \in {"version", "limit", "expand"},
         version' \in Versions \cup {None}, heard' \in Seq(Nat \cup {None}), options' = options,
         version' # None => ~IsLater(version'),
         heard' # << >> => (\A k \in DOMAIN heard' : heard'[k] = None) /\ Len(heard') = Endpoints
  PROVE  RequestInv'
  <1>1. /\ stage' \in {"refused", "stored"}
        /\ stage' = "refused" => job = NoJob
        /\ stage' = "stored" => job # NoJob
        /\ UNCHANGED <<job, used>>
    BY DEF Refused, stored
  <1>2. OnlySupportedMemos'
    BY <1>1 DEF OnlySupportedMemos, IsLater, Part
  <1>3. LimitIsTheFirstOffered'
    BY <1>1 DEF LimitIsTheFirstOffered
  <1> QED
    BY <1>1, <1>2, <1>3
    DEF RequestInv, RequestTypes, CheckingOK, ExpandingOK, LimitOK, MemosChecksDecide

\* The check of the version.
LEMMA VersionKeeps ==
  ASSUME RequestInv, VerifyMinVersion
  PROVE  RequestInv'
  <1>1. stage = "version" /\ heard = << >> /\ UNCHANGED <<heard, options>>
    BY DEF VerifyMinVersion, RequestInv, CheckingOK
  <1>2. PICK v \in Versions :
          /\ version' = v
          /\ IF compareVersion(v, MinVersion) < 0 THEN Refused
             ELSE stage' = ensureContentLengthLimit /\ UNCHANGED <<vars, stored>>
    BY DEF VerifyMinVersion
  <1>3. v # None
    BY RequestAssumption
  <1>4. CASE compareVersion(v, MinVersion) < 0
    <2>1. Refused /\ ~IsLater(version')
      BY <1>2, <1>4, ComparesVersions
    <2> QED
      BY <1>1, <1>2, <2>1, RefusedKeeps DEF RequestInv, RequestTypes
  <1>5. CASE ~(compareVersion(v, MinVersion) < 0)
    <2>1. IsLater(version') /\ stage' = ensureContentLengthLimit /\ UNCHANGED <<vars, stored>>
      BY <1>2, <1>5, ComparesVersions
    <2>2. /\ stage' \in {"limit", "expand", "run"}
          /\ stage' = "limit" <=> options = 0
          /\ options # 0 => (stage' = "expand" <=> job = NoJob)
      BY <2>1 DEF ensureContentLengthLimit
    <2>3. UNCHANGED <<job, used, phase>>
      BY <2>1 DEF vars, stored
    <2>4. OnlySupportedMemos'
      BY <2>1, <2>2 DEF OnlySupportedMemos, IsLater, Part
    <2>5. LimitIsTheFirstOffered'
      BY <1>1 DEF LimitIsTheFirstOffered
    <2>6. HeardNothing' /\ Len(heard') < Endpoints
      BY <1>1, EmptySeq DEF HeardNothing, Endpoints
    <2>7. RequestTypes' /\ CheckingOK'
      BY <1>1, <1>2, <2>2, <2>3, <2>6 DEF RequestInv, RequestTypes, CheckingOK
    <2>8. ExpandingOK'
      BY <1>1, <2>2, <2>3 DEF RequestInv, RequestTypes, ExpandingOK
    <2>9. LimitOK'
      BY <1>1, <2>2, <2>3 DEF RequestInv, RequestTypes, LimitOK
    <2> QED
      BY <2>4, <2>5, <2>7, <2>8, <2>9 DEF RequestInv, MemosChecksDecide
  <1> QED
    BY <1>4, <1>5

\* One endpoint is asked for the limit.
LEMMA LimitKeeps ==
  ASSUME RequestInv, ContentLengthLimit
  PROVE  RequestInv'
  <1>1. /\ stage = "limit" /\ options = 0 /\ HeardNothing /\ Len(heard) < Endpoints
        /\ heard \in Seq(Nat \cup {None}) /\ Len(heard) \in Nat
    BY LenProperties
    DEF ContentLengthLimit, RequestInv, CheckingOK, RequestTypes
  <1>2. PICK answer \in MemosLimits \cup {None} :
          /\ heard' = Append(heard, answer)
          /\ version' = None
          /\ IF answer # None
             THEN /\ options' = answer
                  /\ stage' = IF job = NoJob THEN "expand" ELSE "run"
                  /\ UNCHANGED <<vars, stored>>
             ELSE IF Len(heard') = Endpoints THEN Refused /\ UNCHANGED options
             ELSE UNCHANGED <<vars, stored, options, stage>>
    BY DEF ContentLengthLimit
  <1>3. answer \in Nat \cup {None}
    BY RequestAssumption
  <1>4. /\ heard' \in Seq(Nat \cup {None})
        /\ Len(heard') = Len(heard) + 1
        /\ DOMAIN heard' = 1..(Len(heard) + 1)
        /\ heard'[Len(heard) + 1] = answer
        /\ \A k \in 1..Len(heard) : heard'[k] = None
    <2>1. DOMAIN heard = 1..Len(heard)
      BY <1>1, LenProperties
    <2> QED
      BY <1>1, <1>2, <1>3, <2>1, AppendProperties, LenProperties DEF HeardNothing
  <1>5. job # NoJob => job.limit = 0
    BY <1>1 DEF RequestInv, RequestTypes, LimitOK
  <1>6. CASE answer # None
    <2>1. /\ stage' \in {"expand", "run"}
          /\ stage' = "expand" <=> job = NoJob
          /\ options' = answer /\ UNCHANGED <<vars, stored>>
      BY <1>2, <1>6
    <2>2. UNCHANGED <<job, used, phase>>
      BY <2>1 DEF vars, stored
    <2>3. LimitIsTheFirstOffered'
      <3>1. Len(heard) + 1 \in DOMAIN heard' /\ heard'[Len(heard) + 1] # None
        BY <1>1, <1>4, <1>6
      <3>2. \A i \in 1..((Len(heard) + 1) - 1) : heard'[i] = None
        BY <1>1, <1>4
      <3>3. options' = heard'[Len(heard) + 1] /\ stage' \in {"expand", "run", "stored"}
        BY <1>4, <2>1
      <3>4. \E k \in DOMAIN heard' :
              /\ heard'[k] # None /\ \A i \in 1..(k - 1) : heard'[i] = None
              /\ stage' \in {"expand", "run", "stored"} /\ options' = heard'[k]
        BY <3>1, <3>2, <3>3, Zenon
      <3> QED
        BY <3>4, Zenon DEF LimitIsTheFirstOffered
    <2>4. OnlySupportedMemos'
      BY <1>2 DEF OnlySupportedMemos
    <2>5. RequestTypes' /\ CheckingOK' /\ LimitOK'
      BY <1>2, <1>3, <1>4, <1>5, <1>6, <2>1, <2>2
      DEF RequestInv, RequestTypes, CheckingOK, LimitOK
    <2>6. ExpandingOK'
      BY <1>1, <2>1, <2>2 DEF RequestInv, ExpandingOK
    <2> QED
      BY <2>3, <2>4, <2>5, <2>6 DEF RequestInv, MemosChecksDecide
  <1>7. CASE answer = None
    <2>1. \A k \in DOMAIN heard' : heard'[k] = None
      BY <1>1, <1>4, <1>7
    <2>2. CASE Len(heard') = Endpoints
      BY <1>1, <1>2, <1>4, <1>7, <2>1, <2>2, RefusedKeeps
    <2>3. CASE Len(heard') # Endpoints
      <3>1. UNCHANGED <<vars, stored, options, stage>>
        BY <1>2, <1>7, <2>3
      <3>2. UNCHANGED <<job, used, phase, options, stage>>
        BY <3>1 DEF vars, stored
      <3>3. Len(heard') < Endpoints
        BY <1>1, <1>4, <2>3 DEF Endpoints
      <3> QED
        BY <1>1, <1>2, <1>4, <2>1, <3>2, <3>3
        DEF RequestInv, RequestTypes, CheckingOK, ExpandingOK, LimitOK, HeardNothing,
            MemosChecksDecide, OnlySupportedMemos, LimitIsTheFirstOffered
    <2> QED
      BY <2>2, <2>3
  <1> QED
    BY <1>6, <1>7

\* The adapter is at work, or Notion's users are.
LEMMA FindingKeeps ==
  ASSUME RequestInv, stage \in {"console", "expand"}, Finding
  PROVE  RequestInv'
  <1>1. /\ version' = None /\ heard' = << >> /\ UNCHANGED <<options, job, used>>
        /\ stage' = stage \/ (stage = "expand" /\ stage' = "refused")
    BY DEF Finding, stored
  <1> QED
    BY <1>1, EmptySeq
    DEF RequestInv, RequestTypes, CheckingOK, ExpandingOK, LimitOK, MemosChecksDecide,
        OnlySupportedMemos, LimitIsTheFirstOffered

\* The job is stored, or was nothing.
LEMMA CreateJobKeeps ==
  ASSUME RequestInv, CreateJob
  PROVE  RequestInv'
  <1>1. /\ stage = "expand" /\ version = None /\ heard = << >> /\ job = NoJob /\ used = {}
        /\ UNCHANGED <<version, heard, options>> /\ options \in Nat
    BY DEF CreateJob, RequestInv, RequestTypes, ExpandingOK, LimitOK
  <1>2. CASE expanded = << >>
    BY <1>1, <1>2, RefusedKeeps DEF CreateJob, RequestInv, RequestTypes
  <1>3. CASE expanded # << >>
    <2>1. /\ job' = [items |-> uniqueExternalIDs(expanded), limit |-> options]
          /\ stage' = "run"
          /\ UNCHANGED used
      BY <1>3 DEF CreateJob
    <2>2. job'.limit = options /\ job' # NoJob
      BY <1>1, <2>1, DiscoveryAssumption DEF NoJob
    <2> QED
      BY <1>1, <2>1, <2>2
      DEF RequestInv, RequestTypes, CheckingOK, ExpandingOK, LimitOK, MemosChecksDecide,
          OnlySupportedMemos, LimitIsTheFirstOffered
  <1> QED
    BY <1>2, <1>3

\* The job is run, or has a runner.
LEMMA StartRunKeeps ==
  ASSUME RequestInv, StartRun
  PROVE  RequestInv'
  <1>1. /\ stage = "run" /\ stage' = "stored" /\ version' = None
        /\ UNCHANGED <<heard, options, job>>
        /\ used' \subseteq used \cup {options}
    BY DEF StartRun
  <1>2. LimitIsTheFirstOffered'
    BY <1>1 DEF RequestInv, MemosChecksDecide, LimitIsTheFirstOffered
  <1>3. LimitOK'
    BY <1>1 DEF RequestInv, ExpandingOK, LimitOK
  <1> QED
    BY <1>1, <1>2, <1>3
    DEF RequestInv, RequestTypes, CheckingOK, ExpandingOK, MemosChecksDecide, OnlySupportedMemos

\* A request comes in.
LEMMA SubmitKeeps ==
  ASSUME RequestInv, SubmitJob \/ ResumeJob
  PROVE  RequestInv'
  <1>1. CASE SubmitJob
    <2>1. /\ stage = "console" /\ stage' = "version" /\ phase' = "retrieve"
          /\ options' \in Nat
          /\ UNCHANGED <<version, heard, job, used>>
      BY <1>1, RequestAssumption DEF SubmitJob, Select, stored
    <2> QED
      BY <2>1
      DEF RequestInv, RequestTypes, CheckingOK, ExpandingOK, LimitOK, MemosChecksDecide,
          OnlySupportedMemos, LimitIsTheFirstOffered
  <1>2. CASE ResumeJob
    <2>1. /\ stage = "stored" /\ stage' = "version" /\ options' = job.limit
          /\ version' = None /\ heard' = << >> /\ UNCHANGED <<job, used>>
      BY <1>2 DEF ResumeJob
    <2> QED
      BY <2>1, EmptySeq
      DEF RequestInv, RequestTypes, CheckingOK, ExpandingOK, LimitOK, MemosChecksDecide,
          OnlySupportedMemos, LimitIsTheFirstOffered
  <1> QED
    BY <1>1, <1>2

\* Every step.
LEMMA RequestStepKeeps == RequestInv /\ [RequestNext]_requestVars => RequestInv'
  <1> SUFFICES ASSUME RequestInv, [RequestNext]_requestVars PROVE RequestInv'
    OBVIOUS
  <1>1. CASE UNCHANGED requestVars
    BY <1>1
    DEF requestVars, vars, request, stored, RequestInv, RequestTypes, CheckingOK, ExpandingOK,
        LimitOK, HeardNothing, MemosChecksDecide, OnlySupportedMemos, LimitIsTheFirstOffered
  <1>2. CASE Find \/ NotionFails \/ NotionEdits
    BY <1>2, FindingKeeps DEF Find, NotionFails, NotionEdits
  <1>3. CASE RefuseProfile
    BY <1>3, RefusedKeeps DEF RefuseProfile, RequestInv, RequestTypes, CheckingOK
  <1> QED
    BY <1>1, <1>2, <1>3, VersionKeeps, LimitKeeps, CreateJobKeeps, StartRunKeeps, SubmitKeeps
    DEF RequestNext, RequestStep

\* The invariant holds throughout.
LEMMA RequestAlways == RequestSpec => []RequestInv
  BY RequestInitially, RequestStepKeeps, PTL DEF RequestSpec

\* A request for a job or for another run of one passes the checks exactly if Memos is
\* of 0.29.1 or later and one of the three endpoints has a limit, whatever versions
\* and limits there are; the limit is the first that is offered
\* (client.go:85-134, instance_metadata.go:9-39).
THEOREM ChecksAlwaysDecide == RequestSpec => []MemosChecksDecide
  BY RequestAlways, PTL DEF RequestInv

\* A job that was stored with a limit is never run with another one, however often it
\* is run and whatever Memos's limit is by then (job_handler.go:73, 228-238).
THEOREM JobsAlwaysKeepTheirLimit == RequestSpec => []JobKeepsItsLimit
  <1>1. RequestInv => JobKeepsItsLimit
    BY DEF RequestInv, LimitOK, JobKeepsItsLimit
  <1> QED
    BY <1>1, RequestAlways, PTL

-----------------------------------------------------------------------------
(* A request finds pages, and stores them.                                 *)

\* What StoredOK speaks of is left as it is, or there is no job.
LEMMA StoredStays ==
  ASSUME StoredOK, job' = job,
         job # NoJob => UNCHANGED <<selected, expanded, phase>>
  PROVE  StoredOK'
  BY DEF StoredOK

\* Steps that find nothing.
LEMMA OthersKeepFound ==
  ASSUME DiscoveryInv, StoredOK, UNCHANGED <<vars, job>>
  PROVE  DiscoveryInv' /\ StoredOK'
  <1>1. UNCHANGED <<phase, source, cursor, limit, refs, hasNext, todo, pageIDs, expanded,
                    selected, job>>
    BY DEF vars, list, expansion
  <1>2. DiscoveryInv'
    BY <1>1
    DEF DiscoveryInv, DiscoveryTypeOK, ListingOK, ExpansionOK, LookedAt, IsIn, Touched,
        IsFoundBefore, Listed, GoneOK, Gone
  <1> QED
    BY <1>1, <1>2, StoredStays

\* Nothing is stored of a request that is refused.
LEMMA RefusedKeepsFound ==
  ASSUME DiscoveryInv, StoredOK, Refused
  PROVE  DiscoveryInv' /\ StoredOK'
  <1>1. job' = job
    BY DEF Refused, stored
  <1>2. CASE job = NoJob
    BY <1>1, <1>2, AbandonKeeps, StoredStays DEF Refused
  <1>3. CASE job # NoJob
    BY <1>1, <1>3, OthersKeepFound DEF Refused
  <1> QED
    BY <1>2, <1>3

\* The expansion is stored as it is.
LEMMA CreateJobKeepsFound ==
  ASSUME DiscoveryInv, StoredOK, CreateJob
  PROVE  DiscoveryInv' /\ StoredOK'
  <1>1. CASE expanded = << >>
    BY <1>1, RefusedKeepsFound DEF CreateJob
  <1>2. CASE expanded # << >>
    <2>1. /\ UNCHANGED vars /\ phase = "expanded"
          /\ job' = [items |-> uniqueExternalIDs(expanded), limit |-> options]
      BY <1>2 DEF CreateJob
    <2>2. UNCHANGED <<phase, source, cursor, limit, refs, hasNext, todo, pageIDs, expanded,
                      selected>>
      BY <2>1 DEF vars, list, expansion
    <2>3. DiscoveryInv'
      BY <2>2
      DEF DiscoveryInv, DiscoveryTypeOK, ListingOK, ExpansionOK, LookedAt, IsIn, Touched,
          IsFoundBefore, Listed, GoneOK, Gone
    <2>4. job'.items = addUnseen(<< >>, expanded)
      BY <2>1 DEF uniqueExternalIDs
    <2>5. << >> \in Seq(Ids) /\ IsInjective(<< >>) /\ ToSet(<< >>) = {} /\ expanded \in Seq(Ids)
      BY DiscoveryTypes DEF IsInjective, ToSet, DiscoveryInv
    <2>6. IsInjective(job'.items) /\ ToSet(job'.items) = ToSet(expanded)
      <3> DEFINE nothing == << >>
      <3>1. nothing \in Seq(Ids) /\ IsInjective(nothing) /\ ToSet(nothing) = {}
        BY <2>5
      <3>2. job'.items = addUnseen(nothing, expanded)
        BY <2>4
      <3> HIDE DEF nothing
      <3>3. /\ IsInjective(addUnseen(nothing, expanded))
            /\ ToSet(addUnseen(nothing, expanded)) = ToSet(nothing) \cup ToSet(expanded)
        <4>1. expanded \in Seq(Ids)
          BY <2>5
        <4>2. nothing \in Seq(Ids) /\ IsInjective(nothing)
          BY <3>1
        <4> QED
          BY <4>1, <4>2, AddUnseenResult
      <3> QED
        BY <3>1, <3>2, <3>3
    <2> QED
      BY <2>1, <2>2, <2>3, <2>6 DEF StoredOK
  <1> QED
    BY <1>1, <1>2

\* The adapter's steps, those of Notion's users and failures come before there is a job.
LEMMA FindingKeepsFound ==
  ASSUME RequestInv, DiscoveryInv, StoredOK, Find \/ NotionFails \/ NotionEdits
  PROVE  DiscoveryInv' /\ StoredOK'
  <1>1. job = NoJob /\ job' = job
    BY DEF RequestInv, ExpandingOK, Find, NotionFails, NotionEdits, Finding, stored
  <1>2. Fail => DiscoveryInv'
    BY AbandonKeeps DEF Fail
  <1>3. Search \/ RetrieveDatabase \/ QueryDatabase => DiscoveryInv'
    BY SearchKeeps, RetrieveKeeps, QueryKeeps
  <1>4. (\E i \in Ids : Edit(i)) => DiscoveryInv'
    BY EditKeeps
  <1>5. DiscoveryInv'
    BY <1>2, <1>3, <1>4 DEF Find, NotionFails, NotionEdits, AdapterStep, Refuse
  <1> QED
    BY <1>1, <1>5, StoredStays

\* Every step.
LEMMA FoundStepKeeps ==
  RequestInv /\ DiscoveryInv /\ StoredOK /\ [RequestNext]_requestVars => DiscoveryInv' /\ StoredOK'
  <1> SUFFICES ASSUME RequestInv, DiscoveryInv, StoredOK, [RequestNext]_requestVars
               PROVE  DiscoveryInv' /\ StoredOK'
    OBVIOUS
  <1>1. CASE UNCHANGED requestVars
    BY <1>1, OthersKeepFound DEF requestVars, stored
  <1>2. CASE VerifyMinVersion
    <2>1. Refused \/ UNCHANGED <<vars, stored>>
      BY <1>2 DEF VerifyMinVersion
    <2> QED
      BY <2>1, RefusedKeepsFound, OthersKeepFound DEF stored
  <1>3. CASE ContentLengthLimit
    <2>1. Refused \/ UNCHANGED <<vars, stored>>
      BY <1>3 DEF ContentLengthLimit
    <2> QED
      BY <2>1, RefusedKeepsFound, OthersKeepFound DEF stored
  <1>4. CASE StartRun \/ ResumeJob
    BY <1>4, OthersKeepFound DEF StartRun, ResumeJob
  <1>5. CASE RefuseProfile
    BY <1>5, RefusedKeepsFound DEF RefuseProfile
  <1>6. CASE SubmitJob
    <2>1. job = NoJob /\ job' = job /\ Select
      BY <1>6 DEF SubmitJob, stored, RequestInv, ExpandingOK
    <2> QED
      BY <2>1, SelectKeeps, StoredStays
  <1> QED
    BY <1>1, <1>2, <1>3, <1>4, <1>5, <1>6, CreateJobKeepsFound, FindingKeepsFound
    DEF RequestNext, RequestStep

\* The invariants hold throughout.
LEMMA FoundAlways == RequestSpec => [](RequestInv /\ DiscoveryInv /\ StoredOK)
  <1>1. RequestInit \/ StoredInit => StoredOK
    BY DEF RequestInit, StoredInit, StoredOK
  <1> QED
    BY <1>1, RequestInitially, RequestStepKeeps, DiscoveryInitially, FoundStepKeeps, PTL
    DEF RequestSpec

\* However the order of Notion's search changes between two pages of results, and
\* however the answers are cut, a listing that says there is no more has everything
\* that nobody edited or took away meanwhile, and never anything twice
\* (adapter.go:84-138).
THEOREM ListingsAreAlwaysComplete == RequestSpec => []ListingIsComplete
  <1>1. DiscoveryInv => ListingIsComplete
    BY DEF DiscoveryInv, ListingOK, ListingIsComplete
  <1> QED
    BY <1>1, FoundAlways, PTL

\* The ids found are what was looked at, at the end.
LEMMA AllIsExact ==
  ASSUME DiscoveryInv, phase = "expanded"
  PROVE  /\ \A i \in ToSet(expanded) : source[i].kind = "database" => i \in selected /\ Gone(i)
         /\ \A i \in Ids :
              Touched(i) \/ (i \in ToSet(expanded) <=> IsWanted(i, ToSet(expanded)))
  <1>1. todo = << >> /\ ToSet(todo) = {}
    BY DEF DiscoveryInv, ExpansionOK, ToSet
  <1>2. LookedAt = selected
    BY <1>1 DEF LookedAt
  <1>3. \A i \in ToSet(expanded) : source[i].kind = "database" => i \in selected /\ Gone(i)
    BY <1>2 DEF DiscoveryInv, ExpansionOK
  <1>4. ASSUME NEW i \in Ids, ~Touched(i)
        PROVE  i \in ToSet(expanded) <=> IsWanted(i, ToSet(expanded))
    <2>1. source[i].kind \in {"page", "database"}
      BY DiscoveryTypes DEF DiscoveryInv, Kinds
    <2>2. CASE source[i].kind = "page"
      BY <1>2, <1>4, <2>2 DEF DiscoveryInv, ExpansionOK, IsIn, IsWanted
    <2>3. CASE source[i].kind = "database"
      BY <1>3, <1>4, <2>3 DEF DiscoveryInv, GoneOK, IsWanted
    <2> QED
      BY <2>1, <2>2, <2>3
  <1> QED
    BY <1>3, <1>4

\* What is expanded is what was selected and what those of the selected databases have
\* that could be looked up, each once, whatever their number and however they are
\* nested, but for what was edited, moved or taken away meanwhile; a selected database
\* is expanded to itself only if it is gone (adapter.go:254-323).
THEOREM ExpansionsAreAlwaysExact == RequestSpec => []ExpandedExactly
  <1>1. DiscoveryInv => ExpandedExactly
    BY AllIsExact DEF DiscoveryInv, ExpansionOK, ExpandedExactly
  <1> QED
    BY <1>1, FoundAlways, PTL

\* A job that is stored, and what each of its runs imports, is what was selected and
\* what those of the selected databases have that could be looked up, each once, but for
\* what was edited, moved or taken away meanwhile; it has a database as an item only if
\* that was selected and is gone (job_handler.go:82-95, importer.go:47-93).
THEOREM JobsAreAlwaysWhatWasSelected == RequestSpec => []JobIsWhatWasSelected
  <1>1. ASSUME RequestInv, DiscoveryInv, StoredOK PROVE JobIsWhatWasSelected
    <2> SUFFICES ASSUME stage \in {"run", "stored"}, selected # {} PROVE JobIsWhatWasSelected
      BY DEF JobIsWhatWasSelected
    <2>1. /\ phase = "expanded" /\ ToSet(job.items) = ToSet(expanded) /\ IsInjective(job.items)
      BY <1>1 DEF RequestInv, ExpandingOK, StoredOK
    <2> QED
      BY <1>1, <2>1, AllIsExact DEF JobIsWhatWasSelected
  <1> QED
    BY <1>1, FoundAlways, PTL

-----------------------------------------------------------------------------
(* The types.                                                              *)

\* A job has items wherever its requests are.
ItemsOK == RequestTypeOK /\ (job # NoJob => job.items # << >>)

\* What is refused leaves the rest.
LEMMA RefusedKeepsItems ==
  ASSUME RequestInv, ItemsOK, Refused, stage # "console", options' = options,
         version' \in Versions \cup {None},
         heard' \in Seq(MemosLimits \cup {None}), Len(heard') <= Endpoints
  PROVE  ItemsOK'
  <1>1. /\ UNCHANGED <<job, left, used>>
        /\ stage' \in {"refused", "stored"} /\ (stage' = "stored" => job # NoJob)
    BY DEF Refused, stored
  <1> QED
    BY <1>1 DEF ItemsOK, RequestTypeOK

\* What is stored has items.
LEMMA CreateJobKeepsItems ==
  ASSUME RequestInv, DiscoveryInv, ItemsOK, CreateJob
  PROVE  ItemsOK'
  <1>1. stage = "expand" /\ UNCHANGED <<version, heard, options>>
    BY DEF CreateJob
  <1>2. CASE expanded = << >>
    BY <1>1, <1>2, RefusedKeepsItems DEF CreateJob, ItemsOK, RequestTypeOK
  <1>3. CASE expanded # << >>
    <2> DEFINE items == uniqueExternalIDs(expanded)
               nothing == << >>
    <2>1. job' = [items |-> items, limit |-> options] /\ stage' = "run" /\ UNCHANGED <<left, used>>
      BY <1>3 DEF CreateJob
    <2>2. /\ expanded \in Seq(Ids) /\ DOMAIN expanded = 1..Len(expanded) /\ Len(expanded) \in Nat
          /\ Len(expanded) # 0
      BY <1>3, DiscoveryTypes, LenProperties, EmptySeq DEF DiscoveryInv
    <2>3. ToSet(expanded) # {}
      <3>1. 1 \in DOMAIN expanded
        BY <2>2
      <3> QED
        BY <3>1 DEF ToSet
    <2>4. nothing \in Seq(Ids) /\ IsInjective(nothing) /\ ToSet(nothing) = {}
      BY DEF IsInjective, ToSet
    <2>5. items = addUnseen(nothing, expanded)
      BY DEF uniqueExternalIDs
    <2> HIDE DEF items, nothing
    <2>6. items \in Seq(Ids) /\ ToSet(items) = ToSet(nothing) \cup ToSet(expanded)
      <3>1. nothing \in Seq(Ids) /\ IsInjective(nothing)
        BY <2>4
      <3>2. expanded \in Seq(Ids)
        BY <2>2
      <3>3. /\ addUnseen(nothing, expanded) \in Seq(Ids)
            /\ ToSet(addUnseen(nothing, expanded)) = ToSet(nothing) \cup ToSet(expanded)
        BY <3>1, <3>2, AddUnseenResult
      <3> QED
        BY <2>5, <3>3
    <2>7. items # << >>
      BY <2>3, <2>6 DEF ToSet
    <2> QED
      BY <1>1, <2>1, <2>6, <2>7 DEF ItemsOK, RequestTypeOK
  <1> QED
    BY <1>2, <1>3

\* Every step.
LEMMA ItemsStepKeeps ==
  RequestInv /\ DiscoveryInv /\ ItemsOK /\ [RequestNext]_requestVars => ItemsOK'
  <1> SUFFICES ASSUME RequestInv, DiscoveryInv, ItemsOK, [RequestNext]_requestVars PROVE ItemsOK'
    OBVIOUS
  <1> DEFINE Answered == MemosLimits \cup {None}
  <1>0. << >> \in Seq(Answered) /\ Len(<< >>) = 0 /\ 0 <= Endpoints
    BY EmptySeq DEF Endpoints
  <1>1. CASE UNCHANGED requestVars
    BY <1>1 DEF requestVars, request, stored, ItemsOK, RequestTypeOK
  <1>2. CASE VerifyMinVersion
    <2>1. /\ stage = "version" /\ version' \in Versions /\ UNCHANGED <<heard, options>>
          /\ \/ Refused
             \/ stage' = ensureContentLengthLimit /\ UNCHANGED stored
      BY <1>2 DEF VerifyMinVersion
    <2>2. CASE Refused
      BY <2>1, <2>2, RefusedKeepsItems DEF ItemsOK, RequestTypeOK
    <2>3. CASE stage' = ensureContentLengthLimit /\ UNCHANGED stored
      <3>1. stage' \in {"limit", "expand", "run"} /\ (stage' = "run" => job # NoJob)
        BY <2>3 DEF ensureContentLengthLimit
      <3> QED
        BY <2>1, <2>3, <3>1 DEF ItemsOK, RequestTypeOK, stored
    <2> QED
      BY <2>1, <2>2, <2>3
  <1>3. CASE ContentLengthLimit
    <2>1. PICK answer \in Answered :
            /\ heard' = Append(heard, answer)
            /\ version' = None
            /\ IF answer # None
               THEN /\ options' = answer
                    /\ stage' = IF job = NoJob THEN "expand" ELSE "run"
                    /\ UNCHANGED <<vars, stored>>
               ELSE IF Len(heard') = Endpoints THEN Refused /\ UNCHANGED options
               ELSE UNCHANGED <<vars, stored, options, stage>>
      BY <1>3 DEF ContentLengthLimit
    <2>2. stage = "limit" /\ Len(heard) < Endpoints /\ heard \in Seq(Answered)
      BY <1>3 DEF ContentLengthLimit, RequestInv, CheckingOK, ItemsOK, RequestTypeOK
    <2>3. heard' \in Seq(Answered) /\ Len(heard') = Len(heard) + 1 /\ Len(heard) \in Nat
      BY <2>1, <2>2, AppendProperties, LenProperties
    <2>4. Len(heard') <= Endpoints
      BY <2>2, <2>3 DEF Endpoints
    <2>5. CASE answer # None
      <3>1. /\ options' \in MemosLimits /\ UNCHANGED <<job, left, used>>
            /\ stage' \in {"expand", "run"} /\ (stage' = "run" => job # NoJob)
        BY <2>1, <2>5 DEF stored
      <3> QED
        BY <2>1, <2>3, <2>4, <3>1 DEF ItemsOK, RequestTypeOK
    <2>6. CASE answer = None /\ Len(heard') = Endpoints
      BY <2>1, <2>2, <2>3, <2>4, <2>6, RefusedKeepsItems
    <2>7. CASE answer = None /\ Len(heard') # Endpoints
      BY <2>1, <2>2, <2>3, <2>4, <2>7 DEF ItemsOK, RequestTypeOK, stored
    <2> QED
      BY <2>5, <2>6, <2>7
  <1>4. CASE StartRun
    <2>1. /\ stage = "run" /\ stage' = "stored" /\ version' = None
          /\ UNCHANGED <<heard, options, job, left>> /\ used' \subseteq used \cup {options}
      BY <1>4 DEF StartRun
    <2> QED
      BY <2>1 DEF ItemsOK, RequestTypeOK
  <1>5. CASE RefuseProfile
    BY <1>5, RefusedKeepsItems DEF RefuseProfile, ItemsOK, RequestTypeOK
  <1>6. CASE SubmitJob
    <2>1. /\ stage' = "version" /\ options' \in AskedLimits
          /\ UNCHANGED <<version, heard, job, left, used>>
      BY <1>6 DEF SubmitJob, stored
    <2> QED
      BY <2>1 DEF ItemsOK, RequestTypeOK
  <1>7. CASE ResumeJob
    <2>1. /\ stage = "stored" /\ left > 0 /\ left' = left - 1 /\ stage' = "version"
          /\ options' = job.limit /\ version' = None /\ heard' = << >> /\ UNCHANGED <<job, used>>
      BY <1>7 DEF ResumeJob
    <2>2. left' \in 0..MaxResumes
      BY <2>1, RequestAssumption DEF ItemsOK, RequestTypeOK
    <2>3. options' \in {0} \cup AskedLimits \cup MemosLimits
      <3>1. job # NoJob
        BY <2>1 DEF RequestInv, ExpandingOK
      <3>2. job \in [items : Seq(Ids), limit : {0} \cup AskedLimits \cup MemosLimits]
        BY <3>1 DEF ItemsOK, RequestTypeOK
      <3> QED
        BY <2>1, <3>2
    <2> QED
      BY <1>0, <2>1, <2>2, <2>3 DEF ItemsOK, RequestTypeOK
  <1>8. CASE Find \/ NotionFails \/ NotionEdits
    <2>1. /\ stage \in {"console", "expand"} /\ stage' \in {stage, "refused"} /\ version' = None
          /\ heard' = << >> /\ UNCHANGED <<options, job, left, used>>
      BY <1>8 DEF Find, NotionFails, NotionEdits, Finding, stored
    <2> QED
      BY <1>0, <2>1 DEF ItemsOK, RequestTypeOK
  <1> QED
    BY <1>1, <1>2, <1>3, <1>4, <1>5, <1>6, <1>7, <1>8, CreateJobKeepsItems
    DEF RequestNext, RequestStep

\* At first there is no job, or one with an item.
LEMMA ItemsInitially == RequestInit \/ StoredInit => ItemsOK
  <1> SUFFICES ASSUME RequestInit \/ StoredInit PROVE ItemsOK
    OBVIOUS
  <1>1. /\ version = None /\ heard = << >> /\ options = 0 /\ used = {}
        /\ \/ stage = "console" /\ job = NoJob /\ left = 0
           \/ /\ stage = "stored" /\ job \in [items : {<<1>>}, limit : AskedLimits \cup MemosLimits]
              /\ left = MaxResumes
    BY DEF RequestInit, StoredInit
  <1>2. heard \in Seq(MemosLimits \cup {None}) /\ Len(heard) <= Endpoints
    BY <1>1, EmptySeq DEF Endpoints
  <1>3. left \in 0..MaxResumes
    BY <1>1, RequestAssumption
  <1>4. 1 \in Ids
    BY DiscoveryAssumption DEF Ids
  <1>5. <<1>> \in Seq(Ids) /\ <<1>> # << >>
    BY <1>4
  <1>6. NoJob.items = << >>
    BY DEF NoJob
  <1>7. CASE stage = "console" /\ job = NoJob
    BY <1>1, <1>2, <1>3, <1>7 DEF ItemsOK, RequestTypeOK
  <1>8. CASE stage = "stored" /\ job \in [items : {<<1>>}, limit : AskedLimits \cup MemosLimits]
    <2>1. /\ job \in [items : Seq(Ids), limit : {0} \cup AskedLimits \cup MemosLimits]
          /\ job.items # << >>
      BY <1>5, <1>8
    <2> QED
      BY <1>1, <1>2, <1>3, <1>8, <2>1 DEF ItemsOK, RequestTypeOK
  <1> QED
    BY <1>1, <1>7, <1>8

\* The types of the listing, the expansion and the request; a job that is stored has
\* items, whatever was selected: an empty expansion is refused
\* (job_handler.go:82-95).
THEOREM RequestTypesAlwaysHold == RequestSpec => [](DiscoveryTypeOK /\ RequestTypeOK)
  <1>1. DiscoveryInv /\ ItemsOK => DiscoveryTypeOK /\ RequestTypeOK
    BY DEF DiscoveryInv, ItemsOK
  <1> QED
    BY <1>1, FoundAlways, ItemsInitially, ItemsStepKeeps, PTL DEF RequestSpec

-----------------------------------------------------------------------------
(* The order in which the documents are shown.                             *)

\* What was listed: no id twice.
IsListing(rs) == rs \in Seq(Refs) /\ IsInjective(IDs(rs))

\* What is listed is finite, and its ids tell it apart.
LEMMA ListingTypes ==
  ASSUME NEW rs, IsListing(rs)
  PROVE  /\ Len(rs) \in Nat /\ DOMAIN rs = 1..Len(rs)
         /\ ToSet(rs) \subseteq Refs /\ IsFiniteSet(ToSet(rs)) /\ Cardinality(ToSet(rs)) = Len(rs)
         /\ \A r, s \in ToSet(rs) : r.id = s.id => r = s
         /\ Listed(rs) = {r.id : r \in ToSet(rs)}
  <1>1. Len(rs) \in Nat /\ DOMAIN rs = 1..Len(rs) /\ \A k \in 1..Len(rs) : rs[k] \in Refs
    BY LenProperties, ElementOfSeq DEF IsListing
  <1>2. ToSet(rs) = {rs[k] : k \in 1..Len(rs)}
    BY <1>1 DEF ToSet
  <1>3. \A k, m \in 1..Len(rs) : rs[k].id = rs[m].id => k = m
    <2>1. \A k \in 1..Len(rs) : IDs(rs)[k] = rs[k].id /\ k \in DOMAIN IDs(rs)
      BY <1>1 DEF IDs
    <2>2. \A k, m \in DOMAIN IDs(rs) : IDs(rs)[k] = IDs(rs)[m] => k = m
      BY DEF IsListing, IsInjective
    <2> QED
      BY <2>1, <2>2
  <1>4. \A r, s \in ToSet(rs) : r.id = s.id => r = s
    BY <1>2, <1>3
  <1>5. Listed(rs) = {r.id : r \in ToSet(rs)}
    BY <1>1, <1>2 DEF Listed
  <1>6. IsFiniteSet(ToSet(rs)) /\ Cardinality(ToSet(rs)) = Len(rs)
    <2> DEFINE n == Len(rs)
    <2>1. rs \in [1..n -> ToSet(rs)] /\ n \in Nat
      BY <1>1, <1>2, SeqDef DEF IsListing
    <2>2. IsInjective(rs)
      BY <1>1, <1>3 DEF IsInjective
    <2>3. \A r \in ToSet(rs) : \E k \in 1..n : rs[k] = r
      BY <1>2
    <2> HIDE DEF n
    <2>4. rs \in Bijection(1..n, ToSet(rs))
      BY <2>1, <2>2, <2>3 DEF Bijection, Injection, Surjection
    <2>5. IsFiniteSet(1..n) /\ Cardinality(1..n) = n
      BY <2>1, FS_Interval
    <2>6. IsFiniteSet(ToSet(rs)) /\ Cardinality(ToSet(rs)) = n
      BY <2>4, <2>5, FS_Bijection DEF ExistsBijection
    <2> QED
      BY <2>6 DEF n
  <1> QED
    BY <1>1, <1>2, <1>4, <1>5, <1>6

\* Each ref that is no root is the child of one other; roots are nobody's.
LEMMA Families ==
  ASSUME NEW rs, IsListing(rs)
  PROVE  /\ \A r \in ToSet(rs) : r \in Roots(rs) \/ \E p \in ToSet(rs) : r \in Children(rs, p.id)
         /\ \A i : Children(rs, i) \subseteq ToSet(rs) /\ Children(rs, i) \cap Roots(rs) = {}
         /\ \A i, j : Children(rs, i) \cap Children(rs, j) # {} => i = j
         /\ \A p \in ToSet(rs) : p \notin Children(rs, p.id)
         /\ Roots(rs) \subseteq ToSet(rs)
         /\ \A r, p \in ToSet(rs) : r \in Children(rs, p.id) <=> HasListedParent(rs, r) /\ r.parent = p.id
  <1>1. ASSUME NEW r \in ToSet(rs), r \notin Roots(rs)
        PROVE  \E p \in ToSet(rs) : r \in Children(rs, p.id)
    <2>1. HasListedParent(rs, r)
      BY <1>1 DEF Roots
    <2>2. PICK p \in ToSet(rs) : p.id = r.parent
      BY <2>1, ListingTypes DEF HasListedParent
    <2> QED
      BY <2>1, <2>2 DEF Children
  <1>2. \A i : Children(rs, i) \subseteq ToSet(rs) /\ Children(rs, i) \cap Roots(rs) = {}
    BY DEF Children, Roots
  <1>3. \A i, j : Children(rs, i) \cap Children(rs, j) # {} => i = j
    BY DEF Children
  <1>4. \A p \in ToSet(rs) : p \notin Children(rs, p.id)
    BY DEF Children, HasListedParent
  <1>5. Roots(rs) \subseteq ToSet(rs)
    BY DEF Roots
  <1>6. \A r, p \in ToSet(rs) :
           r \in Children(rs, p.id) <=> HasListedParent(rs, r) /\ r.parent = p.id
    BY DEF Children
  <1> QED
    BY <1>1, <1>2, <1>3, <1>4, <1>5, <1>6

\* Before is an order, and a total one.
LEMMA BeforeIsAnOrder ==
  ASSUME NEW rs, IsListing(rs)
  PROVE  /\ \A r \in ToSet(rs) : ~Before(rs, r, r)
         /\ \A r, s \in ToSet(rs) : r = s \/ Before(rs, r, s) \/ Before(rs, s, r)
         /\ \A r, s, t \in ToSet(rs) : Before(rs, r, s) /\ Before(rs, s, t) => Before(rs, r, t)
  <1>1. \A r \in ToSet(rs) : r.id \in Nat /\ r.at \in Nat /\ isContainer(rs, r) \in BOOLEAN
    BY ListingTypes, DiscoveryAssumption DEF Refs, Ids, isContainer
  <1>2. \A r, s \in ToSet(rs) : r.id = s.id => r = s
    BY ListingTypes
  <1>3. \A r \in ToSet(rs) : ~Before(rs, r, r)
    BY <1>1 DEF Before
  <1>4. \A r, s \in ToSet(rs) : r = s \/ Before(rs, r, s) \/ Before(rs, s, r)
    BY <1>1, <1>2 DEF Before
  <1>5. \A r, s, t \in ToSet(rs) : Before(rs, r, s) /\ Before(rs, s, t) => Before(rs, r, t)
    BY <1>1 DEF Before
  <1> QED
    BY <1>3, <1>4, <1>5

\* A group can be sorted: each of it takes the place after as many as come before it.
LEMMA GroupsAreSorted ==
  ASSUME NEW rs, IsListing(rs), NEW group \in SUBSET ToSet(rs)
  PROVE  LET s == sortGroup(rs, group)
         IN  /\ s \in Seq(group) /\ DOMAIN s = 1..Len(s) /\ Len(s) \in 0..Len(rs)
             /\ \A r : r \in group <=> \E k \in 1..Len(s) : s[k] = r
             /\ \A k, m \in 1..Len(s) : s[k] = s[m] => k = m
             /\ \A k, m \in 1..Len(s) : k < m => Before(rs, s[k], s[m])
  <1> DEFINE n == Cardinality(group)
             first(r) == {x \in group : Before(rs, x, r)}
             rank == [r \in group |-> Cardinality(first(r)) + 1]
  <1>1. IsFiniteSet(group) /\ n \in Nat /\ n <= Len(rs)
    BY ListingTypes, FS_Subset, FS_CardinalityType
  <1>2. ASSUME NEW r \in group
        PROVE  Cardinality(first(r)) \in Nat /\ Cardinality(first(r)) < n
    <2>1. first(r) \in SUBSET group /\ r \notin first(r)
      BY BeforeIsAnOrder
    <2> HIDE DEF first
    <2> QED
      BY <1>1, <2>1, FS_Subset, FS_CardinalityType
  <1>3. ASSUME NEW r \in group, NEW x \in group, Before(rs, x, r)
        PROVE  rank[x] < rank[r]
    <2>1. first(x) \in SUBSET first(r)
      BY <1>3, BeforeIsAnOrder
    <2>2. x \in first(r) /\ x \notin first(x)
      BY <1>3, BeforeIsAnOrder
    <2>3. IsFiniteSet(first(r))
      BY <1>1, FS_Subset
    <2>4. rank[x] = Cardinality(first(x)) + 1 /\ rank[r] = Cardinality(first(r)) + 1
      OBVIOUS
    <2>5. Cardinality(first(x)) \in Nat /\ Cardinality(first(r)) \in Nat
      BY <1>2
    <2> HIDE DEF first, rank
    <2> QED
      BY <2>1, <2>2, <2>3, <2>4, <2>5, FS_Subset
  <1>4. rank \in [group -> 1..n]
    BY <1>1, <1>2
  <1> HIDE DEF rank
  <1>5. \A r, x \in group : rank[r] \in Nat /\ (r # x => rank[r] # rank[x])
    BY <1>1, <1>3, <1>4, BeforeIsAnOrder
  <1>6. rank \in Surjection(group, 1..n)
    <2>1. rank \in Injection(group, 1..n)
      <3>1. IsInjective(rank)
        BY <1>4, <1>5 DEF IsInjective
      <3> QED
        BY <1>4, <3>1 DEF Injection
    <2>2. IsFiniteSet(1..n) /\ Cardinality(1..n) = n
      BY <1>1, FS_Interval
    <2> QED
      BY <2>1, <2>2, FS_Injection
  <1> DEFINE s == [k \in 1..n |-> CHOOSE r \in group : rank[r] = k]
  <1>7. \A k \in 1..n : s[k] \in group /\ rank[s[k]] = k
    BY <1>6 DEF Surjection
  <1>8. s \in [1..n -> group]
    BY <1>7
  <1>9. DOMAIN s = 1..n
    OBVIOUS
  <1> HIDE DEF s
  <1>10. s \in SetToSeqs(group)
    BY <1>7, <1>8 DEF SetToSeqs
  <1>11. ASSUME NEW k \in 1..n, NEW m \in 1..n, k < m PROVE Before(rs, s[k], s[m])
    <2>1. s[k] \in group /\ s[m] \in group /\ rank[s[k]] = k /\ rank[s[m]] = m
      BY <1>7
    <2>2. s[k] # s[m] /\ ~(rank[s[m]] < rank[s[k]])
      BY <1>11, <2>1
    <2> QED
      BY <1>3, <2>1, <2>2, BeforeIsAnOrder
  <1> DEFINE IsSortedGroup(t) == \A k, m \in DOMAIN t : k < m => Before(rs, t[k], t[m])
             sorted == sortGroup(rs, group)
  <1>12. sorted \in SetToSeqs(group) /\ IsSortedGroup(sorted)
    <2>1. IsSortedGroup(s)
      BY <1>9, <1>11
    <2>2. sorted = CHOOSE t \in SetToSeqs(group) : IsSortedGroup(t)
      BY DEF sortGroup
    <2> HIDE DEF IsSortedGroup, sorted
    <2> QED
      BY <1>10, <2>1, <2>2
  <1> HIDE DEF sorted
  <1>13. /\ sorted \in Seq(group) /\ DOMAIN sorted = 1..Len(sorted) /\ Len(sorted) \in Nat
         /\ IsInjective(sorted) /\ ToSet(sorted) = group
    BY <1>1, <1>12, HasThemAll
  <1>14. Len(sorted) = n
    <2>1. sorted \in [1..n -> group]
      BY <1>12 DEF SetToSeqs
    <2> QED
      BY <1>1, <1>13, <2>1
  <1>15. \A r : r \in group <=> \E k \in 1..Len(sorted) : sorted[k] = r
    BY <1>13 DEF ToSet
  <1>16. \A k, m \in 1..Len(sorted) : sorted[k] = sorted[m] => k = m
    BY <1>13 DEF IsInjective
  <1>17. \A k, m \in 1..Len(sorted) : k < m => Before(rs, sorted[k], sorted[m])
    BY <1>12, <1>13
  <1> HIDE DEF n
  <1> QED
    BY <1>1, <1>13, <1>14, <1>15, <1>16, <1>17 DEF sorted

\* A sorted group has its members and is not longer than the listing.
LEMMA GroupsAreWhole ==
  ASSUME NEW rs, IsListing(rs), NEW group \in SUBSET ToSet(rs)
  PROVE  LET s == sortGroup(rs, group)
         IN  DOMAIN s = 1..Len(s) /\ Len(s) \in 0..Len(rs) /\ group \subseteq ToSet(s)
  <1> DEFINE s == sortGroup(rs, group)
  <1>1. /\ s \in Seq(group) /\ DOMAIN s = 1..Len(s) /\ Len(s) \in 0..Len(rs)
        /\ \A r : r \in group <=> \E k \in 1..Len(s) : s[k] = r
    BY GroupsAreSorted
  <1> HIDE DEF s
  <1>2. group \subseteq ToSet(s)
    BY <1>1 DEF ToSet
  <1> QED
    BY <1>1, <1>2 DEF s

-----------------------------------------------------------------------------
(* The trees of the roots.                                                 *)

\* What is beneath a group: the group, and the children of what is.
LEMMA BeneathIsClosed ==
  ASSUME NEW rs, NEW group \in SUBSET ToSet(rs)
  PROVE  /\ group \subseteq Beneath(rs, group) /\ Beneath(rs, group) \subseteq ToSet(rs)
         /\ \A r \in Beneath(rs, group) : Children(rs, r.id) \subseteq Beneath(rs, group)
         /\ \A T \in SUBSET ToSet(rs) :
              group \subseteq T /\ IsClosed(rs, T) => Beneath(rs, group) \subseteq T
  <1>1. \A i : Children(rs, i) \subseteq ToSet(rs)
    BY DEF Children
  <1> QED
    BY <1>1 DEF Beneath, IsClosed

\* Side by side.
Siblings(rs, r, s) ==
  \/ {r, s} \subseteq Roots(rs)
  \/ \E p \in ToSet(rs) : {r, s} \subseteq Children(rs, p.id)

\* A line of refs of which the first a are shown and the others are to come: all of it
\* once, the roots and the children of what is shown; nothing comes between what is
\* shown and its children but what is beneath it; siblings are sorted.
TreesOK(rs, u, n, a) ==
  /\ \A k \in 1..n : u[k] \in Beneath(rs, Roots(rs))
  /\ \A k, m \in 1..n : u[k] = u[m] => k = m
  /\ \A r \in Roots(rs) : \E k \in 1..n : u[k] = r
  /\ \A p \in 1..a : \A r \in Children(rs, u[p].id) : \E k \in 1..n : u[k] = r
  /\ \A k \in 1..n :
       \/ u[k] \in Roots(rs)
       \/ \E p \in 1..a : /\ p < k /\ u[k] \in Children(rs, u[p].id)
                          /\ \A m \in (p + 1)..k : u[m] \in Beneath(rs, {u[p]})
  /\ \A k, m \in 1..n : k < m /\ Siblings(rs, u[k], u[m]) => Before(rs, u[k], u[m])

\* At first, the roots.
LEMMA RootsAreTrees ==
  ASSUME NEW rs, IsListing(rs)
  PROVE  LET s == sortGroup(rs, Roots(rs)) IN TreesOK(rs, s, Len(s), 0)
  <1> DEFINE s == sortGroup(rs, Roots(rs))
             n == Len(s)
  <1>1. Roots(rs) \in SUBSET ToSet(rs) /\ Roots(rs) \subseteq Beneath(rs, Roots(rs))
    BY Families, BeneathIsClosed
  <1>2. /\ n \in Nat
        /\ \A r : r \in Roots(rs) <=> \E k \in 1..n : s[k] = r
        /\ \A k, m \in 1..n : s[k] = s[m] => k = m
        /\ \A k, m \in 1..n : k < m => Before(rs, s[k], s[m])
    BY <1>1, GroupsAreSorted
  <1> HIDE DEF s, n
  <1>3. TreesOK(rs, s, n, 0)
    BY <1>1, <1>2 DEF TreesOK
  <1> QED
    BY <1>3 DEF s, n

\* v is u, n long, with the sorted group c, l long, after the place a.
HasBetween(rs, v, u, n, a, group, c, l) ==
  /\ \A r : r \in group <=> \E k \in 1..l : c[k] = r
  /\ \A k, m \in 1..l : c[k] = c[m] => k = m
  /\ \A k, m \in 1..l : k < m => Before(rs, c[k], c[m])
  /\ \A k \in 1..a : v[k] = u[k]
  /\ \A k \in 1..l : v[a + k] = c[k]
  /\ \A k \in (a + 1)..n : v[k + l] = u[k]

\* The next one is shown: its children come between it and the others.
LEMMA TreesGrow ==
  ASSUME NEW rs, IsListing(rs), NEW u, NEW n \in Nat, NEW a \in 0..(n - 1),
         TreesOK(rs, u, n, a), NEW c, NEW l \in Nat,
         NEW v, HasBetween(rs, v, u, n, a + 1, Children(rs, u[a + 1].id), c, l)
  PROVE  TreesOK(rs, v, n + l, a + 1)
  <1>a. /\ \A r : r \in Children(rs, u[a + 1].id) <=> \E k \in 1..l : c[k] = r
        /\ \A k, m \in 1..l : c[k] = c[m] => k = m
        /\ \A k, m \in 1..l : k < m => Before(rs, c[k], c[m])
    BY DEF HasBetween
  <1>b. /\ \A k \in 1..(a + 1) : v[k] = u[k]
        /\ \A k \in 1..l : v[a + 1 + k] = c[k]
        /\ \A k \in (a + 2)..n : v[k + l] = u[k]
    <2>1. (a + 1) + 1 = a + 2
      OBVIOUS
    <2> QED
      BY <2>1 DEF HasBetween
  <1> DEFINE r == u[a + 1]
             pos(k) == IF k <= a + 1 THEN k ELSE k + l
  <1>0. /\ a + 1 \in 1..n /\ a \in Nat /\ a + 1 \in 1..(n + l)
        /\ 1..(a + 1) \subseteq 1..n /\ 1..a \subseteq 1..n
    OBVIOUS
  <1>1. \A k \in 1..n : pos(k) \in 1..(n + l) /\ v[pos(k)] = u[k]
    <2>1. ASSUME NEW k \in 1..n PROVE pos(k) \in 1..(n + l) /\ v[pos(k)] = u[k]
      <3>1. CASE k <= a + 1
        BY <1>b, <3>1
      <3>2. CASE ~(k <= a + 1)
        <4>1. k \in (a + 2)..n
          BY <3>2
        <4> QED
          BY <1>b, <3>2, <4>1
      <3> QED
        BY <3>1, <3>2
    <2> QED
      BY <2>1
  <1>2. \A k \in 1..l : a + 1 + k \in 1..(n + l) /\ v[a + 1 + k] = c[k]
    BY <1>b
  <1>3. ASSUME NEW m \in 1..(n + l)
        PROVE  \/ \E k \in 1..n : m = pos(k)
               \/ \E k \in 1..l : m = a + 1 + k
    <2>1. CASE m <= a + 1
      BY <1>0, <2>1
    <2>2. CASE m > a + 1 /\ m <= a + 1 + l
      <3>1. m - (a + 1) \in 1..l /\ m = a + 1 + (m - (a + 1))
        BY <2>2
      <3> QED
        BY <3>1
    <2>3. CASE m > a + 1 + l
      <3>1. m - l \in 1..n /\ ~(m - l <= a + 1) /\ m = m - l + l
        BY <2>3
      <3> QED
        BY <3>1
    <2> QED
      BY <2>1, <2>2, <2>3
  <1>4. /\ \A k, m \in 1..n : pos(k) < pos(m) <=> k < m
        /\ \A k \in 1..(a + 1) : pos(k) = k
        /\ \A k \in 1..n : \A j \in 1..l : pos(k) # a + 1 + j /\ (a + 1 + j < pos(k) <=> a + 1 < k)
        /\ \A k \in 1..n : pos(k) \in Nat
    OBVIOUS
  <1> HIDE DEF pos
  \* Its children were not there.
  <1>5. ASSUME NEW k \in 1..n PROVE u[k] \notin Children(rs, r.id)
    <2> SUFFICES ASSUME u[k] \in Children(rs, r.id) PROVE FALSE
      OBVIOUS
    <2>1. u[k] \notin Roots(rs)
      BY Families
    <2>2. PICK p \in 1..a : u[k] \in Children(rs, u[p].id)
      BY <2>1 DEF TreesOK
    <2>3. u[p].id = r.id
      BY <2>2, Families
    <2>4. u[p] \in ToSet(rs) /\ r \in ToSet(rs)
      <3>1. u[p] \in Beneath(rs, Roots(rs)) /\ r \in Beneath(rs, Roots(rs))
        BY <1>0 DEF TreesOK
      <3> QED
        BY <3>1 DEF Beneath
    <2>5. u[p] = u[a + 1]
      BY <2>3, <2>4, ListingTypes
    <2>6. p = a + 1
      BY <1>0, <2>5 DEF TreesOK
    <2> QED
      BY <2>6
  <1>6. /\ \A k \in 1..n : u[k] \in Beneath(rs, Roots(rs)) /\ u[k] \in ToSet(rs)
        /\ Roots(rs) \in SUBSET ToSet(rs) /\ r \in ToSet(rs) /\ {r} \in SUBSET ToSet(rs)
    BY <1>0, Families DEF TreesOK, Beneath
  <1>7. \A k \in 1..l : c[k] \in Children(rs, r.id)
    BY <1>a
  <1> HIDE DEF r
  <1>8. \A m \in 1..(n + l) : v[m] \in Beneath(rs, Roots(rs))
    <2>1. \A k \in 1..l : c[k] \in Beneath(rs, Roots(rs))
      BY <1>0, <1>6, <1>7, BeneathIsClosed DEF r
    <2>2. ASSUME NEW m \in 1..(n + l) PROVE v[m] \in Beneath(rs, Roots(rs))
      <3>1. ASSUME NEW k \in 1..n, m = pos(k) PROVE v[m] \in Beneath(rs, Roots(rs))
        BY <1>1, <1>6, <3>1
      <3>2. ASSUME NEW k \in 1..l, m = a + 1 + k PROVE v[m] \in Beneath(rs, Roots(rs))
        BY <1>2, <2>1, <3>2
      <3> QED
        BY <1>3, <3>1, <3>2
    <2> QED
      BY <2>2
  <1>9. ASSUME NEW m \in 1..(n + l), NEW q \in 1..(n + l), v[m] = v[q] PROVE m = q
    <2>1. ASSUME NEW k \in 1..n, m = pos(k), NEW j \in 1..n, q = pos(j) PROVE m = q
      <3>1. u[k] = u[j]
        BY <1>1, <1>9, <2>1
      <3> QED
        BY <2>1, <3>1 DEF TreesOK
    <2>2. ASSUME NEW k \in 1..l, m = a + 1 + k, NEW j \in 1..l, q = a + 1 + j PROVE m = q
      <3>1. c[k] = c[j]
        BY <1>2, <1>9, <2>2
      <3> QED
        BY <1>a, <2>2, <3>1
    <2>3. ASSUME NEW k \in 1..n, NEW j \in 1..l PROVE u[k] # c[j]
      BY <1>5, <1>7
    <2>4. ASSUME NEW k \in 1..n, NEW j \in 1..l
          PROVE  ~(m = pos(k) /\ q = a + 1 + j) /\ ~(q = pos(k) /\ m = a + 1 + j)
      <3>1. v[pos(k)] = u[k] /\ v[a + 1 + j] = c[j] /\ u[k] # c[j]
        BY <1>1, <1>2, <2>3
      <3> QED
        BY <1>9, <3>1
    <2>5. (\E k \in 1..n : m = pos(k)) \/ (\E k \in 1..l : m = a + 1 + k)
      BY <1>3
    <2>6. (\E k \in 1..n : q = pos(k)) \/ (\E k \in 1..l : q = a + 1 + k)
      BY <1>3
    <2> QED
      BY <2>1, <2>2, <2>4, <2>5, <2>6
  <1>10. ASSUME NEW x \in Roots(rs) PROVE \E m \in 1..(n + l) : v[m] = x
    BY <1>1 DEF TreesOK
  <1>11. ASSUME NEW p \in 1..(a + 1), NEW x \in Children(rs, v[p].id)
         PROVE  \E m \in 1..(n + l) : v[m] = x
    <2>1. v[p] = u[p]
      BY <1>b
    <2>2. CASE p \in 1..a
      <3>1. \E k \in 1..n : u[k] = x
        BY <1>11, <2>1, <2>2 DEF TreesOK
      <3> QED
        BY <1>1, <3>1
    <2>3. CASE p = a + 1
      <3>1. \E k \in 1..l : c[k] = x
        BY <1>a, <1>11, <2>1, <2>3
      <3> QED
        BY <1>2, <3>1
    <2> QED
      BY <1>0, <2>2, <2>3
  <1>12. ASSUME NEW m \in 1..(n + l)
         PROVE  \/ v[m] \in Roots(rs)
                \/ \E p \in 1..(a + 1) :
                     /\ p < m /\ v[m] \in Children(rs, v[p].id)
                     /\ \A q \in (p + 1)..m : v[q] \in Beneath(rs, {v[p]})
    <2>1. ASSUME NEW k \in 1..n, m = pos(k), u[k] \notin Roots(rs)
          PROVE  \E p \in 1..(a + 1) :
                   /\ p < m /\ v[m] \in Children(rs, v[p].id)
                   /\ \A q \in (p + 1)..m : v[q] \in Beneath(rs, {v[p]})
      <3>1. PICK p \in 1..a : /\ p < k /\ u[k] \in Children(rs, u[p].id)
                              /\ \A q \in (p + 1)..k : u[q] \in Beneath(rs, {u[p]})
        BY <2>1 DEF TreesOK
      <3>2. p \in 1..(a + 1) /\ p \in 1..n /\ pos(p) = p /\ v[p] = u[p] /\ v[m] = u[k] /\ p < m
        BY <1>0, <1>1, <1>4, <2>1, <3>1
      <3>3. ASSUME NEW q \in (p + 1)..m PROVE v[q] \in Beneath(rs, {u[p]})
        <4>0. q \in 1..(n + l)
          BY <3>3
        <4>1. ASSUME NEW j \in 1..n, q = pos(j) PROVE v[q] \in Beneath(rs, {u[p]})
          <5>1. ~(pos(j) < pos(p + 0)) /\ ~(pos(k) < pos(j)) /\ pos(j) # pos(p)
            BY <1>4, <2>1, <3>2, <3>3, <4>1
          <5>2. j \in (p + 1)..k
            BY <1>4, <3>2, <5>1
          <5> QED
            BY <1>1, <3>1, <4>1, <5>2
        <4>2. ASSUME NEW j \in 1..l, q = a + 1 + j PROVE v[q] \in Beneath(rs, {u[p]})
          <5>0. a + 1 + j <= pos(k) /\ j \in Nat /\ a \in Nat
            BY <2>1, <3>3, <4>2
          <5>1. a + 1 + j < pos(k)
            <6>1. pos(k) # a + 1 + j /\ pos(k) \in Nat
              BY <1>4
            <6> QED
              BY <5>0, <6>1
          <5>2. a + 1 < k
            BY <1>4, <5>1
          <5>3. a + 1 \in (p + 1)..k
            BY <5>2
          <5>4. r \in Beneath(rs, {u[p]}) /\ {u[p]} \in SUBSET ToSet(rs)
            BY <1>6, <3>1, <3>2, <5>3 DEF r
          <5>5. c[j] \in Beneath(rs, {u[p]})
            BY <1>7, <5>4, BeneathIsClosed
          <5> QED
            BY <1>2, <4>2, <5>5
        <4> QED
          BY <1>3, <4>0, <4>1, <4>2
      <3> QED
        BY <3>1, <3>2, <3>3
    <2>2. ASSUME NEW k \in 1..l, m = a + 1 + k
          PROVE  \E p \in 1..(a + 1) :
                   /\ p < m /\ v[m] \in Children(rs, v[p].id)
                   /\ \A q \in (p + 1)..m : v[q] \in Beneath(rs, {v[p]})
      <3>1. a + 1 \in 1..(a + 1) /\ a + 1 < m /\ v[a + 1] = r /\ v[m] = c[k]
        BY <1>b, <1>2, <2>2 DEF r
      <3>2. ASSUME NEW q \in (a + 2)..m PROVE v[q] \in Beneath(rs, {r})
        <4>1. q - (a + 1) \in 1..l /\ a + 1 + (q - (a + 1)) = q
          BY <2>2, <3>2
        <4>2. v[q] \in Children(rs, r.id)
          <5> DEFINE j == q - (a + 1)
          <5> HIDE DEF j
          <5>1. j \in 1..l /\ v[a + 1 + j] = c[j] /\ c[j] \in Children(rs, r.id)
            BY <1>2, <1>7, <4>1 DEF j
          <5>2. a + 1 + j = q
            BY <4>1 DEF j
          <5> QED
            BY <5>1, <5>2
        <4> QED
          BY <1>6, <4>2, BeneathIsClosed
      <3>3. (a + 1) + 1 = a + 2
        OBVIOUS
      <3> QED
        BY <1>7, <3>1, <3>2, <3>3
    <2>3. ASSUME NEW k \in 1..n, m = pos(k), u[k] \in Roots(rs) PROVE v[m] \in Roots(rs)
      BY <1>1, <2>3
    <2> QED
      BY <1>3, <2>1, <2>2, <2>3
  <1>13. ASSUME NEW m \in 1..(n + l), NEW q \in 1..(n + l), m < q, Siblings(rs, v[m], v[q])
         PROVE  Before(rs, v[m], v[q])
    <2>1. ASSUME NEW k \in 1..n, NEW j \in 1..l
          PROVE  ~Siblings(rs, u[k], c[j]) /\ ~Siblings(rs, c[j], u[k])
      <3>1. u[k] \notin Children(rs, r.id) /\ c[j] \in Children(rs, r.id)
        BY <1>5, <1>7 DEF r
      <3> QED
        BY <3>1, Families DEF Siblings
    <2>2. ASSUME NEW k \in 1..n, m = pos(k), NEW j \in 1..n, q = pos(j)
          PROVE  Before(rs, v[m], v[q])
      <3>1. k < j /\ v[m] = u[k] /\ v[q] = u[j]
        BY <1>1, <1>4, <1>13, <2>2
      <3> QED
        BY <1>13, <3>1 DEF TreesOK
    <2>3. ASSUME NEW k \in 1..l, m = a + 1 + k, NEW j \in 1..l, q = a + 1 + j
          PROVE  Before(rs, v[m], v[q])
      <3>1. k < j /\ v[m] = c[k] /\ v[q] = c[j]
        BY <1>2, <1>13, <2>3
      <3> QED
        BY <1>a, <3>1
    <2>4. ASSUME NEW k \in 1..n, NEW j \in 1..l
          PROVE  /\ m = pos(k) /\ q = a + 1 + j => v[m] = u[k] /\ v[q] = c[j]
                 /\ q = pos(k) /\ m = a + 1 + j => v[q] = u[k] /\ v[m] = c[j]
      BY <1>1, <1>2
    <2>5. ASSUME NEW k \in 1..n, NEW j \in 1..l
          PROVE  ~(m = pos(k) /\ q = a + 1 + j) /\ ~(q = pos(k) /\ m = a + 1 + j)
      <3>1. ASSUME m = pos(k), q = a + 1 + j PROVE FALSE
        <4>1. v[m] = u[k] /\ v[q] = c[j]
          BY <2>4, <3>1
        <4>2. ~Siblings(rs, u[k], c[j])
          BY <2>1
        <4> QED
          BY <1>13, <4>1, <4>2
      <3>2. ASSUME q = pos(k), m = a + 1 + j PROVE FALSE
        <4>1. v[q] = u[k] /\ v[m] = c[j]
          BY <2>4, <3>2
        <4>2. ~Siblings(rs, c[j], u[k])
          BY <2>1
        <4> QED
          BY <1>13, <4>1, <4>2
      <3> QED
        BY <3>1, <3>2
    <2>6. (\E k \in 1..n : m = pos(k)) \/ (\E k \in 1..l : m = a + 1 + k)
      BY <1>3
    <2>7. (\E k \in 1..n : q = pos(k)) \/ (\E k \in 1..l : q = a + 1 + k)
      BY <1>3
    <2> QED
      BY <2>2, <2>3, <2>5, <2>6, <2>7
  <1> QED
    BY <1>8, <1>9, <1>10, <1>11, <1>12, <1>13 DEF TreesOK

\* When all are shown, they are what is beneath the roots.
LEMMA TreesHaveAll ==
  ASSUME NEW rs, IsListing(rs), NEW u, NEW n \in Nat, TreesOK(rs, u, n, n)
  PROVE  \A r : r \in Beneath(rs, Roots(rs)) <=> \E k \in 1..n : u[k] = r
  <1> DEFINE T == {u[k] : k \in 1..n}
  <1>1. Roots(rs) \in SUBSET ToSet(rs)
    BY Families
  <1>2. T \in SUBSET ToSet(rs)
    BY <1>1, BeneathIsClosed DEF TreesOK
  <1>3. Roots(rs) \subseteq T
    BY DEF TreesOK
  <1>4. IsClosed(rs, T)
    <2>1. ASSUME NEW p \in 1..n, NEW r \in Children(rs, u[p].id) PROVE r \in T
      <3>1. \E k \in 1..n : u[k] = r
        BY <2>1 DEF TreesOK
      <3> QED
        BY <3>1
    <2> QED
      BY <2>1 DEF IsClosed
  <1>5. Beneath(rs, Roots(rs)) \subseteq T
    BY <1>1, <1>2, <1>3, <1>4, BeneathIsClosed
  <1>6. \A k \in 1..n : u[k] \in Beneath(rs, Roots(rs))
    BY DEF TreesOK
  <1> QED
    BY <1>5, <1>6

-----------------------------------------------------------------------------
(* The calls of appendTree.                                                *)

Walks(rs) == [ordered : Seq(ToSet(rs)), calls : Seq(ToSet(rs))]

\* What a call of appendTree does to the sequences.
CallDoes(rs, w, x) ==
  LET r == Head(w.calls)
      c == sortGroup(rs, Children(rs, r.id))
      l == Len(c)
  IN  /\ r \in ToSet(rs) /\ r = w.calls[1] /\ Len(w.calls) \in Nat \ {0}
      /\ r \in ToSet(w.ordered) =>
           /\ x.ordered = w.ordered /\ x.calls = Tail(w.calls)
           /\ Len(x.calls) = Len(w.calls) - 1
           /\ \A k \in 1..(Len(w.calls) - 1) : x.calls[k] = w.calls[k + 1]
      /\ r \notin ToSet(w.ordered) =>
           /\ x.ordered = Append(w.ordered, r)
           /\ l \in 0..Len(rs)
           /\ Len(x.calls) = l + Len(w.calls) - 1
           /\ \A k \in 1..l : x.calls[k] = c[k]
           /\ \A k \in 1..(Len(w.calls) - 1) : x.calls[l + k] = w.calls[k + 1]

\* A call of appendTree does what CallDoes says, and none is made when none is left.
LEMMA NextCall ==
  ASSUME NEW rs, IsListing(rs), NEW w \in Walks(rs)
  PROVE  /\ appendTree(rs, w) \in Walks(rs)
         /\ w.calls = << >> => appendTree(rs, w) = w
         /\ w.calls # << >> => CallDoes(rs, w, appendTree(rs, w))
  <1>1. w.ordered \in Seq(ToSet(rs)) /\ w.calls \in Seq(ToSet(rs))
        /\ w = [ordered |-> w.ordered, calls |-> w.calls]
    BY DEF Walks
  <1>2. w.calls = << >> => appendTree(rs, w) = w
    BY DEF appendTree
  <1>3. CASE w.calls = << >>
    BY <1>2, <1>3
  <1>4. CASE w.calls # << >>
    <2> DEFINE r == Head(w.calls)
               t == Tail(w.calls)
               c == sortGroup(rs, Children(rs, r.id))
               l == Len(c)
               next2 == appendTree(rs, w)
    <2>1. /\ r \in ToSet(rs) /\ r = w.calls[1] /\ Len(w.calls) \in Nat \ {0}
          /\ t \in Seq(ToSet(rs)) /\ Len(t) = Len(w.calls) - 1
          /\ \A k \in 1..(Len(w.calls) - 1) : t[k] = w.calls[k + 1]
      BY <1>1, <1>4, HeadTailProperties, EmptySeq, LenProperties, ElementOfSeq
    <2>2. CASE r \in ToSet(w.ordered)
      <3>1. next2 = [w EXCEPT !.calls = t]
        BY <1>4, <2>2 DEF appendTree
      <3>2. next2.ordered = w.ordered /\ next2.calls = t /\ next2 \in Walks(rs)
        BY <1>1, <2>1, <3>1 DEF Walks
      <3> HIDE DEF next2, t, r
      <3> QED
        BY <1>2, <1>4, <2>1, <2>2, <3>2 DEF CallDoes, next2, t, r
    <2>3. CASE r \notin ToSet(w.ordered)
      <3>1. next2 = [ordered |-> Append(w.ordered, r), calls |-> c \o t]
        BY <1>4, <2>3 DEF appendTree
      <3>2. Children(rs, r.id) \in SUBSET ToSet(rs)
        BY Families
      <3>3. c \in Seq(Children(rs, r.id)) /\ l \in 0..Len(rs) /\ l \in Nat
        BY <3>2, ListingTypes, GroupsAreSorted
      <3>4. c \in Seq(ToSet(rs))
        BY <3>2, <3>3, SeqMonotonic
      <3> HIDE DEF c
      <3>5. /\ c \o t \in Seq(ToSet(rs)) /\ Len(c \o t) = l + Len(t)
            /\ \A k \in 1..(l + Len(t)) : (c \o t)[k] = IF k <= l THEN c[k] ELSE t[k - l]
        BY <2>1, <3>4, ConcatProperties
      <3>6. Append(w.ordered, r) \in Seq(ToSet(rs))
        BY <1>1, <2>1, AppendProperties
      <3> HIDE DEF next2, t, l, r
      <3>7. next2 \in Walks(rs) /\ next2.ordered = Append(w.ordered, r) /\ next2.calls = c \o t
        BY <3>1, <3>5, <3>6 DEF Walks
      <3>8. \A k \in 1..l : next2.calls[k] = c[k]
        BY <2>1, <3>3, <3>5, <3>7
      <3>9. ASSUME NEW k \in 1..(Len(w.calls) - 1) PROVE next2.calls[l + k] = w.calls[k + 1]
        <4>1. l + k \in 1..(l + Len(t)) /\ ~(l + k <= l) /\ l + k - l = k
          BY <2>1, <3>3
        <4> DEFINE j == l + k
        <4> HIDE DEF j
        <4>2. (c \o t)[j] = t[j - l]
          BY <3>5, <4>1 DEF j
        <4>3. j - l = k
          BY <3>3, <4>1 DEF j
        <4> QED
          BY <2>1, <3>7, <4>2, <4>3 DEF j
      <3>10. Len(next2.calls) = l + Len(w.calls) - 1
        BY <2>1, <3>3, <3>5, <3>7
      <3> QED
        BY <1>2, <1>4, <2>1, <2>3, <3>3, <3>7, <3>8, <3>9, <3>10 DEF CallDoes, next2, t, l, r, c
    <2> QED
      BY <2>2, <2>3
  <1> QED
    BY <1>3, <1>4

\* The calls that appendTrees makes.
IsWalk(rs, ordered, group, walk) ==
  /\ walk \in [0..EnoughCalls(rs) -> Walks(rs)]
  /\ walk[0] = [ordered |-> ordered, calls |-> sortGroup(rs, group)]
  /\ \A n \in 1..EnoughCalls(rs) : walk[n] = appendTree(rs, walk[n - 1])

\* The number of calls is a number.
LEMMA EnoughIsANumber ==
  ASSUME NEW rs, IsListing(rs)
  PROVE  EnoughCalls(rs) \in Nat /\ EnoughCalls(rs) = (Len(rs) + 1) * (Len(rs) + 1)
  <1>1. Len(rs) \in Nat
    BY ListingTypes
  <1> QED
    BY <1>1 DEF EnoughCalls

\* The recursive function of appendTrees has its values.
LEMMA AppendTreesWalks ==
  ASSUME NEW rs, IsListing(rs), NEW ordered \in Seq(ToSet(rs)), NEW group \in SUBSET ToSet(rs)
  PROVE  \E walk : /\ IsWalk(rs, ordered, group, walk)
                   /\ appendTrees(rs, ordered, group) = walk[EnoughCalls(rs)].ordered
  <1> DEFINE e == EnoughCalls(rs)
             first == [ordered |-> ordered, calls |-> sortGroup(rs, group)]
             IsUpTo(m, f) ==
               /\ f \in [0..m -> Walks(rs)] /\ f[0] = first
               /\ \A n \in 1..m : f[n] = appendTree(rs, f[n - 1])
             P == {m \in 0..e : \E f : IsUpTo(m, f)}
  <1>1. e \in Nat
    BY EnoughIsANumber
  <1>2. first \in Walks(rs)
    <2>1. sortGroup(rs, group) \in Seq(group)
      BY GroupsAreSorted
    <2>2. sortGroup(rs, group) \in Seq(ToSet(rs))
      BY <2>1, SeqMonotonic
    <2> QED
      BY <2>2 DEF Walks
  <1> HIDE DEF e, first
  <1>3. 0 \in P
    <2> DEFINE f == [n \in 0..0 |-> first]
    <2>1. IsUpTo(0, f)
      BY <1>2
    <2> HIDE DEF f, IsUpTo
    <2> QED
      BY <1>1, <2>1
  <1>4. ASSUME NEW m \in 1..e, m - 1 \in P PROVE m \in P
    <2>1. PICK f : IsUpTo(m - 1, f)
      BY <1>4
    <2> DEFINE g == [n \in 0..m |-> IF n = m THEN appendTree(rs, f[m - 1]) ELSE f[n]]
    <2>2. \A n \in 0..(m - 1) : n \in 0..m /\ n # m /\ g[n] = f[n] /\ f[n] \in Walks(rs)
      BY <1>1, <2>1
    <2>3. m \in 0..m /\ m - 1 \in 0..(m - 1) /\ 0 \in 0..(m - 1)
      BY <1>1
    <2>4. appendTree(rs, f[m - 1]) \in Walks(rs)
      BY <2>2, <2>3, NextCall
    <2>5. g[m] = appendTree(rs, f[m - 1])
      BY <2>3
    <2>6. g \in [0..m -> Walks(rs)]
      <3>1. ASSUME NEW n \in 0..m PROVE g[n] \in Walks(rs)
        <4>1. n = m \/ n \in 0..(m - 1)
          BY <1>1
        <4> QED
          BY <2>2, <2>4, <2>5, <4>1
      <3> QED
        BY <3>1
    <2> HIDE DEF g
    <2>7. ASSUME NEW n \in 1..m PROVE g[n] = appendTree(rs, g[n - 1])
      <3>1. n - 1 \in 0..(m - 1) /\ (n = m \/ (n \in 1..(m - 1) /\ n \in 0..(m - 1)))
        BY <1>1
      <3> QED
        BY <2>1, <2>2, <2>5, <3>1
    <2>8. IsUpTo(m, g)
      BY <2>1, <2>2, <2>3, <2>6, <2>7
    <2>9. m \in 0..e
      BY <1>1
    <2> HIDE DEF IsUpTo
    <2> QED
      BY <2>8, <2>9
  <1>5. e \in P
    <2>1. e \in 0..e
      BY <1>1
    <2> HIDE DEF P
    <2> QED
      BY <1>1, <1>3, <1>4, <2>1, UpTo
  <1> DEFINE Is(f) == f = [n \in 0..e |-> IF n = 0 THEN first ELSE appendTree(rs, f[n - 1])]
             walk == CHOOSE f : Is(f)
  <1>6. Is(walk)
    <2>1. PICK f : IsUpTo(e, f)
      BY <1>5
    <2>2. \A n \in 0..e : n = 0 \/ n \in 1..e
      BY <1>1
    <2>3. \A n \in 0..e : f[n] = IF n = 0 THEN first ELSE appendTree(rs, f[n - 1])
      BY <2>1, <2>2
    <2>4. Is(f)
      BY <2>1, <2>3
    <2> HIDE DEF Is
    <2> QED
      BY <2>4
  <1>7. appendTrees(rs, ordered, group) = walk[e].ordered
    BY DEF appendTrees, e, first
  <1> HIDE DEF walk
  <1>8. IsUpTo(e, walk)
    <2>1. DOMAIN walk = 0..e /\ walk = [n \in 0..e |-> walk[n]]
      BY <1>6
    <2>2. /\ 0 \in 0..e /\ walk[0] = first
          /\ \A n \in 1..e : n \in 0..e /\ n # 0
      BY <1>1, <1>6
    <2>3. \A n \in 1..e : walk[n] = appendTree(rs, walk[n - 1])
      BY <1>6, <2>2
    <2> DEFINE V == {n \in 0..e : walk[n] \in Walks(rs)}
    <2>4. 0 \in V
      BY <1>2, <2>2
    <2>5. ASSUME NEW n \in 1..e, n - 1 \in V PROVE n \in V
      <3>1. walk[n - 1] \in Walks(rs)
        BY <2>5
      <3>2. appendTree(rs, walk[n - 1]) \in Walks(rs)
        BY <3>1, NextCall
      <3> QED
        BY <2>2, <2>3, <3>2
    <2> HIDE DEF V
    <2>6. \A n \in 0..e : n \in V
      BY <1>1, <2>4, <2>5, UpTo
    <2>7. \A n \in 0..e : walk[n] \in Walks(rs)
      BY <2>6 DEF V
    <2>8. walk \in [0..e -> Walks(rs)]
      BY <2>1, <2>7
    <2> QED
      BY <2>2, <2>3, <2>8
  <1>9. IsWalk(rs, ordered, group, walk)
    BY <1>8 DEF IsWalk, e, first
  <1> QED
    BY <1>7, <1>9 DEF e

\* Every call leaves less to do.
ToDo(rs, w) == (Len(rs) - Len(w.ordered)) * (Len(rs) + 1) + Len(w.calls)

\* After enough calls none is left, and what was asked for is there, once, after what
\* was there before.
LEMMA AppendTreesAppends ==
  ASSUME NEW rs, IsListing(rs), NEW ordered \in Seq(ToSet(rs)), IsInjective(ordered),
         NEW group \in SUBSET ToSet(rs),
         NEW walk, IsWalk(rs, ordered, group, walk)
  PROVE  LET w == walk[EnoughCalls(rs)]
         IN  /\ w.calls = << >> /\ w.ordered \in Seq(ToSet(rs)) /\ IsInjective(w.ordered)
             /\ Len(ordered) \in Nat /\ Len(w.ordered) \in Nat /\ Len(ordered) <= Len(w.ordered)
             /\ \A k \in 1..Len(ordered) : w.ordered[k] = ordered[k]
             /\ group \subseteq ToSet(w.ordered)
  <1> DEFINE e == EnoughCalls(rs)
             N0 == Len(rs)
             Good(w) ==
               /\ IsInjective(w.ordered)
               /\ Len(ordered) <= Len(w.ordered)
               /\ \A k \in 1..Len(ordered) : w.ordered[k] = ordered[k]
               /\ group \subseteq ToSet(w.ordered) \cup ToSet(w.calls)
             P == {n \in 0..e : /\ Good(walk[n])
                                /\ walk[n].calls = << >> \/ ToDo(rs, walk[n]) + n < e}
  <1>1. e \in Nat /\ N0 \in Nat /\ e = (N0 + 1) * (N0 + 1) /\ Len(ordered) \in Nat
    BY EnoughIsANumber, ListingTypes, LenProperties
  <1>2. ASSUME NEW n \in 0..e
        PROVE  /\ walk[n] \in Walks(rs) /\ walk[n].ordered \in Seq(ToSet(rs))
               /\ walk[n].calls \in Seq(ToSet(rs))
               /\ Len(walk[n].ordered) \in Nat /\ Len(walk[n].calls) \in Nat
    <2>1. walk[n] \in Walks(rs)
      BY DEF IsWalk
    <2>2. walk[n].ordered \in Seq(ToSet(rs)) /\ walk[n].calls \in Seq(ToSet(rs))
      BY <2>1 DEF Walks
    <2> QED
      BY <2>1, <2>2, LenProperties
  \* Never more than there are.
  <1>3. ASSUME NEW s \in Seq(ToSet(rs)), IsInjective(s) PROVE Len(s) \in 0..N0
    <2> DEFINE n == Len(s)
    <2>1. s \in [1..n -> ToSet(rs)] /\ n \in Nat /\ DOMAIN s = 1..n
      BY SeqDef, LenProperties
    <2> HIDE DEF n
    <2>2. s \in Injection(1..n, ToSet(rs))
      BY <1>3, <2>1 DEF Injection
    <2>3. Cardinality(1..n) <= N0
      BY <2>2, ListingTypes, FS_Injection
    <2>4. Cardinality(1..n) = n
      BY <2>1, FS_Interval
    <2> QED
      BY <1>1, <2>1, <2>3, <2>4 DEF n
  <1>4. 0 \in P
    <2> DEFINE s == sortGroup(rs, group)
    <2>1. walk[0].ordered = ordered /\ walk[0].calls = s
      BY DEF IsWalk
    <2>2. DOMAIN s = 1..Len(s) /\ Len(s) \in 0..N0 /\ group \subseteq ToSet(s)
      BY GroupsAreWhole
    <2> HIDE DEF s
    <2>4. Len(ordered) \in 0..N0
      BY <1>3
    <2>5. ToDo(rs, walk[0]) + 0 < e
      <3> DEFINE j == N0 - Len(ordered)
      <3>1. j \in 0..N0 /\ ToDo(rs, walk[0]) = j * (N0 + 1) + Len(s)
        BY <1>1, <2>1, <2>4 DEF ToDo
      <3> HIDE DEF j
      <3> HIDE DEF N0, e
      <3>2. j * (N0 + 1) <= N0 * (N0 + 1) /\ j * (N0 + 1) \in Nat /\ N0 * (N0 + 1) \in Nat
        BY <1>1, <3>1
      <3>3. e = N0 * (N0 + 1) + N0 + 1
        BY <1>1
      <3>4. Len(s) <= N0 /\ Len(s) \in Nat
        BY <1>1, <2>2
      <3> QED
        BY <1>1, <3>1, <3>2, <3>3, <3>4
    <2>6. Good(walk[0])
      BY <1>1, <2>1, <2>2
    <2>7. 0 \in 0..e
      BY <1>1
    <2> HIDE DEF Good
    <2> QED
      BY <2>5, <2>6, <2>7
  <1>5. ASSUME NEW n \in 1..e, n - 1 \in P PROVE n \in P
    <2> DEFINE w == walk[n - 1]
               x == appendTree(rs, w)
    <2>0. n - 1 \in 0..e /\ n \in 0..e /\ n \in Nat
      BY <1>1
    <2>1. walk[n] = x
      BY DEF IsWalk
    <2>2. /\ w \in Walks(rs) /\ w.ordered \in Seq(ToSet(rs)) /\ w.calls \in Seq(ToSet(rs))
          /\ Len(w.ordered) \in Nat /\ Len(w.calls) \in Nat
          /\ x.ordered \in Seq(ToSet(rs)) /\ x.calls \in Seq(ToSet(rs))
          /\ Len(x.ordered) \in Nat /\ Len(x.calls) \in Nat
      BY <1>2, <2>0, <2>1
    <2>3. Good(w) /\ (w.calls = << >> \/ ToDo(rs, w) + (n - 1) < e)
      BY <1>5
    <2> HIDE DEF w, x
    <2>4. CASE w.calls = << >>
      <3>1. x = w
        BY <2>2, <2>4, NextCall DEF x
      <3> QED
        BY <2>0, <2>1, <2>3, <2>4, <3>1
    <2>5. CASE w.calls # << >>
      <3> DEFINE r == Head(w.calls)
                 c == sortGroup(rs, Children(rs, r.id))
                 l == Len(c)
      <3> HIDE DEF N0, e
      <3>1. /\ r \in ToSet(rs) /\ r = w.calls[1] /\ Len(w.calls) \in Nat \ {0}
            /\ r \in ToSet(w.ordered) =>
                 /\ x.ordered = w.ordered /\ x.calls = Tail(w.calls)
                 /\ Len(x.calls) = Len(w.calls) - 1
                 /\ \A k \in 1..(Len(w.calls) - 1) : x.calls[k] = w.calls[k + 1]
            /\ r \notin ToSet(w.ordered) =>
                 /\ x.ordered = Append(w.ordered, r)
                 /\ l \in 0..Len(rs)
                 /\ Len(x.calls) = l + Len(w.calls) - 1
                 /\ \A k \in 1..l : x.calls[k] = c[k]
                 /\ \A k \in 1..(Len(w.calls) - 1) : x.calls[l + k] = w.calls[k + 1]
        <4>1. CallDoes(rs, w, x)
          BY <2>2, <2>5, NextCall DEF x
        <4> QED
          BY <4>1 DEF CallDoes
      <3> HIDE DEF r, l, c
      <3>2. DOMAIN w.calls = 1..Len(w.calls) /\ DOMAIN x.calls = 1..Len(x.calls)
        BY <2>2, LenProperties
      <3>3. ASSUME NEW y \in ToSet(w.calls) PROVE y = r \/ y \in ToSet(x.calls)
        <4>1. PICK k \in 1..Len(w.calls) : w.calls[k] = y
          BY <3>2, <3>3 DEF ToSet
        <4>2. CASE k = 1
          BY <3>1, <4>1, <4>2
        <4>3. CASE k # 1
          <5>1. k - 1 \in 1..(Len(w.calls) - 1) /\ (k - 1) + 1 = k
            BY <3>1, <4>3
          <5>2. CASE r \in ToSet(w.ordered)
            <6>1. k - 1 \in 1..Len(x.calls) /\ x.calls[k - 1] = y
              BY <3>1, <4>1, <5>1, <5>2
            <6> QED
              BY <3>2, <6>1 DEF ToSet
          <5>3. CASE r \notin ToSet(w.ordered)
            <6> DEFINE j == k - 1
            <6>0. l \in Nat /\ j \in 1..(Len(w.calls) - 1) /\ Len(x.calls) = l + Len(w.calls) - 1
              BY <3>1, <5>1, <5>3 DEF N0
            <6>1. x.calls[l + j] = w.calls[j + 1] /\ w.calls[j + 1] = y
              BY <3>1, <4>1, <5>1, <5>3
            <6> HIDE DEF j
            <6>2. l + j \in 1..Len(x.calls)
              BY <3>1, <6>0
            <6> QED
              BY <3>2, <6>1, <6>2 DEF ToSet
          <5> QED
            BY <5>2, <5>3
        <4> QED
          BY <4>2, <4>3
      <3>4. Len(w.ordered) \in 0..N0
        BY <1>3, <2>2, <2>3
      <3>5. CASE r \in ToSet(w.ordered)
        <4>1. Good(x)
          BY <2>3, <3>1, <3>3, <3>5
        <4>2. ToDo(rs, x) + n < e
          <5> DEFINE j == (Len(rs) - Len(w.ordered)) * (Len(rs) + 1)
          <5>1. ToDo(rs, w) = j + Len(w.calls) /\ ToDo(rs, x) = j + (Len(w.calls) - 1)
            BY <3>1, <3>5 DEF ToDo
          <5>2. j \in Int
            BY <1>1, <2>2
          <5> HIDE DEF j, e
          <5> QED
            BY <1>1, <2>0, <2>2, <2>3, <2>5, <5>1, <5>2
        <4> HIDE DEF Good
        <4> QED
          BY <2>0, <2>1, <4>1, <4>2
      <3>6. CASE r \notin ToSet(w.ordered)
        <4>1. /\ x.ordered = Append(w.ordered, r) /\ Len(x.ordered) = Len(w.ordered) + 1
              /\ \A k \in 1..Len(w.ordered) : x.ordered[k] = w.ordered[k]
              /\ ToSet(x.ordered) = ToSet(w.ordered) \cup {r}
          <5>1. w.ordered \in Seq(ToSet(rs)) /\ r \in ToSet(rs) /\ x.ordered = Append(w.ordered, r)
            BY <2>2, <3>1, <3>6
          <5> QED
            BY <5>1, AppendAdds
        <4>2. IsInjective(x.ordered)
          BY <2>2, <2>3, <3>1, <3>6, <4>1, AppendKeepsInjective
        <4>3. Good(x)
          <5>1. Len(ordered) <= Len(x.ordered)
            BY <1>1, <2>2, <2>3, <4>1
          <5>2. \A k \in 1..Len(ordered) : k \in 1..Len(w.ordered)
            BY <1>1, <2>2, <2>3
          <5>3. \A k \in 1..Len(ordered) : x.ordered[k] = ordered[k]
            BY <2>3, <4>1, <5>2
          <5>4. group \subseteq ToSet(x.ordered) \cup ToSet(x.calls)
            BY <2>3, <3>3, <4>1
          <5> QED
            BY <4>2, <5>1, <5>3, <5>4
        <4>4. ToDo(rs, x) + n < e
          <5> DEFINE a == Len(w.ordered)
                     q == Len(w.calls)
                     j == (N0 - a) * (N0 + 1)
          <5>1. ToDo(rs, w) = j + q /\ ToDo(rs, x) = (N0 - (a + 1)) * (N0 + 1) + (l + q - 1)
            BY <3>1, <3>6, <4>1 DEF ToDo, N0
          <5>2. a \in Nat /\ q \in Nat /\ N0 \in Nat /\ l \in 0..N0
            BY <1>1, <2>2, <3>1, <3>6 DEF N0
          <5> HIDE DEF a, q, N0
          <5>3. (N0 - (a + 1)) * (N0 + 1) = j - (N0 + 1) /\ j \in Int
            BY <5>2
          <5> HIDE DEF j, e
          <5> QED
            BY <1>1, <2>0, <2>3, <2>5, <5>1, <5>2, <5>3
        <4> HIDE DEF Good
        <4> QED
          BY <2>0, <2>1, <4>3, <4>4
      <3> QED
        BY <3>5, <3>6
    <2> QED
      BY <2>4, <2>5
  <1>6. e \in P
    <2>1. e \in 0..e
      BY <1>1
    <2> HIDE DEF P
    <2> QED
      BY <1>1, <1>4, <1>5, <2>1, UpTo
  <1> DEFINE w == walk[e]
  <1>7. Good(w) /\ (w.calls = << >> \/ ToDo(rs, w) + e < e)
    BY <1>6
  <1>8. e \in 0..e
    BY <1>1
  <1>9. /\ w.ordered \in Seq(ToSet(rs)) /\ w.calls \in Seq(ToSet(rs))
        /\ Len(w.ordered) \in Nat /\ Len(w.calls) \in Nat
    BY <1>2, <1>8
  <1>10. ToDo(rs, w) \in Nat
    <2>1. Len(w.ordered) \in 0..N0
      BY <1>3, <1>7, <1>9
    <2> DEFINE j == N0 - Len(w.ordered)
    <2>2. j \in Nat /\ ToDo(rs, w) = j * (N0 + 1) + Len(w.calls)
      BY <1>1, <2>1 DEF ToDo
    <2> HIDE DEF j, N0, w
    <2>3. j * (N0 + 1) \in Nat
      BY <1>1, <2>2
    <2> QED
      BY <1>9, <2>2, <2>3
  <1> HIDE DEF w
  <1>11. w.calls = << >>
    <2> HIDE DEF e
    <2> QED
      BY <1>1, <1>7, <1>10
  <1>12. ToSet(w.calls) = {}
    BY <1>11 DEF ToSet
  <1>13. group \subseteq ToSet(w.ordered)
    BY <1>7, <1>12
  <1> QED
    BY <1>1, <1>7, <1>9, <1>11, <1>13 DEF w

\* What is shown and what is still to come are trees, from call to call.
HasTrees(rs, w) ==
  TreesOK(rs, w.ordered \o w.calls, Len(w.ordered) + Len(w.calls), Len(w.ordered))

\* A call of appendTree leaves trees: the children go right after the ref that is
\* shown, before all calls that were to come.
LEMMA NextCallGrowsTrees ==
  ASSUME NEW rs, IsListing(rs), NEW w \in Walks(rs), HasTrees(rs, w), w.calls # << >>
  PROVE  HasTrees(rs, appendTree(rs, w))
  <1> DEFINE x == appendTree(rs, w)
             r == Head(w.calls)
             c == sortGroup(rs, Children(rs, r.id))
             l == Len(c)
             a == Len(w.ordered)
             q == Len(w.calls)
             u == w.ordered \o w.calls
             v == x.ordered \o x.calls
  <1>1. x \in Walks(rs) /\ CallDoes(rs, w, x)
    BY NextCall
  <1>2. /\ w.ordered \in Seq(ToSet(rs)) /\ w.calls \in Seq(ToSet(rs))
        /\ x.ordered \in Seq(ToSet(rs)) /\ x.calls \in Seq(ToSet(rs))
        /\ a \in Nat /\ q \in Nat /\ DOMAIN w.ordered = 1..a
        /\ Len(x.calls) \in Nat
    <2>1. /\ w.ordered \in Seq(ToSet(rs)) /\ w.calls \in Seq(ToSet(rs))
          /\ x.ordered \in Seq(ToSet(rs)) /\ x.calls \in Seq(ToSet(rs))
      BY <1>1 DEF Walks
    <2> HIDE DEF x
    <2> QED
      BY <2>1, LenProperties
  <1> HIDE DEF x
  <1>3. \A k \in 1..(a + q) : u[k] = IF k <= a THEN w.ordered[k] ELSE w.calls[k - a]
    BY <1>2, ConcatProperties
  <1>4. \A k \in 1..(Len(x.ordered) + Len(x.calls)) :
          v[k] = IF k <= Len(x.ordered) THEN x.ordered[k] ELSE x.calls[k - Len(x.ordered)]
    BY <1>2, ConcatProperties
  <1>5. TreesOK(rs, u, a + q, a)
    BY DEF HasTrees
  <1> HIDE DEF u, v, a, q
  <1>6. r \in ToSet(rs) /\ r = w.calls[1] /\ q \in Nat \ {0}
    BY <1>1 DEF CallDoes, q
  <1>7. u[a + 1] = r /\ a + 1 \in 1..(a + q)
    <2>1. a + 1 \in 1..(a + q) /\ ~(a + 1 <= a) /\ (a + 1) - a = 1
      BY <1>2, <1>6
    <2> DEFINE k == a + 1
    <2> HIDE DEF k
    <2>2. u[k] = w.calls[k - a]
      BY <1>3, <2>1 DEF k
    <2> QED
      BY <1>6, <2>1, <2>2 DEF k
  <1>8. r \notin ToSet(w.ordered)
    <2>1. ASSUME NEW k \in 1..a, w.ordered[k] = r PROVE FALSE
      <3>1. k \in 1..(a + q) /\ k # a + 1 /\ u[k] = r
        BY <1>2, <1>3, <2>1
      <3> QED
        BY <1>5, <1>7, <3>1 DEF TreesOK
    <2> QED
      BY <1>2, <2>1 DEF ToSet
  <1>9. /\ x.ordered = Append(w.ordered, r) /\ l \in 0..Len(rs) /\ Len(x.calls) = l + q - 1
        /\ \A k \in 1..l : x.calls[k] = c[k]
        /\ \A k \in 1..(q - 1) : x.calls[l + k] = w.calls[k + 1]
    BY <1>1, <1>8 DEF CallDoes, q
  <1>10. Len(x.ordered) = a + 1 /\ (\A k \in 1..a : x.ordered[k] = w.ordered[k])
         /\ x.ordered[a + 1] = r
    BY <1>2, <1>6, <1>9, AppendAdds DEF a
  <1>11. Len(rs) \in Nat /\ l \in Nat /\ Children(rs, r.id) \in SUBSET ToSet(rs)
    BY <1>9, ListingTypes, Families
  <1>12. /\ \A y : y \in Children(rs, u[a + 1].id) <=> \E k \in 1..l : c[k] = y
         /\ \A k, m \in 1..l : c[k] = c[m] => k = m
         /\ \A k, m \in 1..l : k < m => Before(rs, c[k], c[m])
    <2> DEFINE g == Children(rs, r.id)
    <2>1. g \in SUBSET ToSet(rs)
      BY <1>11
    <2> HIDE DEF g
    <2>2. c = sortGroup(rs, g)
      BY DEF g
    <2>3. /\ \A y : y \in g <=> \E k \in 1..Len(sortGroup(rs, g)) : sortGroup(rs, g)[k] = y
          /\ \A k, m \in 1..Len(sortGroup(rs, g)) :
               sortGroup(rs, g)[k] = sortGroup(rs, g)[m] => k = m
          /\ \A k, m \in 1..Len(sortGroup(rs, g)) :
               k < m => Before(rs, sortGroup(rs, g)[k], sortGroup(rs, g)[m])
      BY <2>1, GroupsAreSorted
    <2> HIDE DEF r
    <2>4. g = Children(rs, u[a + 1].id)
      BY <1>7 DEF g
    <2> HIDE DEF c
    <2> QED
      BY <2>2, <2>3, <2>4
  <1> HIDE DEF c, l, r
  <1> DEFINE y == Len(x.ordered)
             z == Len(x.calls)
  <1>12a. a \in Nat /\ q \in Nat \ {0} /\ l \in Nat /\ y = a + 1 /\ z = l + q - 1
    BY <1>2, <1>6, <1>9, <1>10, <1>11
  <1>12b. \A k \in 1..(y + z) : v[k] = IF k <= y THEN x.ordered[k] ELSE x.calls[k - y]
    BY <1>4
  <1> HIDE DEF y, z
  <1>13. a + 1 + z = a + q + l /\ a + q \in Nat /\ a \in 0..((a + q) - 1)
    BY <1>12a
  <1>14. ASSUME NEW k \in 1..(a + 1) PROVE v[k] = u[k]
    <2>1. k \in 1..(y + z) /\ k <= y
      BY <1>12a
    <2>2. v[k] = x.ordered[k]
      BY <1>12b, <2>1
    <2>3. CASE k \in 1..a
      <3>1. k \in 1..(a + q) /\ k <= a
        BY <1>12a, <2>3
      <3> QED
        BY <1>3, <1>10, <2>2, <2>3, <3>1
    <2>4. CASE k = a + 1
      BY <1>7, <1>10, <2>2, <2>4
    <2> QED
      BY <1>12a, <2>3, <2>4
  <1>15. ASSUME NEW k \in 1..l PROVE v[a + 1 + k] = c[k]
    <2> DEFINE j == a + 1 + k
    <2>1. j \in 1..(y + z) /\ ~(j <= y) /\ j - y = k
      BY <1>12a
    <2> HIDE DEF j
    <2>2. v[j] = x.calls[k]
      BY <1>12b, <2>1
    <2> QED
      BY <1>9, <2>2 DEF j
  <1>16. ASSUME NEW k \in (a + 2)..(a + q) PROVE v[k + l] = u[k]
    <2> DEFINE j == k + l
               i == k - (a + 1)
    <2>1. /\ j \in 1..(y + z) /\ ~(j <= y)
          /\ j - y = l + i /\ i \in 1..(q - 1) /\ i + 1 = k - a
          /\ k \in 1..(a + q) /\ ~(k <= a)
      BY <1>12a
    <2> HIDE DEF j, i
    <2>2. v[j] = x.calls[l + i]
      BY <1>12b, <2>1
    <2>3. x.calls[l + i] = w.calls[i + 1]
      BY <1>9, <2>1
    <2>4. u[k] = w.calls[k - a]
      BY <1>3, <2>1
    <2> QED
      BY <2>1, <2>2, <2>3, <2>4 DEF j
  <1>17. TreesOK(rs, v, a + q + l, a + 1)
    <2> DEFINE n == a + q
    <2>1. n \in Nat /\ a \in 0..(n - 1) /\ l \in Nat /\ TreesOK(rs, u, n, a)
      BY <1>5, <1>11, <1>13
    <2>2. HasBetween(rs, v, u, n, a + 1, Children(rs, u[a + 1].id), c, l)
      <3>1. (a + 1) + 1 = a + 2
        BY <1>12a
      <3>2. \A k \in ((a + 1) + 1)..n : v[k + l] = u[k]
        BY <1>16, <3>1
      <3> HIDE DEF n
      <3> QED
        BY <1>12, <1>14, <1>15, <3>2 DEF HasBetween
    <2> HIDE DEF n
    <2>3. TreesOK(rs, v, n + l, a + 1)
      BY <2>1, <2>2, TreesGrow
    <2> QED
      BY <2>3 DEF n
  <1> QED
    BY <1>10, <1>13, <1>17 DEF HasTrees, v, x, a, y, z

\* When all calls for the roots are made, what is shown are the trees of the roots.
LEMMA RootsAreAppended ==
  ASSUME NEW rs, IsListing(rs), NEW walk, IsWalk(rs, << >>, Roots(rs), walk)
  PROVE  HasTrees(rs, walk[EnoughCalls(rs)])
  <1> DEFINE e == EnoughCalls(rs)
             P == {n \in 0..e : HasTrees(rs, walk[n])}
  <1>1. e \in Nat
    BY EnoughIsANumber
  <1>2. 0 \in P
    <2> DEFINE s == sortGroup(rs, Roots(rs))
    <2>1. walk[0].ordered = << >> /\ walk[0].calls = s
      BY DEF IsWalk
    <2>2. s \in Seq(Roots(rs)) /\ TreesOK(rs, s, Len(s), 0)
      BY Families, GroupsAreSorted, RootsAreTrees
    <2> HIDE DEF s
    <2>3. << >> \o s = s /\ Len(<< >>) = 0 /\ Len(s) \in Nat
      BY <2>2, ConcatEmptySeq, LenProperties, EmptySeq
    <2>4. 0 + Len(s) = Len(s)
      BY <2>3
    <2>5. HasTrees(rs, walk[0])
      BY <2>1, <2>2, <2>3, <2>4 DEF HasTrees
    <2>6. 0 \in 0..e
      BY <1>1
    <2> QED
      BY <2>5, <2>6
  <1>3. ASSUME NEW n \in 1..e, n - 1 \in P PROVE n \in P
    <2>1. n \in 0..e /\ n - 1 \in 0..e
      BY <1>1
    <2>2. walk[n] = appendTree(rs, walk[n - 1]) /\ walk[n - 1] \in Walks(rs)
      BY <2>1 DEF IsWalk
    <2>3. HasTrees(rs, walk[n - 1])
      BY <1>3
    <2>4. CASE walk[n - 1].calls = << >>
      BY <2>1, <2>2, <2>3, <2>4, NextCall
    <2>5. CASE walk[n - 1].calls # << >>
      BY <2>1, <2>2, <2>3, <2>5, NextCallGrowsTrees
    <2> QED
      BY <2>4, <2>5
  <1>4. e \in 0..e
    BY <1>1
  <1> HIDE DEF P
  <1>5. e \in P
    BY <1>1, <1>2, <1>3, <1>4, UpTo
  <1> QED
    BY <1>5 DEF P

-----------------------------------------------------------------------------

\* The documents of a listing in the order that they are shown in.
LEMMA ShownOnce ==
  ASSUME NEW rs, IsListing(rs)
  PROVE  LET o1 == appendTrees(rs, << >>, Roots(rs))
             o == orderDocumentRefsByHierarchy(rs)
             a == Len(o1)
         IN  /\ o \in Seq(ToSet(rs)) /\ DOMAIN o = 1..Len(o) /\ Len(o) = Len(rs)
             /\ ToSet(o) = ToSet(rs) /\ \A k, m \in 1..Len(o) : o[k] = o[m] => k = m
             /\ a \in 0..Len(o) /\ (\A k \in 1..a : o[k] = o1[k]) /\ TreesOK(rs, o1, a, a)
  <1> DEFINE o1 == appendTrees(rs, << >>, Roots(rs))
             o == orderDocumentRefsByHierarchy(rs)
             e == EnoughCalls(rs)
             others == ToSet(rs) \ ToSet(o1)
  <1>1. PICK walk : IsWalk(rs, << >>, Roots(rs), walk) /\ o1 = walk[e].ordered
    <2>1. << >> \in Seq(ToSet(rs)) /\ Roots(rs) \in SUBSET ToSet(rs)
      BY EmptySeq, Families
    <2> QED
      BY <2>1, AppendTreesWalks
  <1>2. /\ walk[e].calls = << >> /\ o1 \in Seq(ToSet(rs)) /\ IsInjective(o1)
    <2>1. << >> \in Seq(ToSet(rs)) /\ IsInjective(<< >>) /\ Roots(rs) \in SUBSET ToSet(rs)
      BY EmptySeq, Families DEF IsInjective
    <2> HIDE DEF o1, e
    <2>2. LET z == walk[EnoughCalls(rs)]
          IN  /\ z.calls = << >> /\ z.ordered \in Seq(ToSet(rs)) /\ IsInjective(z.ordered)
              /\ Len(<< >>) \in Nat /\ Len(z.ordered) \in Nat /\ Len(<< >>) <= Len(z.ordered)
              /\ \A k \in 1..Len(<< >>) : z.ordered[k] = << >>[k]
              /\ Roots(rs) \subseteq ToSet(z.ordered)
      BY <1>1, <2>1, AppendTreesAppends
    <2>3. o1 = walk[EnoughCalls(rs)].ordered
      BY <1>1 DEF e
    <2> QED
      BY <2>2, <2>3 DEF e
  <1> HIDE DEF o1
  <1>3. TreesOK(rs, o1, Len(o1), Len(o1))
    <2>1. HasTrees(rs, walk[e])
      BY <1>1, RootsAreAppended
    <2>2. o1 \o << >> = o1 /\ Len(<< >>) = 0 /\ Len(o1) \in Nat
      BY <1>2, ConcatEmptySeq, EmptySeq, LenProperties
    <2>3. Len(o1) + 0 = Len(o1)
      BY <2>2
    <2> QED
      BY <1>1, <1>2, <2>1, <2>2, <2>3 DEF HasTrees
  <1>4. o = appendTrees(rs, o1, others)
    BY DEF orderDocumentRefsByHierarchy, o1
  <1> HIDE DEF o
  <1>5. PICK rest : IsWalk(rs, o1, others, rest) /\ o = rest[e].ordered
    BY <1>2, <1>4, AppendTreesWalks
  <1>6. /\ o \in Seq(ToSet(rs)) /\ IsInjective(o)
        /\ Len(o1) \in Nat /\ Len(o) \in Nat /\ Len(o1) <= Len(o)
        /\ \A k \in 1..Len(o1) : o[k] = o1[k]
        /\ others \subseteq ToSet(o)
    <2> HIDE DEF others, e
    <2>1. others \in SUBSET ToSet(rs)
      BY DEF others
    <2>2. o1 \in Seq(ToSet(rs)) /\ IsInjective(o1)
      BY <1>2
    <2>3. IsWalk(rs, o1, others, rest)
      BY <1>5
    <2>4. LET z == rest[EnoughCalls(rs)]
          IN  /\ z.calls = << >> /\ z.ordered \in Seq(ToSet(rs)) /\ IsInjective(z.ordered)
              /\ Len(o1) \in Nat /\ Len(z.ordered) \in Nat /\ Len(o1) <= Len(z.ordered)
              /\ \A k \in 1..Len(o1) : z.ordered[k] = o1[k]
              /\ others \subseteq ToSet(z.ordered)
      BY <2>1, <2>2, <2>3, AppendTreesAppends
    <2>5. o = rest[EnoughCalls(rs)].ordered
      BY <1>5 DEF e
    <2> QED
      BY <2>4, <2>5
  <1>7. DOMAIN o = 1..Len(o) /\ DOMAIN o1 = 1..Len(o1) /\ \A k \in 1..Len(o) : o[k] \in ToSet(rs)
    BY <1>2, <1>6, LenProperties, ElementOfSeq
  <1>8. ToSet(o1) \subseteq ToSet(o)
    <2>1. \A k \in 1..Len(o1) : k \in 1..Len(o)
      BY <1>6
    <2> QED
      BY <1>6, <1>7, <2>1 DEF ToSet
  <1>9. ToSet(o) = ToSet(rs)
    <2>1. ToSet(o) \subseteq ToSet(rs)
      BY <1>7 DEF ToSet
    <2> QED
      BY <1>6, <1>8, <2>1
  <1>10. Len(o) = Len(rs)
    <2> DEFINE n == Len(o)
    <2>1. o \in [1..n -> ToSet(rs)] /\ n \in Nat
      BY <1>6, <1>7, SeqDef
    <2>2. \A r \in ToSet(rs) : \E k \in 1..n : o[k] = r
      BY <1>7, <1>9 DEF ToSet
    <2> HIDE DEF n
    <2>3. o \in Bijection(1..n, ToSet(rs))
      BY <1>6, <2>1, <2>2 DEF Bijection, Injection, Surjection
    <2>4. IsFiniteSet(1..n) /\ Cardinality(1..n) = n
      BY <2>1, FS_Interval
    <2>5. Cardinality(ToSet(rs)) = n
      BY <2>3, <2>4, FS_Bijection DEF ExistsBijection
    <2> QED
      BY <2>5, ListingTypes DEF n
  <1>11. \A k, m \in 1..Len(o) : o[k] = o[m] => k = m
    BY <1>6, <1>7 DEF IsInjective
  <1>12. Len(o1) \in 0..Len(o)
    BY <1>6
  <1> QED
    BY <1>3, <1>6, <1>7, <1>9, <1>10, <1>11, <1>12 DEF o, o1

\* However the documents hang together that a listing has, those edited and moved
\* meanwhile included, the order shown has each once, each tree of a root in one piece
\* under its root, siblings sorted, and then what is under no root
\* (adapter.go:140-206).
THEOREM ListingsAreShownByHierarchy == RequestSpec => []ShownByHierarchy
  <1>1. ASSUME DiscoveryInv PROVE ShownByHierarchy
    <2> SUFFICES ASSUME phase = "listed" PROVE ShownByHierarchy
      BY DEF ShownByHierarchy
    <2>1. IsListing(refs)
      <3>1. refs \in Seq(Refs)
        BY <1>1, DiscoveryTypes DEF DiscoveryInv
      <3>2. IsInjective([k \in DOMAIN refs |-> refs[k].id])
        BY <1>1 DEF DiscoveryInv, ListingOK
      <3> QED
        BY <3>1, <3>2 DEF IsListing, IDs
    <2> DEFINE R == ToSet(refs)
               o1 == appendTrees(refs, << >>, Roots(refs))
               o == orderDocumentRefsByHierarchy(refs)
               n == Len(o)
               a == Len(o1)
               isUnderRoot(k) == o[k] \in Beneath(refs, Roots(refs))
               parentOf(k) == IF HasListedParent(refs, o[k]) THEN o[k].parent ELSE None
    <2>2. /\ o \in Seq(R) /\ DOMAIN o = 1..n /\ n = Len(refs) /\ n \in Nat
          /\ ToSet(o) = R /\ \A k, m \in 1..n : o[k] = o[m] => k = m
      <3>1. Len(refs) \in Nat
        BY <2>1, ListingTypes
      <3> QED
        BY <2>1, <3>1, ShownOnce
    <2>3. a \in 0..n /\ (\A k \in 1..a : o[k] = o1[k]) /\ TreesOK(refs, o1, a, a)
      BY <2>1, ShownOnce
    <2> HIDE DEF o, o1, n, a
    <2>4. a \in Nat /\ 1..a \subseteq 1..n /\ \A k \in 1..n : o[k] \in R
      BY <2>2, <2>3, ElementOfSeq DEF n
    <2>5. \A k \in 1..n : isUnderRoot(k) <=> k <= a
      <3>1. \A r : r \in Beneath(refs, Roots(refs)) <=> \E k \in 1..a : o1[k] = r
        BY <2>1, <2>3, <2>4, TreesHaveAll
      <3>2. ASSUME NEW k \in 1..n, isUnderRoot(k) PROVE k <= a
        <4>1. PICK j \in 1..a : o1[j] = o[k]
          BY <3>1, <3>2
        <4>2. j \in 1..n /\ o[j] = o[k]
          BY <2>3, <2>4, <4>1
        <4>3. j = k
          BY <2>2, <4>2
        <4> QED
          BY <4>1, <4>3
      <3>3. ASSUME NEW k \in 1..n, k <= a PROVE isUnderRoot(k)
        <4>1. k \in 1..a /\ o1[k] = o[k]
          BY <2>3, <3>3
        <4> QED
          BY <3>1, <4>1
      <3> QED
        BY <3>2, <3>3
    \* What parentOf says.
    <2>6. ASSUME NEW k \in 1..n
          PROVE  /\ HasListedParent(refs, o[k]) <=> o[k] \notin Roots(refs)
                 /\ HasListedParent(refs, o[k]) => o[k].parent \in Ids
                 /\ \A p \in R : HasListedParent(refs, o[k]) /\ o[k].parent = p.id
                                   <=> o[k] \in Children(refs, p.id)
      <3>1. o[k] \in R
        BY <2>4
      <3>2. \A r \in R : r.id \in Ids
        BY <2>1, ListingTypes DEF Refs
      <3>3. HasListedParent(refs, o[k]) => o[k].parent \in Ids
        BY <2>1, <3>2, ListingTypes DEF HasListedParent
      <3>4. HasListedParent(refs, o[k]) <=> o[k] \notin Roots(refs)
        BY <3>1 DEF Roots
      <3> QED
        BY <2>1, <3>1, <3>3, <3>4, Families
    <2>7. \A r \in R : r.id \in Ids /\ r.id # None
      <3>1. None \notin Ids
        BY <1>1, DiscoveryTypes DEF DiscoveryInv
      <3> QED
        BY <2>1, <3>1, ListingTypes DEF Refs
    <2>8. \A k, m \in 1..n : k < m /\ isUnderRoot(m) => isUnderRoot(k)
      <3> HIDE DEF isUnderRoot
      <3> QED
        BY <2>3, <2>4, <2>5
    <2>9. ASSUME NEW p \in 1..n, NEW k \in 1..n, isUnderRoot(k), parentOf(k) = o[p].id
          PROVE  p < k /\ \A m \in (p + 1)..k : o[m] \in Beneath(refs, {o[p]})
      <3>1. k \in 1..a /\ o1[k] = o[k] /\ o[p] \in R
        BY <2>3, <2>4, <2>5, <2>9
      <3>2. HasListedParent(refs, o[k]) /\ o[k].parent = o[p].id
        BY <2>7, <2>9, <3>1
      <3>3. o[k] \in Children(refs, o[p].id) /\ o[k] \notin Roots(refs)
        BY <2>6, <3>1, <3>2
      <3>4. PICK q \in 1..a : /\ q < k /\ o1[k] \in Children(refs, o1[q].id)
                              /\ \A m \in (q + 1)..k : o1[m] \in Beneath(refs, {o1[q]})
        BY <2>3, <3>1, <3>3 DEF TreesOK
      <3>5. o1[q] = o[q] /\ q \in 1..n /\ o[q] \in R
        BY <2>3, <2>4, <3>4
      <3>6. o[q].id = o[p].id
        BY <2>1, <3>1, <3>3, <3>4, <3>5, Families
      <3>7. o[q] = o[p]
        BY <2>1, <3>1, <3>5, <3>6, ListingTypes
      <3>8. q = p
        BY <2>2, <3>5, <3>7
      <3>9. \A m \in (p + 1)..k : m \in 1..a /\ o1[m] = o[m]
        BY <2>3, <2>4, <3>1
      <3> QED
        BY <3>4, <3>5, <3>8, <3>9
    <2>10. ASSUME NEW k \in 1..n, NEW m \in 1..n, k < m, isUnderRoot(m), parentOf(k) = parentOf(m)
           PROVE  Before(refs, o[k], o[m])
      <3>1. k \in 1..a /\ m \in 1..a /\ o1[k] = o[k] /\ o1[m] = o[m] /\ o[k] \in R /\ o[m] \in R
        <4>1. m <= a
          BY <2>5, <2>10
        <4>2. k \in 1..a /\ m \in 1..a
          BY <2>2, <2>4, <2>10, <4>1
        <4> QED
          BY <2>3, <2>4, <4>2
      <3>2. None \notin Ids
        BY <1>1, DiscoveryTypes DEF DiscoveryInv
      <3>3. CASE HasListedParent(refs, o[k])
        <4>1. HasListedParent(refs, o[m]) /\ o[m].parent = o[k].parent
          BY <2>6, <2>10, <3>2, <3>3
        <4>2. PICK p \in R : p.id = o[k].parent
          BY <2>1, <3>3, ListingTypes DEF HasListedParent
        <4>3. o[k] \in Children(refs, p.id) /\ o[m] \in Children(refs, p.id)
          BY <2>6, <3>3, <4>1, <4>2
        <4>4. Siblings(refs, o1[k], o1[m])
          BY <3>1, <4>3 DEF Siblings
        <4> QED
          BY <2>3, <2>10, <3>1, <4>4 DEF TreesOK
      <3>4. CASE ~HasListedParent(refs, o[k])
        <4>1. ~HasListedParent(refs, o[m])
          BY <2>6, <2>10, <3>2, <3>4
        <4>2. o[k] \in Roots(refs) /\ o[m] \in Roots(refs)
          BY <2>6, <3>4, <4>1
        <4>3. Siblings(refs, o1[k], o1[m])
          BY <3>1, <4>2 DEF Siblings
        <4> QED
          BY <2>3, <2>10, <3>1, <4>3 DEF TreesOK
      <3> QED
        BY <3>3, <3>4
    <2> QED
      BY <2>2, <2>8, <2>9, <2>10 DEF ShownByHierarchy, o, n
  <1> QED
    BY <1>1, FoundAlways, PTL
=============================================================================
