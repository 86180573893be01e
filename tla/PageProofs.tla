------------------------------ MODULE PageProofs ------------------------------
(* What is proved of a page's document, for every value of the constants: it   *)
(* has what the page had when its edit time was read, unless the page has been *)
(* edited since; and what is written of it is all that is to be, in order.      *)
EXTENDS RequestProofs, NotionAdapter

-----------------------------------------------------------------------------
(* Documents.                                                              *)

\* What a path starts with.
Extends(a, path) == Len(path) <= Len(a) /\ \A k \in 1..Len(path) : a[k] = path[k]

\* The path to what is in a block of a document.
Own(doc, m) == Append(doc[m].above, doc[m].id)

\* A document has, at a path, the first d blocks of a list.
HasFirst(doc, path, ids, d) ==
  /\ \A m \in 1..Len(doc) : doc[m].above = path => \E k \in 1..d : ids[k] = doc[m].id
  /\ \A k \in 1..d : \E m \in 1..Len(doc) : doc[m].above = path /\ doc[m].id = ids[k]
  /\ \A m, n \in 1..Len(doc) : m < n /\ doc[m].above = path /\ doc[n].above = path =>
       \E k, l \in 1..d : k < l /\ ids[k] = doc[m].id /\ ids[l] = doc[n].id

\* It is what a call for a path returns: all is in the path, in preorder, and nothing
\* is there without the block it is in.
IsTrees(doc, path) ==
  /\ \A m \in 1..Len(doc) : Extends(doc[m].above, path)
  /\ Len(doc) > 0 => doc[1].above = path
  /\ \A m \in 1..(Len(doc) - 1) : Extends(Own(doc, m), doc[m + 1].above)
  /\ \A m \in 1..Len(doc) : Len(doc[m].above) > Len(path) =>
       \E n \in 1..Len(doc) : doc[n].above = path /\ doc[n].id = doc[m].above[Len(path) + 1]

\* It has all that is in its blocks, of the lists ks, where these are old and what
\* they are in is.
IsFull(doc, ks, old) ==
  \A m \in 1..Len(doc) :
    ToSet(Own(doc, m)) \subseteq old =>
      HasFirst(doc, Own(doc, m), ks[doc[m].id], Len(ks[doc[m].id]))

\* A longer path.
LEMMA AppendExtends ==
  ASSUME NEW path \in Seq(Parents), NEW i \in BlockIds
  PROVE  /\ Append(path, i) \in Seq(Parents) /\ Len(Append(path, i)) = Len(path) + 1
         /\ Len(path) \in Nat /\ Append(path, i)[Len(path) + 1] = i
         /\ Extends(Append(path, i), path) /\ Extends(path, path)
         /\ ToSet(Append(path, i)) = ToSet(path) \cup {i}
         /\ Last(Append(path, i)) = i /\ Append(path, i) # path /\ Append(path, i) # << >>
  <1>0. i \in Parents
    BY DEF Parents
  <1>1. /\ Append(path, i) \in Seq(Parents) /\ Len(Append(path, i)) = Len(path) + 1
        /\ Len(path) \in Nat /\ Append(path, i)[Len(path) + 1] = i
        /\ \A k \in 1..Len(path) : Append(path, i)[k] = path[k]
        /\ ToSet(Append(path, i)) = ToSet(path) \cup {i}
    BY <1>0, AppendAdds
  <1>2. Extends(Append(path, i), path) /\ Extends(path, path)
    BY <1>1 DEF Extends
  <1>3. Append(path, i) # << >>
    BY <1>0, AppendProperties
  <1> QED
    BY <1>1, <1>2, <1>3 DEF Last

\* What starts with a path.
LEMMA ExtendsTransitive ==
  ASSUME NEW a \in Seq(Parents), NEW b \in Seq(Parents), NEW path \in Seq(Parents),
         Extends(a, b), Extends(b, path)
  PROVE  Extends(a, path) /\ ToSet(path) \subseteq ToSet(a)
  <1>1. /\ Len(a) \in Nat /\ Len(b) \in Nat /\ Len(path) \in Nat
        /\ DOMAIN a = 1..Len(a) /\ DOMAIN path = 1..Len(path)
    BY LenProperties
  <1>2. \A k \in 1..Len(path) : k \in 1..Len(b) /\ k \in 1..Len(a)
    BY <1>1 DEF Extends
  <1>3. Len(path) <= Len(a)
    BY <1>1 DEF Extends
  <1>4. \A k \in 1..Len(path) : a[k] = path[k]
    BY <1>2 DEF Extends
  <1> QED
    BY <1>1, <1>2, <1>3, <1>4 DEF Extends, ToSet

\* What starts with a path and is no longer is it; what is longer starts with the
\* path and one more.
LEMMA ExtendsBy ==
  ASSUME NEW a \in Seq(Parents), NEW path \in Seq(Parents), Extends(a, path)
  PROVE  /\ Len(a) = Len(path) => a = path
         /\ Len(a) # Len(path) =>
              /\ Len(a) > Len(path)
              /\ \A i \in BlockIds : a[Len(path) + 1] = i => Extends(a, Append(path, i))
  <1>1. Len(a) \in Nat /\ Len(path) \in Nat
    BY LenProperties
  <1>2. Len(a) = Len(path) => a = path
    BY <1>1, SeqEqual DEF Extends
  <1>3. ASSUME Len(a) # Len(path) PROVE Len(a) > Len(path)
    BY <1>1, <1>3 DEF Extends
  <1>4. ASSUME Len(a) # Len(path), NEW i \in BlockIds, a[Len(path) + 1] = i
        PROVE  Extends(a, Append(path, i))
    <2>1. i \in Parents
      BY DEF Parents
    <2>2. /\ Len(Append(path, i)) = Len(path) + 1 /\ Append(path, i)[Len(path) + 1] = i
          /\ \A k \in 1..Len(path) : Append(path, i)[k] = path[k]
      BY <2>1, AppendProperties
    <2>3. \A k \in 1..(Len(path) + 1) : k \in 1..Len(path) \/ k = Len(path) + 1
      BY <1>1
    <2>4. \A k \in 1..Len(path) : a[k] = path[k]
      BY DEF Extends
    <2>5. Len(path) + 1 <= Len(a)
      BY <1>1, <1>3, <1>4
    <2> QED
      BY <1>4, <2>2, <2>3, <2>4, <2>5 DEF Extends
  <1> QED
    BY <1>2, <1>3, <1>4

\* An entry of a document.
LEMMA EntryTypes ==
  ASSUME NEW doc \in Seq(Entries), NEW m \in 1..Len(doc)
  PROVE  /\ doc[m].id \in BlockIds /\ doc[m].above \in Seq(Parents) /\ Len(doc[m].above) \in Nat
         /\ Own(doc, m) \in Seq(Parents) /\ Len(Own(doc, m)) = Len(doc[m].above) + 1
         /\ Own(doc, m)[Len(doc[m].above) + 1] = doc[m].id
         /\ Extends(Own(doc, m), doc[m].above)
  <1>1. doc[m] \in Entries
    BY ElementOfSeq
  <1>2. doc[m].id \in BlockIds /\ doc[m].above \in Seq(Parents)
    BY <1>1 DEF Entries
  <1> QED
    BY <1>2, AppendExtends DEF Own

\* A document that is in another, from one place on, and has all of its entries of a
\* path.
LEMMA HasFirstWithin ==
  ASSUME NEW doc, Len(doc) \in Nat, NEW part, Len(part) \in Nat, NEW off \in Nat,
         off + Len(part) <= Len(doc),
         \A m \in 1..Len(part) : doc[off + m] = part[m],
         NEW path, NEW ids, NEW d \in Nat,
         \A m \in 1..Len(doc) : doc[m].above = path => m - off \in 1..Len(part),
         HasFirst(part, path, ids, d)
  PROVE  HasFirst(doc, path, ids, d)
  <1>0. \A m \in 1..Len(part) : off + m \in 1..Len(doc)
    OBVIOUS
  <1>1. ASSUME NEW m \in 1..Len(doc), doc[m].above = path
        PROVE  m - off \in 1..Len(part) /\ doc[m] = part[m - off]
    <2>1. m - off \in 1..Len(part) /\ off + (m - off) = m
      BY <1>1
    <2> QED
      BY <2>1
  <1>2. ASSUME NEW m \in 1..Len(doc), doc[m].above = path
        PROVE  \E k \in 1..d : ids[k] = doc[m].id
    <2>1. PICK i \in 1..Len(part) : doc[m] = part[i]
      BY <1>1, <1>2
    <2>2. part[i].above = path
      BY <1>2, <2>1
    <2>3. \E k \in 1..d : ids[k] = part[i].id
      BY <2>2 DEF HasFirst
    <2> QED
      BY <2>1, <2>3
  <1>3. ASSUME NEW k \in 1..d
        PROVE  \E m \in 1..Len(doc) : doc[m].above = path /\ doc[m].id = ids[k]
    <2>1. PICK m \in 1..Len(part) : part[m].above = path /\ part[m].id = ids[k]
      BY DEF HasFirst
    <2>2. off + m \in 1..Len(doc) /\ doc[off + m] = part[m]
      BY <1>0
    <2> QED
      BY <2>1, <2>2
  <1>4. ASSUME NEW m \in 1..Len(doc), NEW n \in 1..Len(doc),
               m < n, doc[m].above = path, doc[n].above = path
        PROVE  \E k, l \in 1..d : k < l /\ ids[k] = doc[m].id /\ ids[l] = doc[n].id
    <2>1. PICK i \in 1..Len(part) : i = m - off /\ doc[m] = part[i]
      BY <1>1, <1>4
    <2>2. PICK j \in 1..Len(part) : j = n - off /\ doc[n] = part[j]
      BY <1>1, <1>4
    <2>3. i < j
      BY <1>4, <2>1, <2>2
    <2>4. part[i].above = path /\ part[j].above = path
      BY <1>4, <2>1, <2>2
    <2>5. \E k, l \in 1..d : k < l /\ ids[k] = part[i].id /\ ids[l] = part[j].id
      BY <2>3, <2>4 DEF HasFirst
    <2> QED
      BY <2>1, <2>2, <2>5
  <1> QED
    BY <1>2, <1>3, <1>4 DEF HasFirst

\* A document A, a block after it, and B, what is in the block.
LEMMA Joined ==
  ASSUME NEW A \in Seq(Entries), NEW B \in Seq(Entries), NEW e \in Entries
  PROVE  LET D == A \o <<e>> \o B IN
         /\ D \in Seq(Entries) /\ Len(D) = Len(A) + 1 + Len(B) /\ Len(A) \in Nat /\ Len(B) \in Nat
         /\ \A m \in 1..Len(A) : D[m] = A[m]
         /\ D[Len(A) + 1] = e
         /\ \A m \in 1..Len(B) : D[Len(A) + 1 + m] = B[m]
         /\ \A m \in 1..Len(D) : m \in 1..Len(A) \/ m = Len(A) + 1 \/ m - (Len(A) + 1) \in 1..Len(B)
  <1> DEFINE D == A \o <<e>> \o B
             C == A \o <<e>>
  <1>1. <<e>> \in Seq(Entries) /\ Len(<<e>>) = 1 /\ <<e>>[1] = e
    OBVIOUS
  <1>2. Len(A) \in Nat /\ Len(B) \in Nat
    BY LenProperties
  <1>3. /\ C \in Seq(Entries) /\ Len(C) = Len(A) + 1
        /\ \A m \in 1..(Len(A) + 1) : C[m] = IF m <= Len(A) THEN A[m] ELSE <<e>>[m - Len(A)]
    BY <1>1, ConcatProperties
  <1>4. (\A m \in 1..Len(A) : C[m] = A[m]) /\ C[Len(A) + 1] = e
    BY <1>1, <1>2, <1>3
  <1> HIDE DEF C
  <1>3a. C \in Seq(Entries)
    BY <1>3
  <1>5. /\ C \o B \in Seq(Entries) /\ Len(C \o B) = Len(C) + Len(B)
        /\ \A m \in 1..(Len(C) + Len(B)) : (C \o B)[m] = IF m <= Len(C) THEN C[m] ELSE B[m - Len(C)]
    BY <1>3a, ConcatProperties
  <1>6. /\ \A m \in 1..Len(A) : (C \o B)[m] = C[m]
        /\ (C \o B)[Len(A) + 1] = C[Len(A) + 1]
        /\ \A m \in 1..Len(B) : (C \o B)[Len(A) + 1 + m] = B[m]
    BY <1>2, <1>3, <1>5
  <1>7. D = C \o B
    BY DEF C
  <1>8. Len(D) = Len(A) + 1 + Len(B)
    BY <1>3, <1>5, <1>7
  <1>9. \A m \in 1..Len(D) : m \in 1..Len(A) \/ m = Len(A) + 1 \/ m - (Len(A) + 1) \in 1..Len(B)
    BY <1>2, <1>8
  <1> QED
    BY <1>2, <1>4, <1>5, <1>6, <1>7, <1>8, <1>9

\* Before the d-th block of a list has been read, nothing that is in it is there.
LEMMA NoneBelow ==
  ASSUME NEW A \in Seq(Entries), NEW path \in Seq(Parents), NEW i \in BlockIds,
         NEW ids \in Seq(BlockIds), IsInjective(ids), NEW d \in 1..Len(ids), ids[d] = i,
         IsTrees(A, path), HasFirst(A, path, ids, d - 1)
  PROVE  \A m \in 1..Len(A) : /\ ~Extends(A[m].above, Append(path, i))
                              /\ ~(A[m].above = path /\ A[m].id = i)
  <1>1. Len(ids) \in Nat /\ DOMAIN ids = 1..Len(ids)
    BY LenProperties
  <1>2. ASSUME NEW m \in 1..Len(A), A[m].above = path, A[m].id = i PROVE FALSE
    <2>1. PICK k \in 1..(d - 1) : ids[k] = i
      <3>1. \A n \in 1..Len(A) : A[n].above = path => \E k \in 1..(d - 1) : ids[k] = A[n].id
        BY DEF HasFirst
      <3> QED
        BY <1>2, <3>1
    <2>2. k \in DOMAIN ids /\ d \in DOMAIN ids /\ k # d
      <3>1. d \in Nat /\ 1 <= d /\ d <= Len(ids)
        BY <1>1
      <3>2. k \in 1..Len(ids) /\ d \in 1..Len(ids) /\ k # d
        BY <1>1, <3>1
      <3> QED
        BY <1>1, <3>2
    <2>3. ids[k] = ids[d]
      BY <2>1
    <2> QED
      BY <2>2, <2>3, Zenon DEF IsInjective
  <1>3. ASSUME NEW m \in 1..Len(A), Extends(A[m].above, Append(path, i)) PROVE FALSE
    <2>1. /\ Len(A[m].above) \in Nat /\ Len(path) \in Nat /\ Len(Append(path, i)) = Len(path) + 1
          /\ Append(path, i)[Len(path) + 1] = i
      BY EntryTypes, AppendExtends
    <2>2. Len(A[m].above) > Len(path) /\ A[m].above[Len(path) + 1] = i
      BY <1>3, <2>1 DEF Extends
    <2>3. PICK n \in 1..Len(A) : A[n].above = path /\ A[n].id = A[m].above[Len(path) + 1]
      BY <2>2 DEF IsTrees
    <2> QED
      BY <1>2, <2>2, <2>3
  <1> QED
    BY <1>2, <1>3

\* A block with what is in it, after the blocks before it, is a forest.
LEMMA JoinedIsTrees ==
  ASSUME NEW A \in Seq(Entries), NEW B \in Seq(Entries),
         NEW path \in Seq(Parents), NEW i \in BlockIds,
         IsTrees(A, path), IsTrees(B, Append(path, i))
  PROVE  IsTrees(A \o <<Entry(path, i)>> \o B, path)
  <1> DEFINE e == Entry(path, i)
             D == A \o <<e>> \o B
             a == Len(A)
  <1>1. e \in Entries /\ e.id = i /\ e.above = path
    BY DEF Entry, Entries
  <1>2. /\ D \in Seq(Entries) /\ Len(D) = a + 1 + Len(B) /\ a \in Nat /\ Len(B) \in Nat
        /\ \A m \in 1..a : D[m] = A[m]
        /\ D[a + 1] = e
        /\ \A m \in 1..Len(B) : D[a + 1 + m] = B[m]
        /\ \A m \in 1..Len(D) : m \in 1..a \/ m = a + 1 \/ m - (a + 1) \in 1..Len(B)
    <2> HIDE DEF e
    <2> QED
      BY <1>1, Joined
  <1>3. /\ Append(path, i) \in Seq(Parents) /\ Len(Append(path, i)) = Len(path) + 1
        /\ Len(path) \in Nat /\ Append(path, i)[Len(path) + 1] = i
        /\ Extends(Append(path, i), path) /\ Extends(path, path)
    BY AppendExtends
  <1> HIDE DEF e, D, a
  <1>4. ASSUME NEW m \in 1..Len(D)
        PROVE  \/ m \in 1..a /\ D[m] = A[m]
               \/ m = a + 1 /\ D[m] = e
               \/ \E k \in 1..Len(B) : m = a + 1 + k /\ D[m] = B[k]
    <2>1. CASE m \in 1..a
      BY <1>2, <2>1
    <2>2. CASE m = a + 1
      BY <1>2, <2>2
    <2>3. CASE m - (a + 1) \in 1..Len(B)
      <3>1. m = a + 1 + (m - (a + 1))
        BY <1>2
      <3> QED
        BY <1>2, <2>3, <3>1
    <2> QED
      BY <1>2, <2>1, <2>2, <2>3
  <1>5. ASSUME NEW m \in 1..Len(D) PROVE Extends(D[m].above, path)
    <2>1. CASE m \in 1..a /\ D[m] = A[m]
      BY <2>1 DEF IsTrees, a
    <2>2. CASE D[m] = e
      BY <1>1, <1>3, <2>2
    <2>3. ASSUME NEW k \in 1..Len(B), D[m] = B[k] PROVE Extends(D[m].above, path)
      <3>1. Extends(B[k].above, Append(path, i)) /\ B[k].above \in Seq(Parents)
        BY EntryTypes DEF IsTrees
      <3> QED
        BY <1>3, <2>3, <3>1, ExtendsTransitive
    <2> QED
      BY <1>4, <2>1, <2>2, <2>3
  <1>6. D[1].above = path
    <2>1. CASE a = 0
      BY <1>1, <1>2, <2>1
    <2>2. CASE a > 0
      <3>1. 1 \in 1..a
        BY <1>2, <2>2
      <3> QED
        BY <1>2, <2>2, <3>1 DEF IsTrees, a
    <2> QED
      BY <1>2, <2>1, <2>2
  <1>7. ASSUME NEW m \in 1..(Len(D) - 1) PROVE Extends(Own(D, m), D[m + 1].above)
    <2>0. m \in 1..Len(D) /\ m + 1 \in 1..Len(D)
      BY <1>2
    <2>1. CASE m < a
      <3>1. m \in 1..(a - 1) /\ m \in 1..a /\ m + 1 \in 1..a
        BY <1>2, <2>1
      <3>2. D[m] = A[m] /\ D[m + 1] = A[m + 1]
        BY <1>2, <3>1
      <3> QED
        BY <3>1, <3>2 DEF IsTrees, Own, a
    <2>2. CASE m = a
      <3>1. D[m + 1].above = path /\ D[m].above \in Seq(Parents) /\ Own(D, m) \in Seq(Parents)
            /\ Extends(Own(D, m), D[m].above)
        BY <1>1, <1>2, <2>0, <2>2, EntryTypes
      <3>2. Extends(D[m].above, path)
        BY <1>5, <2>0
      <3> QED
        BY <3>1, <3>2, ExtendsTransitive
    <2>3. CASE m = a + 1
      <3>1. 1 \in 1..Len(B) /\ D[m + 1] = B[1] /\ D[m] = e
        BY <1>2, <2>3
      <3>2. B[1].above = Append(path, i)
        BY <3>1 DEF IsTrees
      <3>2a. Own(D, m) = Append(path, i)
        BY <1>1, <3>1 DEF Own
      <3>3. Extends(Append(path, i), Append(path, i))
        BY <1>3 DEF Extends
      <3> QED
        BY <3>1, <3>2, <3>2a, <3>3
    <2>4. CASE m > a + 1
      <3>1. PICK k : k = m - (a + 1)
        OBVIOUS
      <3>2. k \in 1..(Len(B) - 1) /\ k \in 1..Len(B) /\ k + 1 \in 1..Len(B)
            /\ m = a + 1 + k /\ m + 1 = a + 1 + (k + 1)
        BY <1>2, <2>4, <3>1
      <3>3. D[m] = B[k] /\ D[m + 1] = B[k + 1]
        BY <1>2, <3>2
      <3> QED
        BY <3>2, <3>3 DEF IsTrees, Own
    <2>5. m < a \/ m = a \/ m = a + 1 \/ m > a + 1
      BY <1>2
    <2> QED
      BY <2>1, <2>2, <2>3, <2>4, <2>5
  <1>8. ASSUME NEW m \in 1..Len(D), Len(D[m].above) > Len(path)
        PROVE  \E n \in 1..Len(D) : D[n].above = path /\ D[n].id = D[m].above[Len(path) + 1]
    <2>1. CASE m \in 1..a /\ D[m] = A[m]
      <3>1. PICK n \in 1..a : A[n].above = path /\ A[n].id = A[m].above[Len(path) + 1]
        BY <1>8, <2>1 DEF IsTrees, a
      <3>2. n \in 1..Len(D) /\ D[n] = A[n]
        BY <1>2
      <3> QED
        BY <2>1, <3>1, <3>2
    <2>2. CASE D[m] = e
      BY <1>1, <1>3, <1>8, <2>2
    <2>3. ASSUME NEW k \in 1..Len(B), D[m] = B[k]
          PROVE  D[a + 1].id = D[m].above[Len(path) + 1]
      <3>1. Extends(B[k].above, Append(path, i))
        BY DEF IsTrees
      <3>2. Len(path) + 1 \in 1..Len(Append(path, i))
        BY <1>3
      <3>3. B[k].above[Len(path) + 1] = i
        BY <1>3, <3>1, <3>2 DEF Extends
      <3>4. D[a + 1].id = i
        BY <1>1, <1>2
      <3> QED
        BY <2>3, <3>3, <3>4
    <2>4. a + 1 \in 1..Len(D) /\ D[a + 1].above = path
      BY <1>1, <1>2
    <2> QED
      BY <1>4, <2>1, <2>2, <2>3, <2>4
  <1> QED
    BY <1>5, <1>6, <1>7, <1>8 DEF IsTrees, D, e

\* It has all of the old lists, when its parts have: the part before has none of the
\* block, if the list that has the block is old.
LEMMA JoinedIsFull ==
  ASSUME NEW A \in Seq(Entries), NEW B \in Seq(Entries),
         NEW path \in Seq(Parents), NEW i \in BlockIds,
         IsTrees(A, path), IsTrees(B, Append(path, i)),
         NEW ks \in [Parents -> Seq(BlockIds)], NEW old,
         IsFull(A, ks, old), IsFull(B, ks, old),
         ToSet(path) \subseteq old =>
           \A m \in 1..Len(A) : /\ ~Extends(A[m].above, Append(path, i))
                                /\ ~(A[m].above = path /\ A[m].id = i),
         ToSet(Append(path, i)) \subseteq old =>
           HasFirst(B, Append(path, i), ks[i], Len(ks[i]))
  PROVE  IsFull(A \o <<Entry(path, i)>> \o B, ks, old)
  <1> DEFINE e == Entry(path, i)
             D == A \o <<e>> \o B
             a == Len(A)
             Q == Append(path, i)
  <1>1. e \in Entries /\ e.id = i /\ e.above = path
    BY DEF Entry, Entries
  <1>2. /\ D \in Seq(Entries) /\ Len(D) = a + 1 + Len(B) /\ a \in Nat /\ Len(B) \in Nat
        /\ \A m \in 1..a : D[m] = A[m]
        /\ D[a + 1] = e
        /\ \A m \in 1..Len(B) : D[a + 1 + m] = B[m]
        /\ \A m \in 1..Len(D) : m \in 1..a \/ m = a + 1 \/ m - (a + 1) \in 1..Len(B)
    <2> HIDE DEF e
    <2> QED
      BY <1>1, Joined
  <1>3. /\ Q \in Seq(Parents) /\ Len(Q) = Len(path) + 1 /\ Len(path) \in Nat
        /\ Q[Len(path) + 1] = i /\ Extends(Q, path) /\ Q # path
    BY AppendExtends
  <1>3a. Extends(Q, Q)
    BY <1>3 DEF Extends
  <1>3b. \A p \in Parents : Len(ks[p]) \in Nat
    BY LenProperties
  <1>3c. i \in Parents
    BY DEF Parents
  <1> HIDE DEF e, D, a, Q
  <1>4. ASSUME NEW q \in Seq(Parents), Extends(q, Q), ToSet(path) \subseteq old,
               NEW ids, NEW d \in Nat, HasFirst(B, q, ids, d)
        PROVE  HasFirst(D, q, ids, d)
    <2>1. q # path
      <3>1. Len(q) >= Len(path) + 1
        BY <1>3, <1>4 DEF Extends
      <3> QED
        BY <1>3, <3>1
    <2>2. ASSUME NEW m \in 1..Len(D), D[m].above = q PROVE m - (a + 1) \in 1..Len(B)
      <3>1. m # a + 1
        BY <1>1, <1>2, <2>1, <2>2
      <3>2. m \notin 1..a
        BY <1>2, <1>4, <2>2 DEF Q, a
      <3> QED
        BY <1>2, <3>1, <3>2
    <2>3. Len(D) \in Nat /\ a + 1 \in Nat /\ a + 1 + Len(B) <= Len(D)
      BY <1>2
    <2> QED
      BY <1>2, <1>4, <2>2, <2>3, HasFirstWithin
  <1>5. ASSUME NEW m \in 1..Len(D), ToSet(Own(D, m)) \subseteq old
        PROVE  HasFirst(D, Own(D, m), ks[D[m].id], Len(ks[D[m].id]))
    <2>1. /\ D[m].id \in Parents /\ D[m].above \in Seq(Parents) /\ Len(D[m].above) \in Nat
          /\ Own(D, m) \in Seq(Parents) /\ Len(Own(D, m)) = Len(D[m].above) + 1
          /\ Own(D, m)[Len(D[m].above) + 1] = D[m].id
          /\ Extends(Own(D, m), D[m].above)
      BY <1>2, EntryTypes DEF Parents
    <2>1a. Len(ks[D[m].id]) \in Nat
      BY <1>3b, <2>1
    <2>2. CASE m \in 1..a
      <3>1. D[m] = A[m] /\ Own(D, m) = Own(A, m) /\ Extends(A[m].above, path)
        BY <1>2, <2>2 DEF Own, IsTrees, a
      <3>2. Extends(Own(D, m), path) /\ ToSet(path) \subseteq old
        BY <1>5, <2>1, <3>1, ExtendsTransitive
      <3>3. HasFirst(A, Own(D, m), ks[D[m].id], Len(ks[D[m].id]))
        BY <1>5, <2>2, <3>1 DEF IsFull, a
      <3>4. ~Extends(Own(D, m), Q)
        <4> SUFFICES ASSUME Extends(Own(D, m), Q) PROVE FALSE
          OBVIOUS
        <4>1. CASE Len(D[m].above) = Len(path)
          <5>1. D[m].above = path
            BY <2>1, <3>1, <4>1, ExtendsBy
          <5>2. Own(D, m)[Len(path) + 1] = i
            BY <1>3 DEF Extends
          <5>3. D[m].id = i
            BY <2>1, <5>1, <5>2
          <5> QED
            BY <2>2, <3>1, <3>2, <5>1, <5>3 DEF a
        <4>2. CASE Len(D[m].above) # Len(path)
          <5>0. Len(D[m].above) > Len(path)
            BY <2>1, <3>1, <4>2, ExtendsBy
          <5>1. Len(path) + 1 \in 1..Len(D[m].above)
            <6>1. Len(path) \in Nat /\ Len(D[m].above) \in Nat
              BY <1>3, <2>1
            <6> QED
              BY <5>0, <6>1
          <5>2. Own(D, m)[Len(path) + 1] = i
            BY <1>3 DEF Extends
          <5>3. D[m].above[Len(path) + 1] = i
            BY <2>1, <5>1, <5>2 DEF Extends
          <5>4. Extends(D[m].above, Q)
            BY <2>1, <3>1, <4>2, <5>3, ExtendsBy DEF Q
          <5> QED
            BY <2>2, <3>1, <3>2, <5>4 DEF a, Q
        <4> QED
          BY <4>1, <4>2
      <3>5. Own(D, m) # path
        BY <2>1, <3>1, <1>3 DEF Extends
      <3>6. ASSUME NEW n \in 1..Len(D), D[n].above = Own(D, m) PROVE n - 0 \in 1..a
        <4>1. n # a + 1
          BY <1>1, <1>2, <3>5, <3>6
        <4>2. ASSUME n - (a + 1) \in 1..Len(B) PROVE FALSE
          <5>1. PICK k \in 1..Len(B) : n = a + 1 + k
            BY <1>2, <4>2
          <5>2. D[n] = B[k] /\ Extends(B[k].above, Q)
            BY <1>2, <5>1 DEF IsTrees, Q
          <5> QED
            BY <3>4, <3>6, <5>2
        <4>3. n \in 1..a
          BY <1>2, <4>1, <4>2
        <4> QED
          BY <1>2, <4>3
      <3>7. Len(D) \in Nat /\ a \in Nat /\ 0 \in Nat /\ 0 + a <= Len(D)
            /\ \A n \in 1..a : D[0 + n] = A[n]
        BY <1>2
      <3> QED
        BY <2>1a, <3>3, <3>6, <3>7, HasFirstWithin DEF a
    <2>3. CASE m = a + 1
      <3>1. D[m].id = i /\ Own(D, m) = Q /\ Len(ks[i]) \in Nat
        BY <1>1, <1>2, <1>3b, <1>3c, <2>3 DEF Own, Q
      <3>2. HasFirst(B, Q, ks[i], Len(ks[i]))
        BY <1>5, <3>1 DEF Q
      <3>3. ToSet(path) \subseteq old
        BY <1>3, <1>3a, <1>5, <3>1, ExtendsTransitive
      <3> QED
        BY <1>3, <1>3a, <1>4, <3>1, <3>2, <3>3
    <2>4. CASE m - (a + 1) \in 1..Len(B)
      <3>1. PICK k \in 1..Len(B) : m = a + 1 + k
        BY <1>2, <2>4
      <3>2. D[m] = B[k] /\ Own(D, m) = Own(B, k) /\ Extends(D[m].above, Q)
        BY <1>2, <3>1 DEF Own, IsTrees, Q
      <3>3. HasFirst(B, Own(D, m), ks[D[m].id], Len(ks[D[m].id]))
        BY <1>5, <3>2 DEF IsFull
      <3>4. Extends(Own(D, m), Q)
        BY <1>3, <2>1, <3>2, ExtendsTransitive
      <3>5. ToSet(path) \subseteq old
        <4>1. ToSet(Q) \subseteq ToSet(Own(D, m)) /\ ToSet(path) \subseteq ToSet(Q)
          BY <1>3, <1>3a, <2>1, <3>4, ExtendsTransitive
        <4> QED
          BY <1>5, <4>1
      <3> QED
        BY <1>4, <2>1, <2>1a, <3>3, <3>4, <3>5
    <2> QED
      BY <1>2, <2>2, <2>3, <2>4
  <1> QED
    BY <1>5 DEF IsFull, D, e

\* It has one more block of the list it is from.
LEMMA JoinedHasNext ==
  ASSUME NEW A \in Seq(Entries), NEW B \in Seq(Entries),
         NEW path \in Seq(Parents), NEW i \in BlockIds,
         IsTrees(B, Append(path, i)),
         NEW ids \in Seq(BlockIds), NEW d \in 1..Len(ids), ids[d] = i,
         HasFirst(A, path, ids, d - 1)
  PROVE  HasFirst(A \o <<Entry(path, i)>> \o B, path, ids, d)
  <1> DEFINE e == Entry(path, i)
             D == A \o <<e>> \o B
             a == Len(A)
  <1>1. e \in Entries /\ e.id = i /\ e.above = path
    BY DEF Entry, Entries
  <1>2. /\ D \in Seq(Entries) /\ Len(D) = a + 1 + Len(B) /\ a \in Nat /\ Len(B) \in Nat
        /\ \A m \in 1..a : D[m] = A[m]
        /\ D[a + 1] = e
        /\ \A m \in 1..Len(B) : D[a + 1 + m] = B[m]
        /\ \A m \in 1..Len(D) : m \in 1..a \/ m = a + 1 \/ m - (a + 1) \in 1..Len(B)
    <2> HIDE DEF e
    <2> QED
      BY <1>1, Joined
  <1>3. Len(Append(path, i)) = Len(path) + 1 /\ Len(path) \in Nat
    BY AppendExtends
  <1>4. Len(ids) \in Nat /\ d \in Nat /\ 1..(d - 1) \subseteq 1..d /\ d \in 1..d
    BY LenProperties
  <1> HIDE DEF e, D, a
  <1>5. ASSUME NEW m \in 1..Len(D), D[m].above = path
        PROVE  (m \in 1..a /\ D[m] = A[m] /\ A[m].above = path) \/ (m = a + 1 /\ D[m] = e)
    <2>1. ASSUME m - (a + 1) \in 1..Len(B) PROVE FALSE
      <3>1. PICK k \in 1..Len(B) : m = a + 1 + k
        BY <1>2, <2>1
      <3>2. D[m] = B[k] /\ Extends(B[k].above, Append(path, i))
        BY <1>2, <3>1 DEF IsTrees
      <3> QED
        BY <1>3, <1>5, <3>2 DEF Extends
    <2> QED
      BY <1>2, <1>5, <2>1
  <1>6. ASSUME NEW m \in 1..a, A[m].above = path PROVE \E k \in 1..(d - 1) : ids[k] = A[m].id
    BY <1>6 DEF HasFirst, a
  <1>7. ASSUME NEW m \in 1..Len(D), D[m].above = path PROVE \E k \in 1..d : ids[k] = D[m].id
    <2>1. CASE m \in 1..a /\ D[m] = A[m] /\ A[m].above = path
      BY <1>4, <1>6, <2>1
    <2>2. CASE D[m] = e
      BY <1>1, <1>4, <2>2
    <2> QED
      BY <1>5, <1>7, <2>1, <2>2
  <1>8. ASSUME NEW k \in 1..d PROVE \E m \in 1..Len(D) : D[m].above = path /\ D[m].id = ids[k]
    <2>1. CASE k \in 1..(d - 1)
      <3>1. PICK m \in 1..a : A[m].above = path /\ A[m].id = ids[k]
        BY <2>1 DEF HasFirst, a
      <3>2. m \in 1..Len(D) /\ D[m] = A[m]
        BY <1>2
      <3> QED
        BY <3>1, <3>2
    <2>2. CASE k = d
      <3>1. a + 1 \in 1..Len(D)
        BY <1>2
      <3> QED
        BY <1>1, <1>2, <2>2, <3>1
    <2>3. k \in 1..(d - 1) \/ k = d
      BY <1>4
    <2> QED
      BY <2>1, <2>2, <2>3
  <1>9. ASSUME NEW m \in 1..Len(D), NEW n \in 1..Len(D),
               m < n, D[m].above = path, D[n].above = path
        PROVE  \E k, l \in 1..d : k < l /\ ids[k] = D[m].id /\ ids[l] = D[n].id
    <2>1. m \in 1..a /\ D[m] = A[m] /\ A[m].above = path
      <3>2. ASSUME m = a + 1 PROVE FALSE
        <4>1. n > a + 1
          BY <1>2, <1>9, <3>2
        <4> QED
          BY <1>2, <1>5, <1>9, <4>1
      <3> QED
        BY <1>5, <1>9, <3>2
    <2>2. CASE n \in 1..a /\ D[n] = A[n] /\ A[n].above = path
      <3>1. \E k, l \in 1..(d - 1) : k < l /\ ids[k] = A[m].id /\ ids[l] = A[n].id
        BY <1>9, <2>1, <2>2 DEF HasFirst, a
      <3> QED
        BY <1>4, <2>1, <2>2, <3>1
    <2>3. CASE D[n] = e
      <3>1. PICK k \in 1..(d - 1) : ids[k] = A[m].id
        BY <1>6, <2>1
      <3>2. k \in 1..d /\ k < d
        BY <1>4
      <3> QED
        BY <1>1, <1>4, <2>1, <2>3, <3>1, <3>2
    <2> QED
      BY <1>5, <1>9, <2>2, <2>3
  <1> QED
    BY <1>7, <1>8, <1>9 DEF HasFirst, D, e

-----------------------------------------------------------------------------
(* Calls.                                                                  *)

\* The first d blocks of a list have been looked at, the last of them is being read
\* if it is the child, and those of the answer come next.
HasRead(c, child, ks, old, d) ==
  LET ids == ks[Last(c.path)]
      l == Len(c.rest)
  IN  /\ d + l <= Len(ids)
      /\ ~c.answered => d = 0
      /\ child # None => d > 0 /\ ids[d] = child
      /\ HasFirst(c.got, c.path, ids, IF child = None THEN d ELSE d - 1)
      /\ \A k \in 1..l : /\ c.rest[k].id = ids[d + k]
                         /\ ids[d + k] \in old => c.rest[k].hasChildren = (ks[ids[d + k]] # << >>)
      /\ c.next = None /\ c.answered => d + l = Len(ids)
      /\ c.next # None => d + l + 1 <= Len(ids) /\ c.next = ids[d + l + 1]

\* A call, for lists ks of which the old ones have not changed since the edit time
\* was read.
CallOK(c, child, ks, old) ==
  /\ IsTrees(c.got, c.path)
  /\ IsFull(c.got, ks, old)
  /\ ~c.answered => c.rest = << >> /\ c.next = None /\ child = None
  /\ ToSet(c.path) \subseteq old =>
       \E d \in 0..Len(ks[Last(c.path)]) : HasRead(c, child, ks, old, d)

\* The types of a call.
LEMMA CallTypes ==
  ASSUME NEW c \in Calls, NEW ks \in [Parents -> Seq(BlockIds)]
  PROVE  /\ c.path \in Seq(Parents) /\ c.path # << >> /\ Last(c.path) \in ToSet(c.path)
         /\ Last(c.path) \in Parents /\ ks[Last(c.path)] \in Seq(BlockIds)
         /\ Len(ks[Last(c.path)]) \in Nat /\ DOMAIN ks[Last(c.path)] = 1..Len(ks[Last(c.path)])
         /\ c.answered \in BOOLEAN /\ c.rest \in Seq(Results) /\ Len(c.rest) \in Nat
         /\ c.next \in BlockIds \cup {None} /\ c.got \in Seq(Entries)
  <1>1. /\ c.path \in Seq(Parents) /\ c.path # << >>
        /\ c.answered \in BOOLEAN /\ c.rest \in Seq(Results)
        /\ c.next \in BlockIds \cup {None} /\ c.got \in Seq(Entries)
    BY DEF Calls
  <1>2. Len(c.path) \in Nat \ {0} /\ DOMAIN c.path = 1..Len(c.path)
    BY <1>1, EmptySeq, LenProperties
  <1>3. Last(c.path) \in ToSet(c.path) /\ Last(c.path) \in Parents
    <2>1. Len(c.path) \in 1..Len(c.path)
      BY <1>2
    <2>2. c.path[Len(c.path)] \in Parents
      BY <1>1, <2>1, ElementOfSeq
    <2> QED
      BY <1>2, <2>1, <2>2 DEF Last, ToSet
  <1>4. ks[Last(c.path)] \in Seq(BlockIds)
    BY <1>3
  <1>5. Len(ks[Last(c.path)]) \in Nat /\ DOMAIN ks[Last(c.path)] = 1..Len(ks[Last(c.path)])
    BY <1>4, LenProperties
  <1>6. Len(c.rest) \in Nat
    BY <1>1, LenProperties
  <1> QED
    BY <1>1, <1>3, <1>4, <1>5, <1>6

\* No block is None.
LEMMA NoneIsNoBlock == None \notin BlockIds
  BY PageAssumption DEF BlockIds

\* A call that begins.
LEMMA NewCall ==
  ASSUME NEW path \in Seq(Parents), path # << >>, NEW ks \in [Parents -> Seq(BlockIds)], NEW old
  PROVE  Call(path) \in Calls /\ CallOK(Call(path), None, ks, old)
  <1> DEFINE c == Call(path)
  <1>1. /\ c.path = path /\ c.answered = FALSE /\ c.rest = << >> /\ c.next = None
        /\ c.got = << >>
    BY DEF Call
  <1>2. << >> \in Seq(Results) /\ << >> \in Seq(Entries) /\ Len(<< >>) = 0
    BY EmptySeq
  <1>3. c \in Calls
    BY <1>2 DEF Calls, Call
  <1> HIDE DEF c
  <1>4. Len(ks[Last(c.path)]) \in Nat
    BY <1>3, CallTypes
  <1>5. HasFirst(c.got, c.path, ks[Last(c.path)], 0)
    BY <1>1, <1>2 DEF HasFirst
  <1>6. HasRead(c, None, ks, old, 0)
    BY <1>1, <1>2, <1>4, <1>5 DEF HasRead
  <1>7. 0 \in 0..Len(ks[Last(c.path)])
    BY <1>4
  <1>8. IsTrees(c.got, c.path) /\ IsFull(c.got, ks, old)
    BY <1>1, <1>2 DEF IsTrees, IsFull
  <1>9. CallOK(c, None, ks, old)
    BY <1>1, <1>6, <1>7, <1>8 DEF CallOK
  <1> QED
    BY <1>3, <1>9 DEF c

\* A call whose lists change, if those that are still old do not.
LEMMA OlderCall ==
  ASSUME NEW c \in Calls, NEW child, NEW ks \in [Parents -> Seq(BlockIds)], NEW old,
         CallOK(c, child, ks, old),
         NEW ks2 \in [Parents -> Seq(BlockIds)], NEW old2 \in SUBSET old,
         \A p \in Parents : p \in old2 => ks2[p] = ks[p]
  PROVE  CallOK(c, child, ks2, old2)
  <1>1. /\ c.path \in Seq(Parents) /\ Last(c.path) \in ToSet(c.path) /\ Last(c.path) \in Parents
        /\ c.got \in Seq(Entries) /\ Len(c.rest) \in Nat
        /\ ks[Last(c.path)] \in Seq(BlockIds) /\ Len(ks[Last(c.path)]) \in Nat
    BY CallTypes
  <1>2. IsFull(c.got, ks2, old2)
    <2> SUFFICES ASSUME NEW m \in 1..Len(c.got), ToSet(Own(c.got, m)) \subseteq old2
                 PROVE  HasFirst(c.got, Own(c.got, m), ks2[c.got[m].id], Len(ks2[c.got[m].id]))
      BY DEF IsFull
    <2>1. c.got[m].id \in BlockIds /\ c.got[m].above \in Seq(Parents)
      BY <1>1, EntryTypes
    <2>2. c.got[m].id \in Parents /\ c.got[m].id \in ToSet(Own(c.got, m))
      <3>1. ToSet(Own(c.got, m)) = ToSet(c.got[m].above) \cup {c.got[m].id}
        BY <2>1, AppendExtends DEF Own
      <3> QED
        BY <2>1, <3>1 DEF Parents
    <2>3. ks2[c.got[m].id] = ks[c.got[m].id]
      BY <2>2
    <2>4. ToSet(Own(c.got, m)) \subseteq old
      OBVIOUS
    <2> QED
      BY <2>3, <2>4 DEF CallOK, IsFull
  <1>3. ASSUME ToSet(c.path) \subseteq old2
        PROVE  \E d \in 0..Len(ks2[Last(c.path)]) : HasRead(c, child, ks2, old2, d)
    <2> DEFINE ids == ks[Last(c.path)]
    <2>1. ks2[Last(c.path)] = ids /\ ToSet(c.path) \subseteq old
      BY <1>1, <1>3
    <2>2. PICK d \in 0..Len(ids) : HasRead(c, child, ks, old, d)
      BY <2>1 DEF CallOK
    <2>3. ASSUME NEW k \in 1..Len(c.rest)
          PROVE  /\ c.rest[k].id = ids[d + k]
                 /\ ids[d + k] \in old2 => c.rest[k].hasChildren = (ks2[ids[d + k]] # << >>)
      <3>1. /\ c.rest[k].id = ids[d + k] /\ d + Len(c.rest) <= Len(ids)
            /\ ids[d + k] \in old => c.rest[k].hasChildren = (ks[ids[d + k]] # << >>)
        BY <2>2 DEF HasRead
      <3>2. d + k \in 1..Len(ids)
        BY <1>1, <3>1
      <3>3. ids[d + k] \in Parents
        BY <1>1, <3>2, ElementOfSeq DEF Parents
      <3> QED
        BY <3>1, <3>3
    <2>4. HasRead(c, child, ks2, old2, d)
      <3> HIDE DEF ids
      <3> QED
        BY <2>1, <2>2, <2>3 DEF HasRead, ids
    <2> QED
      BY <2>1, <2>4
  <1> QED
    BY <1>2, <1>3 DEF CallOK

\* A call that gets an answer: it goes on from the block that the cursor names.
LEMMA AnsweredCall ==
  ASSUME kids \in [Parents -> Seq(BlockIds)], \A p \in Parents : IsInjective(kids[p]),
         NEW c \in Calls, NEW old, CallOK(c, None, kids, old),
         c.rest = << >>, ~IsThrough(c),
         c.next # None => c.next \in ToSet(kids[Last(c.path)]),
         NEW answer \in Answers(kids[Last(c.path)], c.next, PageSize)
  PROVE  LET n == [c EXCEPT
                     !.answered = TRUE,
                     !.rest = [k \in DOMAIN answer.results |-> Result(answer.results[k])],
                     !.next = answer.next]
         IN  n \in Calls /\ CallOK(n, None, kids, old)
  <1> DEFINE rest == [k \in DOMAIN answer.results |-> Result(answer.results[k])]
             n == [c EXCEPT !.answered = TRUE, !.rest = rest, !.next = answer.next]
             ids == kids[Last(c.path)]
  <1>1. /\ c.path \in Seq(Parents) /\ c.path # << >> /\ c.got \in Seq(Entries)
        /\ Last(c.path) \in Parents
        /\ ids \in Seq(BlockIds) /\ Len(ids) \in Nat /\ DOMAIN ids = 1..Len(ids)
        /\ c.answered \in BOOLEAN /\ c.next \in BlockIds \cup {None}
    BY CallTypes
  <1>2. IsInjective(ids)
    BY <1>1
  <1>3. answer.results \in Seq(BlockIds) /\ \E p, q : IsPart(answer, ids, c.next, p, q)
    <2>1. PageSize \in Nat /\ None \notin BlockIds
      BY PageSizeAssumption, NoneIsNoBlock
    <2> QED
      BY <1>1, <2>1, AnswerIsAPart
  <1>4. PICK p, q : IsPart(answer, ids, c.next, p, q)
    BY <1>3
  <1> DEFINE l == Len(answer.results)
  <1>5. /\ DOMAIN answer.results = 1..l /\ l \in Nat
        /\ \A k \in 1..l : answer.results[k] \in BlockIds
    BY <1>3, LenProperties, ElementOfSeq
  <1>6. /\ rest \in Seq(Results) /\ Len(rest) = l
        /\ \A k \in 1..l : /\ rest[k].id = answer.results[k]
                           /\ rest[k].hasChildren = (kids[answer.results[k]] # << >>)
    <2>1. rest \in [1..l -> Results]
      BY <1>5 DEF Result, Results
    <2>2. rest \in Seq(Results) /\ Len(rest) = l
      BY <1>5, <2>1, SeqDef
    <2>3. \A k \in 1..l : rest[k] = Result(answer.results[k])
      BY <1>5
    <2>4. \A i \in BlockIds : Result(i).id = i /\ Result(i).hasChildren = (kids[i] # << >>)
      BY DEF Result
    <2> HIDE DEF rest, l
    <2> QED
      BY <1>5, <2>2, <2>3, <2>4
  <1>7. answer.next \in BlockIds \cup {None}
    <2>1. answer.next # None => q + 1 \in 1..Len(ids) /\ answer.next = ids[q + 1]
      BY <1>4 DEF IsPart
    <2> QED
      BY <1>1, <2>1, ElementOfSeq
  <1> HIDE DEF rest
  <1>8. /\ n.path = c.path /\ n.got = c.got /\ n.answered = TRUE /\ n.rest = rest
        /\ n.next = answer.next
    BY DEF Calls
  <1>9. n \in Calls
    BY <1>1, <1>6, <1>7 DEF Calls
  <1> HIDE DEF n, ids, l
  <1>10. ASSUME ToSet(c.path) \subseteq old
         PROVE  \E d \in 0..Len(ids) : HasRead(n, None, kids, old, d)
    <2>1. PICK d \in 0..Len(ids) : HasRead(c, None, kids, old, d)
      BY <1>10 DEF CallOK, ids
    <2>1a. Len(c.rest) = 0
      BY EmptySeq
    <2>2. p = d + 1
      <3>1. CASE c.next = None
        <4>1. d = 0
          BY <1>1, <2>1, <3>1 DEF HasRead, IsThrough
        <4> QED
          BY <1>4, <3>1, <4>1 DEF IsPart
      <3>2. CASE c.next # None
        <4>1. d + 1 \in 1..Len(ids) /\ c.next = ids[d + 1]
          <5>1. d + Len(c.rest) + 1 <= Len(ids) /\ c.next = ids[d + Len(c.rest) + 1]
            BY <2>1, <3>2 DEF HasRead, ids
          <5>2. d + Len(c.rest) + 1 = d + 1 /\ d \in Nat
            BY <1>1, <2>1a
          <5> QED
            BY <1>1, <5>1, <5>2
        <4>2. p \in 1..Len(ids) /\ ids[p] = c.next
          BY <1>4, <3>2 DEF IsPart
        <4> QED
          BY <1>1, <1>2, <4>1, <4>2 DEF IsInjective
      <3> QED
        BY <3>1, <3>2
    <2>3. /\ q \in Nat /\ q <= Len(ids) /\ l = q - d /\ d \in Nat
          /\ \A k \in 1..l : answer.results[k] = ids[d + k]
          /\ answer.next = None => q = Len(ids)
          /\ answer.next # None => q + 1 <= Len(ids) /\ answer.next = ids[q + 1]
      <3>1. /\ q \in Nat /\ q <= Len(ids)
            /\ l = q - p + 1 /\ \A k \in 1..(q - p + 1) : answer.results[k] = ids[p + k - 1]
            /\ answer.next = None => q = Len(ids)
            /\ answer.next # None => q + 1 \in 1..Len(ids) /\ answer.next = ids[q + 1]
        BY <1>4 DEF IsPart, l
      <3>2. d \in Nat /\ q \in Nat /\ Len(ids) \in Nat
        BY <1>1, <3>1
      <3>3. q - p + 1 = q - d /\ \A k \in 1..(q - d) : p + k - 1 = d + k
        BY <2>2, <3>2
      <3>4. q + 1 \in 1..Len(ids) => q + 1 <= Len(ids)
        BY <3>2
      <3> QED
        BY <3>1, <3>2, <3>3, <3>4
    <2>4. d + l = q /\ d + l + 1 = q + 1
      <3>1. d \in Nat /\ q \in Nat /\ l = q - d
        BY <2>3
      <3> QED
        BY <3>1
    <2>5. HasFirst(n.got, n.path, ids, d)
      BY <1>8, <2>1 DEF HasRead, ids
    <2>6. \A k \in 1..l : rest[k].id = ids[d + k] /\ rest[k].hasChildren = (kids[ids[d + k]] # << >>)
      BY <1>6, <2>3
    <2>7. HasRead(n, None, kids, old, d)
      BY <1>6, <1>8, <2>3, <2>4, <2>5, <2>6 DEF HasRead, ids
    <2> QED
      BY <2>7
  <1>11. CallOK(n, None, kids, old)
    BY <1>8, <1>10 DEF CallOK, ids
  <1> QED
    BY <1>9, <1>11 DEF n, rest

\* A call that looks at the next block of its answer and reads what is in it first.
LEMMA CallReads ==
  ASSUME NEW c \in Calls, NEW ks \in [Parents -> Seq(BlockIds)], NEW old,
         CallOK(c, None, ks, old), c.rest # << >>
  PROVE  LET r == Head(c.rest)
             n == [c EXCEPT !.rest = Tail(@)]
         IN  /\ r \in Results /\ n \in Calls /\ CallOK(n, r.id, ks, old)
             /\ ToSet(Append(c.path, r.id)) \subseteq old => r.hasChildren = (ks[r.id] # << >>)
  <1> DEFINE r == Head(c.rest)
             n == [c EXCEPT !.rest = Tail(@)]
             ids == ks[Last(c.path)]
             l == Len(c.rest)
  <1>1. /\ c.path \in Seq(Parents) /\ c.path # << >> /\ c.got \in Seq(Entries)
        /\ Last(c.path) \in Parents /\ Last(c.path) \in ToSet(c.path)
        /\ ids \in Seq(BlockIds) /\ Len(ids) \in Nat /\ DOMAIN ids = 1..Len(ids)
        /\ c.answered \in BOOLEAN /\ c.next \in BlockIds \cup {None} /\ c.rest \in Seq(Results)
    BY CallTypes
  <1>2. /\ l \in Nat \ {0} /\ r = c.rest[1] /\ r \in Results /\ Tail(c.rest) \in Seq(Results)
        /\ Len(Tail(c.rest)) = l - 1
        /\ \A k \in 1..(l - 1) : Tail(c.rest)[k] = c.rest[k + 1]
    BY <1>1, HeadTailProperties, EmptySeq
  <1>3. n.path = c.path /\ n.got = c.got /\ n.answered = c.answered /\ n.rest = Tail(c.rest)
        /\ n.next = c.next
    BY DEF Calls
  <1>4. n \in Calls
    BY <1>1, <1>2 DEF Calls
  <1>5. r.id \in BlockIds /\ r.id # None
    BY <1>2, NoneIsNoBlock DEF Results
  <1>6. c.answered
    BY <1>1 DEF CallOK
  <1> HIDE DEF n, r, ids, l
  <1>7. ASSUME ToSet(c.path) \subseteq old
        PROVE  /\ \E d \in 0..Len(ids) : HasRead(n, r.id, ks, old, d)
               /\ r.id \in old => r.hasChildren = (ks[r.id] # << >>)
    <2>1. PICK d \in 0..Len(ids) : HasRead(c, None, ks, old, d)
      BY <1>7 DEF CallOK, ids
    <2>2. /\ d + l <= Len(ids)
          /\ HasFirst(c.got, c.path, ids, d)
          /\ \A k \in 1..l : /\ c.rest[k].id = ids[d + k]
                             /\ ids[d + k] \in old => c.rest[k].hasChildren = (ks[ids[d + k]] # << >>)
          /\ c.next = None => d + l = Len(ids)
          /\ c.next # None => d + l + 1 <= Len(ids) /\ c.next = ids[d + l + 1]
      BY <1>6, <2>1 DEF HasRead, ids, l
    <2>3. /\ 1 \in 1..l /\ d \in Nat /\ d + 1 \in 0..Len(ids) /\ d + 1 > 0 /\ (d + 1) - 1 = d
          /\ d + 1 + (l - 1) = d + l /\ d + 1 + (l - 1) + 1 = d + l + 1
      <3>1. l \in Nat \ {0}
        BY <1>2
      <3>2. Len(ids) \in Nat
        BY <1>1
      <3>3. d \in Nat
        BY <3>2
      <3>4. d + l <= Len(ids)
        BY <2>2
      <3> QED
        BY <3>1, <3>2, <3>3, <3>4
    <2>4. r.id = ids[d + 1] /\ (r.id \in old => r.hasChildren = (ks[r.id] # << >>))
      BY <1>2, <2>2, <2>3
    <2>5. ASSUME NEW k \in 1..(l - 1)
          PROVE  /\ n.rest[k].id = ids[d + 1 + k]
                 /\ ids[d + 1 + k] \in old => n.rest[k].hasChildren = (ks[ids[d + 1 + k]] # << >>)
      <3>1. k + 1 \in 1..l /\ d + (k + 1) = d + 1 + k
        BY <1>2, <2>3
      <3>2. n.rest[k] = c.rest[k + 1]
        BY <1>2, <1>3
      <3> QED
        BY <2>2, <3>1, <3>2
    <2>6. Len(n.rest) = l - 1 /\ n.next = c.next
      BY <1>2, <1>3
    <2>7. HasFirst(n.got, n.path, ids, (d + 1) - 1)
      BY <1>3, <2>2, <2>3
    <2>8. ids = ks[Last(n.path)]
      BY <1>3 DEF ids
    <2>9. HasRead(n, r.id, ks, old, d + 1)
      BY <1>3, <1>5, <1>6, <2>2, <2>3, <2>4, <2>5, <2>6, <2>7, <2>8 DEF HasRead
    <2> QED
      BY <2>3, <2>4, <2>9
  <1>8. CallOK(n, r.id, ks, old)
    BY <1>3, <1>6, <1>7 DEF CallOK, ids
  <1>9. ToSet(Append(c.path, r.id)) = ToSet(c.path) \cup {r.id}
    BY <1>1, <1>5, AppendExtends
  <1> QED
    BY <1>2, <1>4, <1>7, <1>8, <1>9 DEF n, r

\* A call that gets the block it is reading, with all that is in it.
LEMMA CallHasRead ==
  ASSUME NEW ks \in [Parents -> Seq(BlockIds)], \A p \in Parents : IsInjective(ks[p]),
         NEW c \in Calls, NEW old, NEW i \in BlockIds, CallOK(c, i, ks, old),
         NEW B \in Seq(Entries), IsTrees(B, Append(c.path, i)), IsFull(B, ks, old),
         ToSet(Append(c.path, i)) \subseteq old =>
           HasFirst(B, Append(c.path, i), ks[i], Len(ks[i]))
  PROVE  LET n == [c EXCEPT !.got = @ \o <<Entry(c.path, i)>> \o B]
         IN  n \in Calls /\ CallOK(n, None, ks, old)
  <1> DEFINE D == c.got \o <<Entry(c.path, i)>> \o B
             n == [c EXCEPT !.got = D]
             ids == ks[Last(c.path)]
  <1>1. /\ c.path \in Seq(Parents) /\ c.path # << >> /\ c.got \in Seq(Entries)
        /\ Last(c.path) \in Parents /\ Last(c.path) \in ToSet(c.path)
        /\ ids \in Seq(BlockIds) /\ Len(ids) \in Nat
        /\ c.answered \in BOOLEAN /\ c.next \in BlockIds \cup {None} /\ c.rest \in Seq(Results)
    BY CallTypes
  <1>2. IsInjective(ids)
    BY <1>1
  <1>3. Entry(c.path, i) \in Entries /\ i # None
    BY <1>1, NoneIsNoBlock DEF Entry, Entries
  <1>4. D \in Seq(Entries)
    BY <1>1, <1>3, Joined
  <1>5. IsTrees(c.got, c.path) /\ IsFull(c.got, ks, old) /\ c.answered
    BY <1>1, <1>3 DEF CallOK
  <1>6. IsTrees(D, c.path)
    BY <1>1, <1>5, JoinedIsTrees
  <1> HIDE DEF ids
  <1>7. ASSUME ToSet(c.path) \subseteq old
        PROVE  \E d \in 1..Len(ids) : ids[d] = i /\ HasRead(c, i, ks, old, d)
    <2>1. PICK d \in 0..Len(ids) : HasRead(c, i, ks, old, d)
      BY <1>7 DEF CallOK, ids
    <2>2. d > 0 /\ ids[d] = i
      BY <1>3, <2>1 DEF HasRead, ids
    <2>3. d \in 1..Len(ids)
      BY <1>1, <2>2
    <2> QED
      BY <2>1, <2>2, <2>3
  <1>8. ASSUME ToSet(c.path) \subseteq old
        PROVE  \A m \in 1..Len(c.got) : /\ ~Extends(c.got[m].above, Append(c.path, i))
                                        /\ ~(c.got[m].above = c.path /\ c.got[m].id = i)
    <2>1. PICK d \in 1..Len(ids) : ids[d] = i /\ HasRead(c, i, ks, old, d)
      BY <1>7, <1>8
    <2>2. HasFirst(c.got, c.path, ids, d - 1)
      BY <1>3, <2>1 DEF HasRead, ids
    <2> QED
      BY <1>1, <1>2, <1>5, <2>1, <2>2, NoneBelow
  <1>9. IsFull(D, ks, old)
    BY <1>1, <1>5, <1>8, JoinedIsFull
  <1> HIDE DEF D
  <1>10. /\ n.path = c.path /\ n.got = D /\ n.answered = c.answered /\ n.rest = c.rest
         /\ n.next = c.next
    BY DEF Calls
  <1>11. n \in Calls
    BY <1>1, <1>4 DEF Calls
  <1> HIDE DEF n
  <1>12. ASSUME ToSet(c.path) \subseteq old
         PROVE  \E d \in 0..Len(ids) : HasRead(n, None, ks, old, d)
    <2>1. PICK d \in 1..Len(ids) : ids[d] = i /\ HasRead(c, i, ks, old, d)
      BY <1>7, <1>12
    <2>2. HasFirst(c.got, c.path, ids, d - 1)
      BY <1>3, <2>1 DEF HasRead, ids
    <2>3. HasFirst(n.got, n.path, ids, d)
      BY <1>1, <1>10, <2>1, <2>2, JoinedHasNext DEF D
    <2>4. HasRead(n, None, ks, old, d)
      BY <1>10, <2>1, <2>3 DEF HasRead, ids
    <2>5. d \in 0..Len(ids)
      BY <1>1
    <2> QED
      BY <2>4, <2>5
  <1>13. CallOK(n, None, ks, old)
    BY <1>5, <1>6, <1>9, <1>10, <1>12 DEF CallOK, ids
  <1> QED
    BY <1>11, <1>13 DEF n, D

\* A block that has nothing in it.
LEMMA CallHasReadLeaf ==
  ASSUME NEW ks \in [Parents -> Seq(BlockIds)], \A p \in Parents : IsInjective(ks[p]),
         NEW c \in Calls, NEW old, NEW i \in BlockIds, CallOK(c, i, ks, old),
         ToSet(Append(c.path, i)) \subseteq old => ks[i] = << >>
  PROVE  LET n == [c EXCEPT !.got = Append(@, Entry(c.path, i))]
         IN  n \in Calls /\ CallOK(n, None, ks, old)
  <1> DEFINE B == << >>
  <1>1. c.got \in Seq(Entries) /\ c.path \in Seq(Parents)
    BY CallTypes
  <1>2. Entry(c.path, i) \in Entries
    BY <1>1 DEF Entry, Entries
  <1>3. B \in Seq(Entries) /\ Len(B) = 0
    BY EmptySeq
  <1>4. Append(c.got, Entry(c.path, i)) = c.got \o <<Entry(c.path, i)>> \o B
    <2>1. Append(c.got, Entry(c.path, i)) = c.got \o <<Entry(c.path, i)>>
      BY <1>1, <1>2, AppendIsConcat
    <2>2. Append(c.got, Entry(c.path, i)) \in Seq(Entries)
      BY <1>1, <1>2, AppendProperties
    <2> QED
      BY <2>1, <2>2, ConcatEmptySeq
  <1> HIDE DEF B
  <1>5. IsTrees(B, Append(c.path, i)) /\ IsFull(B, ks, old)
    BY <1>3 DEF IsTrees, IsFull
  <1>6. ASSUME ToSet(Append(c.path, i)) \subseteq old
        PROVE  HasFirst(B, Append(c.path, i), ks[i], Len(ks[i]))
    <2>1. Len(ks[i]) = 0
      BY <1>6, EmptySeq
    <2> QED
      BY <1>3, <2>1 DEF HasFirst
  <1> QED
    BY <1>3, <1>4, <1>5, <1>6, CallHasRead

\* A call that is through has all that is in its block.
LEMMA CallIsThrough ==
  ASSUME NEW ks \in [Parents -> Seq(BlockIds)], NEW c \in Calls, NEW old,
         CallOK(c, None, ks, old), IsThrough(c), ToSet(c.path) \subseteq old
  PROVE  HasFirst(c.got, c.path, ks[Last(c.path)], Len(ks[Last(c.path)]))
  <1> DEFINE ids == ks[Last(c.path)]
  <1>1. PICK d \in 0..Len(ids) : HasRead(c, None, ks, old, d)
    BY DEF CallOK
  <1>2. Len(c.rest) = 0 /\ Len(ids) \in Nat
    BY EmptySeq, CallTypes DEF IsThrough
  <1>3. d + Len(c.rest) = Len(ids)
    BY <1>1 DEF HasRead, IsThrough
  <1>4. d = Len(ids)
    BY <1>2, <1>3
  <1> QED
    BY <1>1, <1>4 DEF HasRead

-----------------------------------------------------------------------------
(* The calls under way, and the document.                                   *)

\* The block that a call is reading: that of the next call.
ChildOf(s, n) == IF n < Len(s) THEN Last(s[n + 1].path) ELSE None

StackOK(s, ks, old) ==
  /\ Len(s) > 0 => s[1].path = <<Page>>
  /\ \A n \in 1..(Len(s) - 1) : /\ Last(s[n + 1].path) \in BlockIds
                                /\ s[n + 1].path = Append(s[n].path, Last(s[n + 1].path))
  /\ \A n \in 1..Len(s) : CallOK(s[n], ChildOf(s, n), ks, old)

DocumentOK(doc, ks, old) ==
  /\ IsTrees(doc, <<Page>>)
  /\ IsFull(doc, ks, old)
  /\ Page \in old => HasFirst(doc, <<Page>>, ks[Page], Len(ks[Page]))

\* The lists that nobody has changed since the edit time was read.
Old == {p \in Parents : touched[p] <= updated}

PageInv ==
  /\ PageTypeOK
  /\ StackOK(frames, kids, Old)
  /\ at = "done" => DocumentOK(blocks, kids, Old)

\* A call that goes on, with those it was called by.
LEMMA StackWithTop ==
  ASSUME NEW ks, NEW old, NEW s, Len(s) \in Nat, StackOK(s, ks, old), NEW m \in 1..Len(s),
         NEW c, c.path = s[m].path, CallOK(c, None, ks, old),
         NEW t, Len(t) = m, \A k \in 1..m : t[k] = IF k = m THEN c ELSE s[k]
  PROVE  StackOK(t, ks, old)
  <1>1. \A k \in 1..m : t[k].path = s[k].path
    OBVIOUS
  <1>2. Len(t) > 0 => t[1].path = <<Page>>
    <2>1. 1 \in 1..m /\ Len(s) > 0
      OBVIOUS
    <2> QED
      BY <1>1, <2>1 DEF StackOK
  <1>3. ASSUME NEW n \in 1..(Len(t) - 1)
        PROVE  /\ Last(t[n + 1].path) \in BlockIds
               /\ t[n + 1].path = Append(t[n].path, Last(t[n + 1].path))
    <2>1. n \in 1..m /\ n + 1 \in 1..m /\ n \in 1..(Len(s) - 1)
      OBVIOUS
    <2> QED
      BY <1>1, <2>1 DEF StackOK
  <1>4. ASSUME NEW n \in 1..Len(t) PROVE CallOK(t[n], ChildOf(t, n), ks, old)
    <2>1. CASE n = m
      <3>1. t[n] = c /\ ChildOf(t, n) = None
        BY <2>1 DEF ChildOf
      <3> QED
        BY <3>1
    <2>2. CASE n < m
      <3>1. n \in 1..m /\ n + 1 \in 1..m /\ n \in 1..Len(s) /\ n < Len(s) /\ n # m
        BY <2>2
      <3>2. t[n] = s[n] /\ t[n + 1].path = s[n + 1].path
        BY <1>1, <3>1
      <3>3. ChildOf(t, n) = ChildOf(s, n)
        BY <2>2, <3>1, <3>2 DEF ChildOf
      <3> QED
        BY <3>1, <3>2, <3>3 DEF StackOK
    <2> QED
      BY <2>1, <2>2
  <1> QED
    BY <1>2, <1>3, <1>4 DEF StackOK

\* A call for what is in a block, with those it was called by.
LEMMA StackWithCall ==
  ASSUME NEW ks \in [Parents -> Seq(BlockIds)], NEW old,
         NEW s, Len(s) \in Nat, StackOK(s, ks, old), NEW m \in 1..Len(s), m = Len(s),
         NEW c, c.path = s[m].path, c.path \in Seq(Parents), NEW i \in BlockIds,
         CallOK(c, i, ks, old),
         NEW t, Len(t) = m + 1, \A k \in 1..m : t[k] = IF k = m THEN c ELSE s[k],
         t[m + 1] = Call(Append(c.path, i))
  PROVE  StackOK(t, ks, old)
  <1>0. /\ Append(c.path, i) \in Seq(Parents) /\ Last(Append(c.path, i)) = i
        /\ Append(c.path, i) # << >> /\ t[m + 1].path = Append(c.path, i)
    <2>1. /\ Append(c.path, i) \in Seq(Parents) /\ Last(Append(c.path, i)) = i
          /\ Append(c.path, i) # << >>
      BY AppendExtends
    <2> QED
      BY <2>1 DEF Call
  <1>1. \A k \in 1..m : t[k].path = s[k].path
    OBVIOUS
  <1>2. Len(t) > 0 => t[1].path = <<Page>>
    <2>1. 1 \in 1..m /\ Len(s) > 0
      OBVIOUS
    <2> QED
      BY <1>1, <2>1 DEF StackOK
  <1>3. ASSUME NEW n \in 1..(Len(t) - 1)
        PROVE  /\ Last(t[n + 1].path) \in BlockIds
               /\ t[n + 1].path = Append(t[n].path, Last(t[n + 1].path))
    <2>1. CASE n = m
      <3>1. t[n].path = c.path
        BY <1>1, <2>1
      <3> QED
        BY <1>0, <2>1, <3>1
    <2>2. CASE n < m
      <3>1. n \in 1..m /\ n + 1 \in 1..m /\ n \in 1..(Len(s) - 1)
        BY <2>2
      <3> QED
        BY <1>1, <3>1 DEF StackOK
    <2> QED
      BY <2>1, <2>2
  <1>4. ASSUME NEW n \in 1..Len(t) PROVE CallOK(t[n], ChildOf(t, n), ks, old)
    <2>1. CASE n = m + 1
      <3>1. ChildOf(t, n) = None
        BY <2>1 DEF ChildOf
      <3>2. CallOK(Call(Append(c.path, i)), None, ks, old)
        BY <1>0, NewCall
      <3> QED
        BY <2>1, <3>1, <3>2
    <2>2. CASE n = m
      <3>1. t[n] = c /\ n < Len(t) /\ t[n + 1].path = Append(c.path, i)
        BY <1>0, <2>2
      <3>2. ChildOf(t, n) = i
        BY <1>0, <3>1 DEF ChildOf
      <3> QED
        BY <3>1, <3>2
    <2>3. CASE n < m
      <3>1. n \in 1..m /\ n + 1 \in 1..m /\ n \in 1..Len(s) /\ n < Len(s) /\ n # m /\ n < Len(t)
        BY <2>3
      <3>2. t[n] = s[n] /\ t[n + 1].path = s[n + 1].path
        BY <1>1, <3>1
      <3>3. ChildOf(t, n) = ChildOf(s, n)
        BY <3>1, <3>2 DEF ChildOf
      <3> QED
        BY <3>1, <3>2, <3>3 DEF StackOK
    <2>4. n = m + 1 \/ n = m \/ n < m
      OBVIOUS
    <2> QED
      BY <2>1, <2>2, <2>3, <2>4
  <1> QED
    BY <1>2, <1>3, <1>4 DEF StackOK

\* The calls, when lists change that are no longer old.
LEMMA OlderStack ==
  ASSUME NEW ks \in [Parents -> Seq(BlockIds)], NEW old,
         NEW ks2 \in [Parents -> Seq(BlockIds)], NEW old2 \in SUBSET old,
         \A p \in Parents : p \in old2 => ks2[p] = ks[p],
         NEW s \in Seq(Calls), StackOK(s, ks, old)
  PROVE  StackOK(s, ks2, old2)
  <1>1. ASSUME NEW n \in 1..Len(s) PROVE CallOK(s[n], ChildOf(s, n), ks2, old2)
    <2>1. s[n] \in Calls
      BY ElementOfSeq
    <2>2. CallOK(s[n], ChildOf(s, n), ks, old)
      BY DEF StackOK
    <2> QED
      BY <2>1, <2>2, OlderCall
  <1> QED
    BY <1>1 DEF StackOK

-----------------------------------------------------------------------------
(* The steps of a fetch.                                                   *)

\* The innermost call.
LEMMA TopTypes ==
  ASSUME NEW s \in Seq(Calls), s # << >>
  PROVE  /\ Len(s) \in Nat \ {0} /\ Len(s) \in 1..Len(s) /\ Top(s) = s[Len(s)] /\ Top(s) \in Calls
         /\ \A c \in Calls :
              /\ SetTop(s, c) \in Seq(Calls) /\ Len(SetTop(s, c)) = Len(s)
              /\ \A k \in 1..Len(s) : SetTop(s, c)[k] = IF k = Len(s) THEN c ELSE s[k]
  <1>1. Len(s) \in Nat \ {0}
    BY EmptySeq
  <1>2. Len(s) \in 1..Len(s)
    BY <1>1
  <1>3. Top(s) \in Calls
    BY <1>2, ElementOfSeq DEF Top
  <1>4. ASSUME NEW c \in Calls
        PROVE  /\ SetTop(s, c) \in Seq(Calls) /\ Len(SetTop(s, c)) = Len(s)
               /\ \A k \in 1..Len(s) : SetTop(s, c)[k] = IF k = Len(s) THEN c ELSE s[k]
    BY <1>2, ExceptSeq DEF SetTop
  <1> QED
    BY <1>1, <1>2, <1>3, <1>4 DEF Top

\* What the types give.
LEMMA PageTypes ==
  ASSUME PageTypeOK
  PROVE  /\ kids \in [Parents -> Seq(BlockIds)] /\ \A p \in Parents : IsInjective(kids[p])
         /\ frames \in Seq(Calls) /\ (frames # << >> <=> at = "blocks")
         /\ attempt \in Nat /\ edits \in Nat /\ updated \in 0..edits
         /\ 1 \in 1..(IF MaxTries = 0 THEN 1 ELSE MaxTries)
  <1>1. 1 \in 1..(IF MaxTries = 0 THEN 1 ELSE MaxTries)
    BY PageAssumption
  <1>2. attempt \in Nat /\ edits \in Nat
    BY PageAssumption DEF PageTypeOK
  <1> QED
    BY <1>1, <1>2 DEF PageTypeOK

\* The page is retrieved.
LEMMA RetrievePageKeeps == PageInv /\ RetrievePage => PageInv'
  <1> SUFFICES ASSUME PageInv, RetrievePage PROVE PageInv'
    OBVIOUS
  <1>1. /\ at' = "blocks" /\ updated' = edits /\ frames' = <<Call(<<Page>>)>> /\ attempt' = 1
        /\ UNCHANGED <<kids, touched, edits, blocks>> /\ at = "page"
    BY DEF RetrievePage, notion
  <1>2. PageTypeOK
    BY DEF PageInv
  <1>3. <<Page>> \in Seq(Parents) /\ <<Page>> # << >>
    BY DEF Parents
  <1>4. \A old : Call(<<Page>>) \in Calls /\ CallOK(Call(<<Page>>), None, kids, old)
    BY <1>2, <1>3, PageTypes, NewCall
  <1>5. /\ frames' \in Seq(Calls) /\ Len(frames') = 1 /\ frames'[1] = Call(<<Page>>)
        /\ frames' # << >>
    BY <1>1, <1>4
  <1>6. PageTypeOK'
    <2>1. attempt' \in 1..(IF MaxTries = 0 THEN 1 ELSE MaxTries)
      BY <1>1, <1>2, PageTypes
    <2>2. updated' \in 0..edits'
      BY <1>1, <1>2, PageTypes
    <2> QED
      BY <1>1, <1>2, <1>5, <2>1, <2>2 DEF PageTypeOK
  <1>7. StackOK(frames', kids', Old')
    <2>1. \A n \in 1..Len(frames') : n = 1 /\ ChildOf(frames', n) = None
      BY <1>5 DEF ChildOf
    <2>2. \A n \in 1..Len(frames') : CallOK(frames'[n], ChildOf(frames', n), kids', Old')
      BY <1>1, <1>4, <1>5, <2>1
    <2>3. frames'[1].path = <<Page>>
      BY <1>5 DEF Call
    <2>4. 1..(Len(frames') - 1) = {}
      BY <1>5
    <2> QED
      BY <2>2, <2>3, <2>4 DEF StackOK
  <1> QED
    BY <1>1, <1>6, <1>7 DEF PageInv

\* An answer to a request for blocks.
LEMMA ListBlockChildrenKeeps == PageInv /\ ListBlockChildren => PageInv'
  <1> SUFFICES ASSUME PageInv, ListBlockChildren PROVE PageInv'
    OBVIOUS
  <1> DEFINE c == Top(frames)
             m == Len(frames)
  <1>1. /\ at = "blocks" /\ Requesting /\ CursorStands /\ attempt' = 1
        /\ UNCHANGED <<kids, touched, edits, at, updated, blocks>>
    BY DEF ListBlockChildren, notion
  <1>2. PICK answer \in Answers(kids[Last(c.path)], c.next, PageSize) :
          frames' = SetTop(frames, [c EXCEPT
                      !.answered = TRUE,
                      !.rest = [k \in DOMAIN answer.results |-> Result(answer.results[k])],
                      !.next = answer.next])
    BY DEF ListBlockChildren
  <1>3. PageTypeOK /\ StackOK(frames, kids, Old) /\ frames \in Seq(Calls) /\ frames # << >>
    BY <1>1, PageTypes DEF PageInv
  <1>4. c.rest = << >> /\ ~IsThrough(c) /\ (c.next # None => c.next \in ToSet(kids[Last(c.path)]))
    BY <1>1 DEF Requesting, CursorStands
  <1>5. /\ m \in Nat /\ m \in 1..m /\ c = frames[m] /\ c \in Calls
        /\ \A n \in Calls :
             /\ SetTop(frames, n) \in Seq(Calls) /\ Len(SetTop(frames, n)) = m
             /\ \A k \in 1..m : SetTop(frames, n)[k] = IF k = m THEN n ELSE frames[k]
    BY <1>3, TopTypes
  <1>6. CallOK(c, None, kids, Old)
    <2>1. ChildOf(frames, m) = None
      BY <1>5 DEF ChildOf
    <2> QED
      BY <1>3, <1>5, <2>1 DEF StackOK
  <1> DEFINE n == [c EXCEPT
                     !.answered = TRUE,
                     !.rest = [k \in DOMAIN answer.results |-> Result(answer.results[k])],
                     !.next = answer.next]
  <1> HIDE DEF c
  <1>7. n \in Calls /\ CallOK(n, None, kids, Old)
    BY <1>3, <1>4, <1>5, <1>6, PageTypes, AnsweredCall
  <1>8. n.path = c.path
    BY <1>5 DEF Calls
  <1>9. frames' = SetTop(frames, n)
    BY <1>2 DEF c
  <1> HIDE DEF n
  <1>10. frames' \in Seq(Calls) /\ StackOK(frames', kids, Old) /\ Len(frames') = m
    <2>1. /\ frames' \in Seq(Calls) /\ Len(frames') = m
          /\ \A k \in 1..m : frames'[k] = IF k = m THEN n ELSE frames[k]
      BY <1>5, <1>7, <1>9
    <2> HIDE DEF m
    <2>2. n.path = frames[m].path
      BY <1>5, <1>8
    <2>3. StackOK(frames', kids, Old)
      <3>1. Len(frames) \in Nat /\ m \in 1..Len(frames) /\ StackOK(frames, kids, Old)
        BY <1>3, <1>5 DEF m
      <3>2. CallOK(n, None, kids, Old)
        BY <1>7
      <3> QED
        BY <2>1, <2>2, <3>1, <3>2, StackWithTop
    <2> QED
      BY <2>1, <2>3
  <1>11. frames' # << >>
    BY <1>5, <1>10, EmptySeq
  <1>12. PageTypeOK'
    <2>1. attempt' \in 1..(IF MaxTries = 0 THEN 1 ELSE MaxTries)
      BY <1>1, <1>3, PageTypes
    <2> QED
      BY <1>1, <1>3, <1>10, <1>11, <2>1 DEF PageTypeOK
  <1>13. Old' = Old
    BY <1>1 DEF Old
  <1> QED
    BY <1>1, <1>10, <1>12, <1>13 DEF PageInv

\* The next block of an answer.
LEMMA ReadResultKeeps == PageInv /\ ReadResult => PageInv'
  <1> SUFFICES ASSUME PageInv, ReadResult PROVE PageInv'
    OBVIOUS
  <1> DEFINE c == Top(frames)
             m == Len(frames)
             r == Head(c.rest)
             read == [c EXCEPT !.rest = Tail(@)]
             leaf == [read EXCEPT !.got = Append(@, Entry(c.path, r.id))]
             inner == Call(Append(c.path, r.id))
  <1>1. /\ at = "blocks" /\ c.rest # << >>
        /\ UNCHANGED <<kids, touched, edits, at, attempt, updated, blocks>>
        /\ frames' = IF r.hasChildren THEN Append(SetTop(frames, read), inner)
                     ELSE SetTop(frames, leaf)
    BY DEF ReadResult, notion
  <1>2. /\ PageTypeOK /\ StackOK(frames, kids, Old) /\ frames \in Seq(Calls) /\ frames # << >>
        /\ kids \in [Parents -> Seq(BlockIds)] /\ \A p \in Parents : IsInjective(kids[p])
    BY <1>1, PageTypes DEF PageInv
  <1>3. /\ m \in Nat \ {0} /\ m \in 1..m /\ c = frames[m] /\ c \in Calls
        /\ \A n \in Calls :
             /\ SetTop(frames, n) \in Seq(Calls) /\ Len(SetTop(frames, n)) = m
             /\ \A k \in 1..m : SetTop(frames, n)[k] = IF k = m THEN n ELSE frames[k]
    BY <1>2, TopTypes
  <1>4. CallOK(c, None, kids, Old)
    <2>1. ChildOf(frames, m) = None
      BY <1>3 DEF ChildOf
    <2> QED
      BY <1>2, <1>3, <2>1 DEF StackOK
  <1> HIDE DEF c
  <1>5. /\ r \in Results /\ read \in Calls /\ CallOK(read, r.id, kids, Old)
        /\ ToSet(Append(c.path, r.id)) \subseteq Old => r.hasChildren = (kids[r.id] # << >>)
    BY <1>1, <1>2, <1>3, <1>4, CallReads
  <1>6. r.id \in BlockIds /\ r.hasChildren \in BOOLEAN /\ c.path \in Seq(Parents)
    BY <1>2, <1>3, <1>5, CallTypes DEF Results
  <1>7. read.path = c.path
    BY <1>3 DEF Calls
  <1>8. Old' = Old
    BY <1>1 DEF Old
  <1>9. frames' \in Seq(Calls) /\ frames' # << >> /\ StackOK(frames', kids, Old)
    <2>1. CASE r.hasChildren
      <3>1. /\ Append(c.path, r.id) \in Seq(Parents) /\ Append(c.path, r.id) # << >>
        BY <1>6, AppendExtends
      <3>2. inner \in Calls
        BY <1>2, <3>1, NewCall
      <3> DEFINE s == SetTop(frames, read)
      <3>3. /\ s \in Seq(Calls) /\ Len(s) = m
            /\ \A k \in 1..m : s[k] = IF k = m THEN read ELSE frames[k]
        BY <1>3, <1>5
      <3>4. frames' = Append(s, inner)
        BY <1>1, <2>1
      <3> HIDE DEF s, inner, read, r, m
      <3>5. /\ frames' \in Seq(Calls) /\ frames' # << >> /\ Len(frames') = m + 1
            /\ \A k \in 1..m : frames'[k] = s[k]
            /\ frames'[m + 1] = inner
        BY <3>2, <3>3, <3>4, AppendProperties
      <3>6. \A k \in 1..m : frames'[k] = IF k = m THEN read ELSE frames[k]
        BY <3>3, <3>5
      <3>7. read.path = frames[m].path /\ read.path \in Seq(Parents)
        BY <1>3, <1>6, <1>7
      <3>8. inner = Call(Append(read.path, r.id))
        BY <1>7 DEF inner
      <3>9. Len(frames) \in Nat /\ m = Len(frames) /\ m \in 1..Len(frames)
        BY <1>3 DEF m
      <3>10. r.id \in BlockIds /\ CallOK(read, r.id, kids, Old)
        BY <1>5, <1>6
      <3>11. frames'[m + 1] = Call(Append(read.path, r.id)) /\ Len(frames') = m + 1
        BY <3>5, <3>8
      <3>12. StackOK(frames', kids, Old)
        BY <1>2, <3>6, <3>7, <3>9, <3>10, <3>11, StackWithCall
      <3> QED
        BY <3>5, <3>12
    <2>2. CASE ~r.hasChildren
      <3>1. ToSet(Append(c.path, r.id)) \subseteq Old => kids[r.id] = << >>
        BY <1>5, <2>2
      <3> HIDE DEF read, r, m
      <3> DEFINE n == [read EXCEPT !.got = Append(@, Entry(read.path, r.id))]
      <3>2. n \in Calls /\ CallOK(n, None, kids, Old)
        BY <1>2, <1>5, <1>6, <1>7, <3>1, CallHasReadLeaf
      <3>3. n.path = c.path
        BY <1>5, <1>7 DEF Calls
      <3>4. frames' = SetTop(frames, n)
        BY <1>1, <1>7, <2>2
      <3> HIDE DEF n
      <3>5. /\ frames' \in Seq(Calls) /\ Len(frames') = m
            /\ \A k \in 1..m : frames'[k] = IF k = m THEN n ELSE frames[k]
        BY <1>3, <3>2, <3>4
      <3>6. n.path = frames[m].path
        BY <1>3, <3>3
      <3>7. StackOK(frames', kids, Old)
        <4>1. Len(frames) \in Nat /\ m \in 1..Len(frames)
          BY <1>3 DEF m
        <4>2. /\ Len(frames') = m /\ CallOK(n, None, kids, Old)
              /\ \A k \in 1..m : frames'[k] = IF k = m THEN n ELSE frames[k]
          BY <3>2, <3>5
        <4> QED
          BY <1>2, <3>6, <4>1, <4>2, StackWithTop
      <3>8. frames' # << >>
        BY <1>3, <3>5, EmptySeq
      <3> QED
        BY <3>5, <3>7, <3>8
    <2> QED
      BY <2>1, <2>2
  <1>10. PageTypeOK'
    BY <1>1, <1>2, <1>9 DEF PageTypeOK
  <1> QED
    BY <1>1, <1>8, <1>9, <1>10 DEF PageInv

\* A call returns: to its caller, or with the document.
LEMMA ReturnKeeps == PageInv /\ Return => PageInv'
  <1> SUFFICES ASSUME PageInv, Return PROVE PageInv'
    OBVIOUS
  <1> DEFINE c == Top(frames)
             m == Len(frames)
             callers == Front(frames)
  <1>1. /\ at = "blocks" /\ IsThrough(c) /\ UNCHANGED <<kids, touched, edits, attempt, updated>>
        /\ IF callers = << >> THEN at' = "done" /\ blocks' = c.got /\ frames' = << >>
           ELSE frames' = SetTop(callers, Returned(Top(callers), c)) /\ UNCHANGED <<at, blocks>>
    BY DEF Return, notion
  <1>2. /\ PageTypeOK /\ StackOK(frames, kids, Old) /\ frames \in Seq(Calls) /\ frames # << >>
        /\ kids \in [Parents -> Seq(BlockIds)] /\ \A p \in Parents : IsInjective(kids[p])
    BY <1>1, PageTypes DEF PageInv
  <1>3. m \in Nat \ {0} /\ m \in 1..m /\ c = frames[m] /\ c \in Calls
    BY <1>2, TopTypes
  <1>4. CallOK(c, None, kids, Old)
    <2>1. ChildOf(frames, m) = None
      BY <1>3 DEF ChildOf
    <2> QED
      BY <1>2, <1>3, <2>1 DEF StackOK
  <1>5. /\ c.path \in Seq(Parents) /\ c.got \in Seq(Entries) /\ IsTrees(c.got, c.path)
        /\ IsFull(c.got, kids, Old)
        /\ ToSet(c.path) \subseteq Old =>
             HasFirst(c.got, c.path, kids[Last(c.path)], Len(kids[Last(c.path)]))
    <2> HIDE DEF c
    <2>1. c.path \in Seq(Parents) /\ c.got \in Seq(Entries)
      BY <1>2, <1>3, CallTypes
    <2>2. ToSet(c.path) \subseteq Old =>
            HasFirst(c.got, c.path, kids[Last(c.path)], Len(kids[Last(c.path)]))
      BY <1>1, <1>2, <1>3, <1>4, CallIsThrough
    <2> QED
      BY <1>4, <2>1, <2>2 DEF CallOK
  <1>6. Old' = Old
    BY <1>1 DEF Old
  <1>7. /\ callers \in Seq(Calls) /\ Len(callers) = m - 1
        /\ \A k \in 1..(m - 1) : callers[k] = frames[k]
    <2>1. \A k \in 1..(m - 1) : k \in 1..m /\ frames[k] \in Calls
      BY <1>2, <1>3, ElementOfSeq
    <2>2. 1 \in Int /\ m - 1 \in Int
      BY <1>3
    <2>3. /\ SubSeq(frames, 1, m - 1) \in Seq(Calls)
          /\ Len(SubSeq(frames, 1, m - 1)) = IF 1 <= m - 1 THEN (m - 1) - 1 + 1 ELSE 0
          /\ \A k \in 1..((m - 1) - 1 + 1) : SubSeq(frames, 1, m - 1)[k] = frames[1 + k - 1]
      BY <2>1, <2>2, SubSeqProperties
    <2>4. callers = SubSeq(frames, 1, m - 1)
      BY DEF Front
    <2>5. Len(callers) = m - 1
      <3>1. m \in Nat \ {0}
        BY <1>3
      <3> HIDE DEF m
      <3>2. (IF 1 <= m - 1 THEN (m - 1) - 1 + 1 ELSE 0) = m - 1
        <4>1. CASE m = 1
          BY <4>1
        <4>2. CASE m > 1
          BY <3>1, <4>2
        <4> QED
          BY <3>1, <4>1, <4>2
      <3> QED
        BY <2>3, <2>4, <3>2 DEF m
    <2>6. ASSUME NEW k \in 1..(m - 1) PROVE callers[k] = frames[k]
      <3>1. (m - 1) - 1 + 1 = m - 1 /\ 1 + k - 1 = k
        BY <1>3
      <3> QED
        BY <2>3, <2>4, <3>1
    <2> QED
      BY <2>3, <2>4, <2>5, <2>6
  <1> HIDE DEF c, callers
  <1>8. CASE callers = << >>
    <2>1. m = 1
      BY <1>3, <1>7, <1>8, EmptySeq
    <2>2. c.path = <<Page>>
      BY <1>2, <1>3, <2>1 DEF StackOK
    <2>3. Last(<<Page>>) = Page /\ ToSet(<<Page>>) = {Page}
      BY DEF Last, ToSet
    <2>4. DocumentOK(blocks', kids', Old')
      BY <1>1, <1>5, <1>6, <1>8, <2>2, <2>3 DEF DocumentOK
    <2>5. PageTypeOK'
      <3>1. at' = "done" /\ frames' = << >> /\ frames' \in Seq(Calls) /\ blocks' \in Seq(Entries)
        BY <1>1, <1>5, <1>8, EmptySeq
      <3> QED
        BY <1>1, <1>2, <3>1 DEF PageTypeOK
    <2>6. StackOK(frames', kids', Old')
      <3>1. frames' = << >> /\ Len(<< >>) = 0
        BY <1>1, <1>8, EmptySeq
      <3> QED
        BY <3>1 DEF StackOK
    <2> QED
      BY <2>4, <2>5, <2>6 DEF PageInv
  <1>9. CASE callers # << >>
    <2> DEFINE j == m - 1
               caller == frames[j]
               i == Last(c.path)
               n == Returned(caller, c)
    <2>1. j \in 1..m /\ j \in 1..(m - 1) /\ j \in Nat \ {0} /\ j + 1 = m /\ Len(callers) = j
      BY <1>3, <1>7, <1>9, EmptySeq
    <2> HIDE DEF j, m
    <2>2. caller \in Calls /\ i \in BlockIds /\ c.path = Append(caller.path, i)
      <3>1. frames[j + 1] = c /\ j \in 1..Len(frames) /\ j \in 1..(Len(frames) - 1)
        BY <1>3, <2>1 DEF m
      <3> QED
        BY <1>2, <3>1, ElementOfSeq DEF StackOK
    <2>3. CallOK(caller, i, kids, Old)
      <3>1. j < Len(frames) /\ j \in 1..Len(frames) /\ frames[j + 1] = c
        BY <1>3, <2>1 DEF m
      <3>2. ChildOf(frames, j) = i
        BY <3>1 DEF ChildOf
      <3> QED
        BY <1>2, <3>1, <3>2 DEF StackOK
    <2> HIDE DEF caller, i
    <2>4. /\ c.got \in Seq(Entries) /\ IsTrees(c.got, Append(caller.path, i))
          /\ IsFull(c.got, kids, Old)
          /\ ToSet(Append(caller.path, i)) \subseteq Old =>
               HasFirst(c.got, Append(caller.path, i), kids[i], Len(kids[i]))
      BY <1>5, <2>2 DEF i
    <2>5. n = [caller EXCEPT !.got = @ \o <<Entry(caller.path, i)>> \o c.got]
      BY DEF Returned, i
    <2>6. n \in Calls /\ CallOK(n, None, kids, Old)
      <3>1. caller \in Calls /\ i \in BlockIds
        BY <2>2
      <3> DEFINE new == [caller EXCEPT !.got = @ \o <<Entry(caller.path, i)>> \o c.got]
      <3>2. new \in Calls /\ CallOK(new, None, kids, Old)
        BY <1>2, <2>3, <2>4, <3>1, CallHasRead
      <3> QED
        BY <2>5, <3>2
    <2>7. n.path = caller.path
      BY <2>2, <2>5 DEF Calls
    <2>8. Top(callers) = caller
      BY <1>7, <2>1 DEF Top, caller
    <2>9. frames' = SetTop(callers, n) /\ UNCHANGED <<at, blocks>>
      BY <1>1, <1>9, <2>8
    <2> HIDE DEF n
    <2>10. /\ frames' \in Seq(Calls) /\ Len(frames') = j
           /\ \A k \in 1..j : frames'[k] = IF k = j THEN n ELSE callers[k]
      <3>1. /\ SetTop(callers, n) \in Seq(Calls) /\ Len(SetTop(callers, n)) = Len(callers)
            /\ \A k \in 1..Len(callers) :
                 SetTop(callers, n)[k] = IF k = Len(callers) THEN n ELSE callers[k]
        BY <1>7, <1>9, <2>6, TopTypes
      <3> QED
        BY <2>1, <2>9, <3>1
    <2>11. \A k \in 1..j : callers[k] = frames[k]
      BY <1>7, <2>1 DEF m, j
    <2>12. \A k \in 1..j : frames'[k] = IF k = j THEN n ELSE frames[k]
      BY <2>10, <2>11
    <2>13. Len(frames) \in Nat /\ j \in 1..Len(frames) /\ n.path = frames[j].path
      BY <1>3, <2>1, <2>7 DEF m, caller
    <2>14. StackOK(frames', kids, Old)
      <3>1. StackOK(frames, kids, Old) /\ CallOK(n, None, kids, Old) /\ Len(frames') = j
        BY <1>2, <2>6, <2>10
      <3> QED
        BY <2>12, <2>13, <3>1, StackWithTop, Zenon
    <2>15. frames' # << >>
      BY <2>1, <2>10, EmptySeq
    <2>16. PageTypeOK'
      BY <1>1, <1>2, <2>9, <2>10, <2>15 DEF PageTypeOK
    <2> QED
      BY <1>1, <1>6, <2>9, <2>14, <2>16 DEF PageInv
  <1> QED
    BY <1>8, <1>9

\* What is taken out of a list.
LEMMA RemoveKeeps ==
  ASSUME NEW S, NEW s \in Seq(S), IsInjective(s), NEW k \in 1..Len(s)
  PROVE  /\ RemoveAt(s, k) \in Seq(S) /\ IsInjective(RemoveAt(s, k))
         /\ s[k] \notin ToSet(RemoveAt(s, k))
  <1> DEFINE n == Len(s)
             a == SubSeq(s, 1, k - 1)
             b == SubSeq(s, k + 1, n)
             t == a \o b
  <1>1. /\ n \in Nat /\ DOMAIN s = 1..n /\ (\A i \in 1..n : s[i] \in S)
        /\ k \in Nat /\ k >= 1 /\ k <= n
    BY LenProperties, ElementOfSeq
  <1>2. a \in Seq(S) /\ Len(a) = k - 1 /\ \A i \in 1..(k - 1) : a[i] = s[i]
    <2>1. \A i \in 1..(k - 1) : s[i] \in S
      BY <1>1
    <2>2. /\ a \in Seq(S) /\ Len(a) = IF 1 <= k - 1 THEN (k - 1) - 1 + 1 ELSE 0
          /\ \A i \in 1..((k - 1) - 1 + 1) : a[i] = s[1 + i - 1]
      BY <2>1, SubSeqProperties
    <2> HIDE DEF a
    <2>3. (k - 1) - 1 + 1 = k - 1 /\ (IF 1 <= k - 1 THEN (k - 1) - 1 + 1 ELSE 0) = k - 1
      OBVIOUS
    <2>4. \A i \in 1..(k - 1) : 1 + i - 1 = i
      OBVIOUS
    <2> QED
      BY <2>2, <2>3, <2>4
  <1>3. b \in Seq(S) /\ Len(b) = n - k /\ \A i \in 1..(n - k) : b[i] = s[k + i]
    <2>1. \A i \in (k + 1)..n : s[i] \in S
      BY <1>1
    <2>2. /\ b \in Seq(S) /\ Len(b) = IF k + 1 <= n THEN n - (k + 1) + 1 ELSE 0
          /\ \A i \in 1..(n - (k + 1) + 1) : b[i] = s[(k + 1) + i - 1]
      BY <1>1, <2>1, SubSeqProperties
    <2> HIDE DEF b, n
    <2>3. /\ n - (k + 1) + 1 = n - k
          /\ (IF k + 1 <= n THEN n - (k + 1) + 1 ELSE 0) = n - k
          /\ \A i \in 1..(n - k) : (k + 1) + i - 1 = k + i
      BY <1>1
    <2> QED
      BY <2>2, <2>3
  <1>4. /\ t \in Seq(S) /\ Len(t) = (k - 1) + (n - k)
        /\ \A i \in 1..((k - 1) + (n - k)) : t[i] = IF i <= k - 1 THEN a[i] ELSE b[i - (k - 1)]
    <2>0. a \in Seq(S) /\ b \in Seq(S)
      BY <1>2, <1>3
    <2> HIDE DEF a, b
    <2>1. /\ t \in Seq(S) /\ Len(t) = Len(a) + Len(b)
          /\ \A i \in 1..(Len(a) + Len(b)) : t[i] = IF i <= Len(a) THEN a[i] ELSE b[i - Len(a)]
      BY <2>0, ConcatProperties
    <2> HIDE DEF t, n
    <2> QED
      BY <1>2, <1>3, <2>1
  <1> HIDE DEF a, b
  <1>5. Len(t) = n - 1 /\ DOMAIN t = 1..(n - 1)
    <2>1. (k - 1) + (n - k) = n - 1
      BY <1>1
    <2> HIDE DEF t
    <2> QED
      BY <1>4, <2>1, LenProperties
  <1>6. ASSUME NEW i \in 1..(n - 1)
        PROVE  t[i] = s[IF i < k THEN i ELSE i + 1]
    <2>0. i \in 1..((k - 1) + (n - k))
      BY <1>1
    <2>1. CASE i < k
      <3>1. i \in 1..(k - 1) /\ i <= k - 1
        BY <2>1
      <3> QED
        BY <1>2, <1>4, <2>0, <2>1, <3>1
    <2>2. CASE ~(i < k)
      <3>1. ~(i <= k - 1) /\ i - (k - 1) \in 1..(n - k) /\ k + (i - (k - 1)) = i + 1
        BY <1>1, <2>2
      <3> QED
        BY <1>3, <1>4, <2>0, <2>2, <3>1
    <2> QED
      BY <2>1, <2>2
  <1> HIDE DEF t
  <1> DEFINE old(i) == IF i < k THEN i ELSE i + 1
  <1>7. \A i \in 1..(n - 1) : old(i) \in 1..n /\ old(i) # k
    BY <1>1
  <1>8. \A i, j \in 1..(n - 1) : old(i) = old(j) => i = j
    OBVIOUS
  <1>9. \A i \in 1..(n - 1) : t[i] = s[old(i)]
    BY <1>6
  <1> HIDE DEF old
  <1>10. IsInjective(t)
    <2>1. \A i, j \in DOMAIN s : s[i] = s[j] => i = j
      BY DEF IsInjective
    <2> QED
      BY <1>1, <1>5, <1>7, <1>8, <1>9, <2>1 DEF IsInjective
  <1>11. s[k] \notin ToSet(t)
    <2>1. \A i, j \in DOMAIN s : s[i] = s[j] => i = j
      BY DEF IsInjective
    <2> QED
      BY <1>1, <1>5, <1>7, <1>9, <2>1 DEF ToSet
  <1>12. RemoveAt(s, k) = t
    BY DEF RemoveAt, t, a, b
  <1> QED
    BY <1>4, <1>10, <1>11, <1>12 DEF t

\* What is put into a list.
LEMMA InsertKeeps ==
  ASSUME NEW S, NEW s \in Seq(S), IsInjective(s), NEW e \in S, e \notin ToSet(s),
         NEW k \in 1..(Len(s) + 1)
  PROVE  InsertAt(s, k, e) \in Seq(S) /\ IsInjective(InsertAt(s, k, e))
  <1> DEFINE n == Len(s)
             a == SubSeq(s, 1, k - 1)
             b == SubSeq(s, k, n)
             c == a \o <<e>>
             t == c \o b
  <1>1. n \in Nat /\ DOMAIN s = 1..n /\ (\A i \in 1..n : s[i] \in S) /\ k \in Nat /\ k >= 1
        /\ k <= n + 1
    BY LenProperties, ElementOfSeq
  <1>2. a \in Seq(S) /\ Len(a) = k - 1 /\ \A i \in 1..(k - 1) : a[i] = s[i]
    <2>1. \A i \in 1..(k - 1) : s[i] \in S
      BY <1>1
    <2>2. /\ a \in Seq(S) /\ Len(a) = IF 1 <= k - 1 THEN (k - 1) - 1 + 1 ELSE 0
          /\ \A i \in 1..((k - 1) - 1 + 1) : a[i] = s[1 + i - 1]
      BY <1>1, <2>1, SubSeqProperties
    <2> HIDE DEF a
    <2>3. (k - 1) - 1 + 1 = k - 1 /\ (IF 1 <= k - 1 THEN (k - 1) - 1 + 1 ELSE 0) = k - 1
      BY <1>1
    <2>4. \A i \in 1..(k - 1) : 1 + i - 1 = i
      OBVIOUS
    <2> QED
      BY <2>2, <2>3, <2>4
  <1>3. b \in Seq(S) /\ Len(b) = n - k + 1 /\ \A i \in 1..(n - k + 1) : b[i] = s[k + i - 1]
    <2>1. \A i \in k..n : s[i] \in S
      BY <1>1
    <2>2. /\ b \in Seq(S) /\ Len(b) = IF k <= n THEN n - k + 1 ELSE 0
          /\ \A i \in 1..(n - k + 1) : b[i] = s[k + i - 1]
      BY <1>1, <2>1, SubSeqProperties
    <2> HIDE DEF b
    <2>3. (IF k <= n THEN n - k + 1 ELSE 0) = n - k + 1
      BY <1>1
    <2> QED
      BY <2>2, <2>3
  <1>4. /\ c \in Seq(S) /\ Len(c) = k /\ c[k] = e /\ \A i \in 1..(k - 1) : c[i] = s[i]
    <2>1. <<e>> \in Seq(S) /\ Len(<<e>>) = 1 /\ <<e>>[1] = e
      OBVIOUS
    <2> HIDE DEF a
    <2>2. /\ c \in Seq(S) /\ Len(c) = (k - 1) + 1
          /\ \A i \in 1..((k - 1) + 1) : c[i] = IF i <= k - 1 THEN a[i] ELSE <<e>>[i - (k - 1)]
      <3> DEFINE one == <<e>>
      <3>0. a \in Seq(S) /\ one \in Seq(S) /\ Len(one) = 1 /\ Len(a) = k - 1
        BY <1>2, <2>1
      <3> HIDE DEF one
      <3>1. /\ a \o one \in Seq(S) /\ Len(a \o one) = Len(a) + Len(one)
            /\ \A i \in 1..(Len(a) + Len(one)) :
                 (a \o one)[i] = IF i <= Len(a) THEN a[i] ELSE one[i - Len(a)]
        BY <3>0, ConcatProperties
      <3>2. c = a \o one
        BY DEF one
      <3> HIDE DEF c
      <3> QED
        BY <3>0, <3>1, <3>2 DEF one
    <2> HIDE DEF c
    <2>3. (k - 1) + 1 = k /\ k - (k - 1) = 1 /\ k \in 1..k /\ ~(k <= k - 1)
      BY <1>1
    <2>4. \A i \in 1..(k - 1) : i \in 1..k /\ i <= k - 1
      BY <1>1
    <2>5. c[k] = <<e>>[1]
      BY <2>2, <2>3
    <2>6. \A i \in 1..(k - 1) : c[i] = a[i]
      BY <2>2, <2>3, <2>4
    <2> QED
      BY <1>2, <2>1, <2>2, <2>3, <2>5, <2>6
  <1>5. /\ t \in Seq(S) /\ Len(t) = k + (n - k + 1)
        /\ \A i \in 1..(k + (n - k + 1)) : t[i] = IF i <= k THEN c[i] ELSE b[i - k]
    <2>0. c \in Seq(S) /\ b \in Seq(S)
      BY <1>3, <1>4
    <2> HIDE DEF c, b
    <2>1. /\ t \in Seq(S) /\ Len(t) = Len(c) + Len(b)
          /\ \A i \in 1..(Len(c) + Len(b)) : t[i] = IF i <= Len(c) THEN c[i] ELSE b[i - Len(c)]
      BY <2>0, ConcatProperties
    <2> HIDE DEF t, n
    <2> QED
      BY <1>3, <1>4, <2>1
  <1> HIDE DEF a, b, c
  <1>6. k + (n - k + 1) = n + 1 /\ Len(t) = n + 1 /\ DOMAIN t = 1..(n + 1)
    <2>1. k + (n - k + 1) = n + 1
      BY <1>1
    <2> HIDE DEF t
    <2> QED
      BY <1>5, <2>1, LenProperties
  <1> DEFINE was(i) == IF i < k THEN i ELSE i - 1
  <1>7. ASSUME NEW i \in 1..(n + 1)
        PROVE  t[i] = IF i = k THEN e ELSE s[was(i)]
    <2>1. CASE i < k
      <3>1. i \in 1..(k - 1) /\ i <= k /\ i # k /\ was(i) = i
        BY <1>1, <2>1
      <3> HIDE DEF was
      <3> QED
        BY <1>4, <1>5, <1>6, <3>1
    <2>2. CASE i = k
      BY <1>1, <1>4, <1>5, <1>6, <2>2
    <2>3. CASE i > k
      <3>1. /\ ~(i <= k) /\ i # k /\ was(i) = i - 1 /\ i - k \in 1..(n - k + 1)
            /\ k + (i - k) - 1 = i - 1
        BY <1>1, <2>3
      <3> HIDE DEF was
      <3> QED
        BY <1>3, <1>5, <1>6, <3>1
    <2>4. i < k \/ i = k \/ i > k
      BY <1>1
    <2> QED
      BY <2>1, <2>2, <2>3, <2>4
  <1>8. /\ \A i \in 1..(n + 1) : i # k => was(i) \in 1..n
        /\ \A i, j \in 1..(n + 1) : i # k /\ j # k /\ was(i) = was(j) => i = j
    BY <1>1
  <1> HIDE DEF was, t
  <1>9. IsInjective(t)
    <2>1. \A i, j \in 1..n : s[i] = s[j] => i = j
      BY <1>1 DEF IsInjective
    <2>2. \A i \in 1..n : s[i] # e
      BY <1>1 DEF ToSet
    <2>3. \A i \in 1..(n + 1) : i # k => t[i] # e
      BY <1>7, <1>8, <2>2
    <2>4. \A i, j \in 1..(n + 1) : t[i] = t[j] => i = j
      BY <1>7, <1>8, <2>1, <2>3
    <2> QED
      BY <1>6, <2>4 DEF IsInjective
  <1>10. InsertAt(s, k, e) = t
    BY DEF InsertAt, t, a, b, c
  <1> QED
    BY <1>5, <1>9, <1>10

\* The lists without a block.
LEMMA WithoutTypes ==
  ASSUME PageTypeOK, NEW i \in BlockIds
  PROVE  /\ Without(i) \in [Parents -> Seq(BlockIds)]
         /\ \A p \in Parents : IsInjective(Without(i)[p]) /\ i \notin ToSet(Without(i)[p])
  <1>1. kids \in [Parents -> Seq(BlockIds)] /\ \A p \in Parents : IsInjective(kids[p])
    BY PageTypes
  <1>2. ASSUME NEW p \in Parents
        PROVE  /\ Without(i)[p] \in Seq(BlockIds) /\ IsInjective(Without(i)[p])
               /\ i \notin ToSet(Without(i)[p])
    <2> DEFINE s == kids[p]
               k == CHOOSE j \in DOMAIN s : s[j] = i
    <2>1. s \in Seq(BlockIds) /\ DOMAIN s = 1..Len(s) /\ IsInjective(s)
      BY <1>1, LenProperties
    <2>2. CASE i \in ToSet(s)
      <3>1. \E j \in DOMAIN s : s[j] = i
        BY <2>2 DEF ToSet
      <3>2. k \in DOMAIN s /\ s[k] = i
        BY <3>1
      <3>3. Without(i)[p] = RemoveAt(s, k)
        BY <2>2 DEF Without
      <3> HIDE DEF s, k
      <3> QED
        BY <2>1, <3>2, <3>3, RemoveKeeps
    <2>3. CASE i \notin ToSet(s)
      <3>1. Without(i)[p] = s
        BY <2>3 DEF Without
      <3> QED
        BY <2>1, <2>3, <3>1
    <2> QED
      BY <2>2, <2>3
  <1>3. Without(i) = [p \in Parents |-> Without(i)[p]]
    BY DEF Without
  <1> QED
    BY <1>2, <1>3

\* Users edit the page: the lists they change are no longer old.
LEMMA EditPageKeeps ==
  ASSUME PageInv, NEW i \in BlockIds, EditPage(i)
  PROVE  PageInv'
  <1>1. /\ Requesting /\ edits < MaxBlockEdits /\ edits' = edits + 1
        /\ \/ kids' = Without(i)
           \/ \E p \in Parents, k \in Nat :
                /\ k \in 1..(Len(Without(i)[p]) + 1)
                /\ kids' = [Without(i) EXCEPT ![p] = InsertAt(@, k, i)]
        /\ touched' = [p \in Parents |-> IF kids'[p] = kids[p] THEN touched[p] ELSE edits']
        /\ UNCHANGED <<at, attempt, updated, frames, blocks>>
    <2>1. \A p \in (OnPage \cup {Page}) \ {i} : p \in Parents
      BY DEF OnPage, Parents
    <2>2. \A n \in Nat : 1..(n + 1) \subseteq Nat
      OBVIOUS
    <2>3. \A p \in Parents : Len(Without(i)[p]) \in Nat
      BY WithoutTypes, LenProperties DEF PageInv
    <2>4. \/ kids' = Without(i)
          \/ \E p \in (OnPage \cup {Page}) \ {i} :
               \E k \in 1..(Len(Without(i)[p]) + 1) :
                 kids' = [Without(i) EXCEPT ![p] = InsertAt(@, k, i)]
      BY DEF EditPage
    <2> QED
      BY <2>1, <2>2, <2>3, <2>4 DEF EditPage, fetch
  <1>2. PageTypeOK /\ StackOK(frames, kids, Old) /\ kids \in [Parents -> Seq(BlockIds)]
        /\ frames \in Seq(Calls) /\ edits \in Nat /\ updated \in 0..edits
        /\ touched \in [Parents -> 0..edits]
    BY PageTypes DEF PageInv, PageTypeOK
  <1>3. /\ kids' \in [Parents -> Seq(BlockIds)]
        /\ \A p \in Parents : IsInjective(kids'[p])
    <2>1. /\ Without(i) \in [Parents -> Seq(BlockIds)]
          /\ \A p \in Parents : IsInjective(Without(i)[p]) /\ i \notin ToSet(Without(i)[p])
      BY <1>2, WithoutTypes
    <2>2. CASE kids' = Without(i)
      BY <2>1, <2>2
    <2>3. ASSUME NEW p \in Parents, NEW k \in 1..(Len(Without(i)[p]) + 1),
                 kids' = [Without(i) EXCEPT ![p] = InsertAt(@, k, i)]
          PROVE  /\ kids' \in [Parents -> Seq(BlockIds)]
                 /\ \A r \in Parents : IsInjective(kids'[r])
      <3> DEFINE s == Without(i)[p]
      <3>1. s \in Seq(BlockIds) /\ IsInjective(s) /\ i \notin ToSet(s) /\ k \in 1..(Len(s) + 1)
        BY <2>1
      <3>2. kids' = [Without(i) EXCEPT ![p] = InsertAt(s, k, i)]
        BY <2>3
      <3> HIDE DEF s
      <3>3. InsertAt(s, k, i) \in Seq(BlockIds) /\ IsInjective(InsertAt(s, k, i))
        BY <3>1, InsertKeeps
      <3> QED
        BY <2>1, <3>2, <3>3
    <2> QED
      BY <1>1, <2>2, <2>3
  <1>4. PageTypeOK'
    <2>1. edits' \in 0..MaxBlockEdits /\ updated' \in 0..edits'
      BY <1>1, <1>2, PageAssumption
    <2>2. touched' \in [Parents -> 0..edits']
      <3>1. \A p \in Parents : touched[p] \in 0..edits' /\ edits' \in 0..edits'
        BY <1>1, <1>2
      <3> QED
        BY <1>1, <3>1
    <2> QED
      BY <1>1, <1>2, <1>3, <2>1, <2>2 DEF PageTypeOK
  <1>5. /\ Old' \subseteq Old
        /\ \A p \in Parents : p \in Old' => kids'[p] = kids[p]
    <2>1. ASSUME NEW p \in Parents, kids'[p] # kids[p] PROVE p \notin Old'
      <3>1. touched'[p] = edits + 1 /\ updated' = updated /\ ~(edits + 1 <= updated)
        BY <1>1, <1>2, <2>1
      <3> QED
        BY <3>1 DEF Old
    <2>2. ASSUME NEW p \in Parents, kids'[p] = kids[p] PROVE p \in Old' => p \in Old
      BY <1>1, <2>2 DEF Old
    <2>3. Old' \subseteq Parents
      BY DEF Old
    <2> QED
      BY <2>1, <2>2, <2>3
  <1>6. StackOK(frames', kids', Old')
    BY <1>1, <1>2, <1>3, <1>5, OlderStack
  <1>7. at' # "done"
    BY <1>1 DEF Requesting
  <1> QED
    BY <1>4, <1>6, <1>7 DEF PageInv

\* A request is made again, or the fetch fails.
LEMMA FailureKeeps == PageInv /\ (Repeat \/ Abort) => PageInv'
  <1> SUFFICES ASSUME PageInv, Repeat \/ Abort PROVE PageInv'
    OBVIOUS
  <1>1. UNCHANGED <<kids, touched, edits, updated, blocks>> /\ Requesting
    BY DEF Repeat, Abort, notion
  <1>2. PageTypeOK /\ attempt \in Nat
    BY PageTypes DEF PageInv
  <1>3. Old' = Old
    BY <1>1 DEF Old
  <1>4. CASE Repeat
    <2>1. attempt < MaxTries /\ attempt' = attempt + 1 /\ UNCHANGED <<at, frames>>
      BY <1>4 DEF Repeat
    <2>2. attempt' \in 1..(IF MaxTries = 0 THEN 1 ELSE MaxTries)
      <3>1. MaxTries \in Nat
        BY PageAssumption
      <3>2. attempt + 1 \in 1..MaxTries /\ MaxTries # 0
        BY <1>2, <2>1, <3>1
      <3> QED
        BY <2>1, <3>2
    <2>3. PageTypeOK'
      BY <1>1, <1>2, <2>1, <2>2 DEF PageTypeOK
    <2> QED
      BY <1>1, <1>3, <2>1, <2>3 DEF PageInv
  <1>5. CASE Abort
    <2>1. at' = "error" /\ frames' = << >> /\ attempt' = 1
      BY <1>5 DEF Abort
    <2>2. frames' \in Seq(Calls) /\ attempt' \in 1..(IF MaxTries = 0 THEN 1 ELSE MaxTries)
      BY <1>2, <2>1, EmptySeq, PageTypes
    <2>3. at # "done"
      BY <1>1 DEF Requesting
    <2>4. PageTypeOK'
      BY <1>1, <1>2, <2>1, <2>2, <2>3 DEF PageTypeOK
    <2>5. StackOK(frames', kids', Old')
      <3>1. Len(frames') = 0
        BY <2>1, EmptySeq
      <3> QED
        BY <3>1 DEF StackOK
    <2> QED
      BY <2>1, <2>4, <2>5 DEF PageInv
  <1> QED
    BY <1>4, <1>5

\* Every step.
LEMMA PageStepKeeps == PageInv /\ [PageNext]_pageVars => PageInv'
  <1> SUFFICES ASSUME PageInv, [PageNext]_pageVars PROVE PageInv'
    OBVIOUS
  <1>1. CASE UNCHANGED pageVars
    BY <1>1 DEF pageVars, notion, fetch, PageInv, PageTypeOK, Old
  <1>2. CASE \E i \in BlockIds : EditPage(i)
    BY <1>2, EditPageKeeps
  <1> QED
    BY <1>1, <1>2, RetrievePageKeeps, ListBlockChildrenKeeps, ReadResultKeeps, ReturnKeeps,
       FailureKeeps
    DEF PageNext, FetchStep, RefuseCursor

\* At first nothing has been fetched.
LEMMA PageInitially == PageInit \/ NoPage => PageInv
  <1> SUFFICES ASSUME PageInit \/ NoPage PROVE PageInv
    OBVIOUS
  <1>1. /\ touched = [p \in Parents |-> 0] /\ edits = 0 /\ at \in {"none", "page"}
        /\ attempt = 1 /\ updated = 0 /\ frames = << >> /\ blocks = << >>
    BY DEF PageInit, NoPage
  <1>2. /\ kids \in [Parents -> Seq(BlockIds)]
        /\ \A p \in Parents : IsInjective(kids[p])
    <2>1. ASSUME NEW s \in Ascending PROVE s \in Seq(BlockIds) /\ IsInjective(s)
      <3>1. PICK n \in 0..MaxBlocks : s \in [1..n -> BlockIds]
        BY DEF Ascending
      <3>2. s \in Seq(BlockIds)
        BY <3>1, PageAssumption, SeqDef
      <3>3. \A k, m \in 1..n : s[k] \in Nat /\ (k < m => s[k] < s[m])
        BY <3>1 DEF Ascending, BlockIds
      <3>4. ASSUME NEW k \in 1..n, NEW m \in 1..n, s[k] = s[m] PROVE k = m
        <4>1. ~(k < m) /\ ~(m < k)
          BY <3>3, <3>4
        <4> QED
          BY <4>1
      <3> QED
        BY <3>1, <3>2, <3>4 DEF IsInjective
    <2>2. CASE PageInit
      <3>1. kids \in [Parents -> Ascending]
        BY <2>2 DEF PageInit
      <3> QED
        BY <2>1, <3>1
    <2>3. CASE NoPage
      <3>1. \A p \in Parents : kids[p] = << >>
        BY <2>3 DEF NoPage
      <3>2. << >> \in Seq(BlockIds) /\ IsInjective(<< >>)
        BY EmptySeq DEF IsInjective
      <3> QED
        BY <2>3, <3>1, <3>2 DEF NoPage
    <2> QED
      BY <2>2, <2>3
  <1>3. attempt \in 1..(IF MaxTries = 0 THEN 1 ELSE MaxTries) /\ edits \in 0..MaxBlockEdits
    BY <1>1, PageAssumption
  <1>4. frames \in Seq(Calls) /\ blocks \in Seq(Entries) /\ Len(frames) = 0
    BY <1>1, EmptySeq
  <1>5. PageTypeOK
    BY <1>1, <1>2, <1>3, <1>4 DEF PageTypeOK
  <1>6. StackOK(frames, kids, Old)
    BY <1>4 DEF StackOK
  <1> QED
    BY <1>1, <1>5, <1>6 DEF PageInv

\* The invariant holds throughout.
LEMMA PageAlways == PageSpec => []PageInv
  BY PageInitially, PageStepKeeps, PTL DEF PageSpec

-----------------------------------------------------------------------------
(* The adapter: it finds documents or fetches one, and keeps both invariants.  *)

AdapterInv == RequestInv /\ DiscoveryInv /\ StoredOK /\ ItemsOK /\ PageInv

LEMMA AdapterAlways == AdapterSpec => []AdapterInv
  <1>1. AdapterInit => (RequestInit \/ StoredInit) /\ (PageInit \/ NoPage)
    BY DEF AdapterInit, NoRequest
  <1>2. [AdapterNext]_adapterVars => [RequestNext]_requestVars /\ [PageNext]_pageVars
    BY DEF AdapterNext, adapterVars
  <1>3. RequestInit \/ StoredInit => StoredOK
    BY DEF RequestInit, StoredInit, StoredOK
  <1>4. AdapterInit => AdapterInv
    BY <1>1, <1>3, RequestInitially, DiscoveryInitially, ItemsInitially, PageInitially DEF AdapterInv
  <1>5. AdapterInv /\ [AdapterNext]_adapterVars => AdapterInv'
    <2> SUFFICES ASSUME AdapterInv, [AdapterNext]_adapterVars PROVE AdapterInv'
      OBVIOUS
    <2>1. [RequestNext]_requestVars /\ [PageNext]_pageVars
      BY <1>2
    <2>2. RequestInv'
      BY <2>1, RequestStepKeeps DEF AdapterInv
    <2>3. DiscoveryInv' /\ StoredOK'
      BY <2>1, FoundStepKeeps DEF AdapterInv
    <2>4. ItemsOK'
      BY <2>1, ItemsStepKeeps DEF AdapterInv
    <2>5. PageInv'
      BY <2>1, PageStepKeeps DEF AdapterInv
    <2> QED
      BY <2>2, <2>3, <2>4, <2>5 DEF AdapterInv
  <1> QED
    BY <1>4, <1>5, PTL DEF AdapterSpec

\* The types of all that the adapter keeps, and of what it reads of Notion; no request
\* for a page or its blocks is made more than MaxTries times (client.go:87-141).
THEOREM AdapterTypesAlwaysHold == AdapterSpec => []AdapterTypeOK
  <1>1. AdapterInv => AdapterTypeOK
    BY DEF AdapterInv, DiscoveryInv, ItemsOK, PageInv, AdapterTypeOK
  <1> QED
    BY <1>1, AdapterAlways, PTL

\* What starts with a path has it as a prefix.
LEMMA PrefixOf ==
  ASSUME NEW a \in Seq(Parents), NEW path \in Seq(Parents), Extends(a, path)
  PROVE  IsPrefix(path, a)
  <1>1. Len(a) \in Nat /\ Len(path) \in Nat /\ Len(path) <= Len(a)
    BY LenProperties DEF Extends
  <1>2. \A k \in 1..Len(path) : path[k] \in Parents /\ a[k] = path[k]
    BY ElementOfSeq DEF Extends
  <1> DEFINE n == Len(path)
             p == SubSeq(path, 1, n)
             b == SubSeq(a, 1, n)
  <1>3. 1 \in Int /\ n \in Int /\ \A k \in 1..n : 1 + k - 1 = k
    BY <1>1
  <1>3a. n - 1 + 1 = n
    BY <1>1
  <1>4. /\ p \in Seq(Parents) /\ Len(p) = IF 1 <= n THEN n - 1 + 1 ELSE 0
        /\ \A k \in 1..(n - 1 + 1) : p[k] = path[1 + k - 1]
    BY <1>2, <1>3, SubSeqProperties
  <1>5. \A k \in 1..n : a[k] \in Parents
    BY <1>2
  <1>6. /\ b \in Seq(Parents) /\ Len(b) = IF 1 <= n THEN n - 1 + 1 ELSE 0
        /\ \A k \in 1..(n - 1 + 1) : b[k] = a[1 + k - 1]
    BY <1>3, <1>5, SubSeqProperties
  <1> HIDE DEF p, b
  <1>7. p = b
    <2>1. Len(p) = n
      BY <1>1, <1>4
    <2>2. \A k \in 1..n : p[k] = b[k]
      BY <1>2, <1>3, <1>3a, <1>4, <1>6
    <2> QED
      BY <1>4, <1>6, <2>1, <2>2, SeqEqual
  <1> QED
    BY <1>1, <1>7 DEF IsPrefix, p, b

\* A document that has all the blocks of a list has the list.
LEMMA HasItsList ==
  ASSUME NEW doc \in Seq(Entries), NEW path, NEW ids \in Seq(BlockIds),
         HasFirst(doc, path, ids, Len(ids))
  PROVE  HasList(doc, path, ids)
  <1> DEFINE P == {m \in DOMAIN doc : doc[m].above = path}
  <1>1. DOMAIN doc = 1..Len(doc) /\ DOMAIN ids = 1..Len(ids)
    BY LenProperties
  <1>2. \A m \in P : \E k \in DOMAIN ids : ids[k] = doc[m].id
    BY <1>1 DEF HasFirst
  <1>3. \A k \in DOMAIN ids : \E m \in P : doc[m].id = ids[k]
    BY <1>1 DEF HasFirst
  <1>4. ASSUME NEW m \in P, NEW n \in P, m < n
        PROVE  \E k, l \in DOMAIN ids : k < l /\ ids[k] = doc[m].id /\ ids[l] = doc[n].id
    <2>1. m \in 1..Len(doc) /\ n \in 1..Len(doc) /\ doc[m].above = path /\ doc[n].above = path
      BY <1>1
    <2>2. \E k, l \in 1..Len(ids) : k < l /\ ids[k] = doc[m].id /\ ids[l] = doc[n].id
      BY <1>4, <2>1 DEF HasFirst
    <2> QED
      BY <1>1, <2>2
  <1> HIDE DEF P
  <1>5. {doc[m].id : m \in P} = ToSet(ids)
    BY <1>2, <1>3 DEF ToSet
  <1> QED
    BY <1>4, <1>5 DEF HasList, P

\* What the converter is given is in preorder.
LEMMA DocumentIsPreorder ==
  ASSUME PageInv, at = "done"
  PROVE  IsPreorder(blocks)
  <1> DEFINE n == Len(blocks)
  <1>1. blocks \in Seq(Entries) /\ n \in Nat /\ DOMAIN blocks = 1..n /\ IsTrees(blocks, <<Page>>)
    BY LenProperties DEF PageInv, PageTypeOK, DocumentOK
  <1>2. ASSUME NEW m \in 1..n
        PROVE  IF m = 1 THEN blocks[m].above = <<Page>>
               ELSE /\ blocks[m].above # << >>
                    /\ IsPrefix(blocks[m].above, Append(blocks[m - 1].above, blocks[m - 1].id))
    <2>1. CASE m = 1
      <3>1. n > 0
        BY <1>1
      <3> QED
        BY <1>1, <2>1, <3>1 DEF IsTrees
    <2>2. CASE m # 1
      <3>1. m - 1 \in 1..(n - 1) /\ m - 1 \in 1..n /\ (m - 1) + 1 = m
        BY <1>1, <2>2
      <3>2. /\ Extends(Own(blocks, m - 1), blocks[m].above) /\ Extends(blocks[m].above, <<Page>>)
        BY <1>1, <3>1 DEF IsTrees
      <3>3. /\ Own(blocks, m - 1) \in Seq(Parents) /\ blocks[m].above \in Seq(Parents)
            /\ Len(blocks[m].above) \in Nat
        BY <1>1, <3>1, EntryTypes
      <3>4. IsPrefix(blocks[m].above, Own(blocks, m - 1))
        BY <3>2, <3>3, PrefixOf
      <3>5. Len(blocks[m].above) >= 1
        BY <3>2, <3>3 DEF Extends
      <3>6. blocks[m].above # << >>
        BY <3>5, EmptySeq
      <3> QED
        BY <2>2, <3>4, <3>6 DEF Own
    <2> QED
      BY <2>1, <2>2
  <1> QED
    BY <1>1, <1>2 DEF IsPreorder

\* A document has every list that nobody changed since its edit time was read, nor any
\* list that is in, once and in order, however its answers were cut, whatever failed and
\* was asked for again, and whatever else was edited meanwhile: a page with the edit time
\* of its document has nothing else (adapter.go:208-220, 325-354).
THEOREM DocumentsAreNeverOlder == AdapterSpec => []DocumentIsNotOlderThanItsTime
  <1>1. ASSUME PageInv PROVE DocumentIsNotOlderThanItsTime
    <2> SUFFICES ASSUME at = "done" PROVE DocumentIsNotOlderThanItsTime
      BY DEF DocumentIsNotOlderThanItsTime
    <2>1. /\ blocks \in Seq(Entries) /\ DOMAIN blocks = 1..Len(blocks)
          /\ kids \in [Parents -> Seq(BlockIds)] /\ DocumentOK(blocks, kids, Old)
      BY <1>1, LenProperties DEF PageInv, PageTypeOK
    <2>2. \A path \in Seq(Parents) : Still(path) => ToSet(path) \subseteq Old
      <3> SUFFICES ASSUME NEW path \in Seq(Parents), Still(path) PROVE ToSet(path) \subseteq Old
        OBVIOUS
      <3>1. ToSet(path) \subseteq Parents
        BY LenProperties, ElementOfSeq DEF ToSet
      <3> QED
        BY <3>1 DEF Still, Old
    <2>3. ASSUME Still(<<Page>>) PROVE HasList(blocks, <<Page>>, kids[Last(<<Page>>)])
      <3>1. /\ <<Page>> \in Seq(Parents) /\ Last(<<Page>>) = Page /\ Page \in ToSet(<<Page>>)
            /\ Page \in Parents
        BY DEF Parents, Last, ToSet
      <3>2. HasFirst(blocks, <<Page>>, kids[Page], Len(kids[Page])) /\ kids[Page] \in Seq(BlockIds)
        BY <2>1, <2>2, <2>3, <3>1 DEF DocumentOK
      <3> QED
        BY <2>1, <3>1, <3>2, HasItsList
    <2>4. ASSUME NEW e \in ToSet(blocks), Still(Append(e.above, e.id))
          PROVE  HasList(blocks, Append(e.above, e.id), kids[Last(Append(e.above, e.id))])
      <3>1. PICK m \in 1..Len(blocks) : e = blocks[m]
        BY <2>1 DEF ToSet
      <3>2. /\ Own(blocks, m) \in Seq(Parents) /\ e.id \in BlockIds /\ e.above \in Seq(Parents)
            /\ Own(blocks, m) = Append(e.above, e.id)
        BY <2>1, <3>1, EntryTypes DEF Own
      <3>3. Last(Append(e.above, e.id)) = e.id
        BY <3>2, AppendExtends
      <3>4. kids[e.id] \in Seq(BlockIds)
        BY <2>1, <3>2 DEF Parents
      <3>5. HasFirst(blocks, Own(blocks, m), kids[e.id], Len(kids[e.id]))
        BY <2>1, <2>2, <2>4, <3>1, <3>2 DEF DocumentOK, IsFull
      <3> QED
        BY <2>1, <3>2, <3>3, <3>4, <3>5, HasItsList
    <2>5. IsPreorder(blocks)
      BY <1>1, DocumentIsPreorder
    <2> QED
      BY <2>3, <2>4, <2>5 DEF DocumentIsNotOlderThanItsTime
  <1> QED
    BY <1>1, AdapterAlways, PTL DEF AdapterInv

-----------------------------------------------------------------------------
(* What is written of a document: the functions are defined.                   *)

\* A function of 0 to n has one value at 0, and others made of those at two later places.
IsMadeOf(f, n, b, a, c, F) == f[0] = b /\ \A k \in 1..n : f[k] = F[<<k, f[a[k]], f[c[k]]>>]

\* There is one.
LEMMA LaterFirst ==
  ASSUME NEW n \in Nat, NEW D, NEW b \in D, NEW a \in [1..n -> 0..n], NEW c \in [1..n -> 0..n],
         \A k \in 1..n : (a[k] = 0 \/ a[k] > k) /\ (c[k] = 0 \/ c[k] > k),
         NEW F \in [(1..n) \X D \X D -> D]
  PROVE  \E f \in [0..n -> D] : IsMadeOf(f, n, b, a, c, F)
  <1> DEFINE IsMade(f, j) == f[0] = b /\ \A k \in 1..n : k > n - j => f[k] = F[<<k, f[a[k]], f[c[k]]>>]
             P == {j \in 0..n : \E f \in [0..n -> D] : IsMade(f, j)}
  <1>1. 0 \in P
    <2> DEFINE f == [k \in 0..n |-> b]
    <2>1. f \in [0..n -> D] /\ f[0] = b
      OBVIOUS
    <2>2. \A k \in 1..n : ~(k > n - 0)
      OBVIOUS
    <2> HIDE DEF f
    <2>3. \E g \in [0..n -> D] : IsMade(g, 0)
      BY <2>1, <2>2
    <2>4. 0 \in 0..n
      OBVIOUS
    <2> QED
      BY <2>3, <2>4
  <1>2. ASSUME NEW j \in 1..n, j - 1 \in P PROVE j \in P
    <2>1. PICK g \in [0..n -> D] : IsMade(g, j - 1)
      BY <1>2
    <2> DEFINE i == n - j + 1
               v == F[<<i, g[a[i]], g[c[i]]>>]
               f == [g EXCEPT ![i] = v]
    <2>2. i \in 1..n /\ n - (j - 1) = i
      OBVIOUS
    <2> HIDE DEF i
    <2>3. a[i] \in 0..n /\ c[i] \in 0..n /\ g[a[i]] \in D /\ g[c[i]] \in D
      BY <2>2
    <2>4. v \in D
      BY <2>2, <2>3
    <2> HIDE DEF v
    <2>5. f \in [0..n -> D] /\ f[i] = v /\ \A k \in 0..n : k # i => f[k] = g[k]
      BY <2>2, <2>4
    <2> HIDE DEF f
    <2>6. f[0] = b
      <3>1. 0 # i /\ 0 \in 0..n
        BY <2>2
      <3> QED
        BY <2>1, <2>5, <3>1
    <2>7. ASSUME NEW k \in 1..n, k > n - j PROVE f[k] = F[<<k, f[a[k]], f[c[k]]>>]
      <3>1. k = i \/ k > i
        BY <2>2, <2>7
      <3>2. a[k] \in 0..n /\ c[k] \in 0..n /\ a[k] # i /\ c[k] # i
        <4>1. a[k] \in 0..n /\ c[k] \in 0..n /\ (a[k] = 0 \/ a[k] > k) /\ (c[k] = 0 \/ c[k] > k)
          OBVIOUS
        <4> QED
          BY <2>2, <3>1, <4>1
      <3>3. f[a[k]] = g[a[k]] /\ f[c[k]] = g[c[k]]
        BY <2>5, <3>2
      <3>4. CASE k = i
        BY <2>5, <3>3, <3>4 DEF v
      <3>5. CASE k > i
        <4>1. k # i /\ k \in 0..n /\ k > n - (j - 1)
          BY <2>2, <3>5
        <4>2. f[k] = g[k] /\ g[k] = F[<<k, g[a[k]], g[c[k]]>>]
          BY <2>1, <2>5, <4>1
        <4> QED
          BY <3>3, <4>2
      <3> QED
        BY <3>1, <3>4, <3>5
    <2>8. \E h \in [0..n -> D] : IsMade(h, j)
      BY <2>5, <2>6, <2>7
    <2>9. j \in 0..n
      OBVIOUS
    <2> QED
      BY <2>8, <2>9
  <1>3. n \in P
    <2> HIDE DEF P
    <2>1. \A k \in 0..n : k \in P
      BY <1>1, <1>2, UpTo
    <2> QED
      BY <2>1
  <1>4. PICK f \in [0..n -> D] : IsMade(f, n)
    BY <1>3
  <1>5. \A k \in 1..n : k > n - n
    OBVIOUS
  <1> QED
    BY <1>4, <1>5 DEF IsMadeOf

\* What holds of each number up to n, if it holds of all the greater ones, holds of all.
LEMMA FromTheLast ==
  ASSUME NEW n \in Nat, NEW P,
         \A k \in 1..n : (\A m \in 1..n : m > k => m \in P) => k \in P
  PROVE  \A k \in 1..n : k \in P
  <1> DEFINE Q == {j \in 0..n : \A m \in 1..n : m > n - j => m \in P}
  <1>1. 0 \in Q
    OBVIOUS
  <1>2. ASSUME NEW j \in 1..n, j - 1 \in Q PROVE j \in Q
    <2> DEFINE i == n - j + 1
    <2>1. i \in 1..n /\ j \in 0..n
      OBVIOUS
    <2>2. \A m \in 1..n : m > n - (j - 1) => m \in P
      BY <1>2
    <2>3. \A m \in 1..n : m > i => m \in P
      BY <2>2
    <2>4. i \in P
      BY <2>1, <2>3
    <2>5. \A m \in 1..n : m > n - j => m = i \/ m > i
      OBVIOUS
    <2> HIDE DEF i
    <2> QED
      BY <2>1, <2>3, <2>4, <2>5
  <1>3. n \in Q
    <2> HIDE DEF Q
    <2>1. \A k \in 0..n : k \in Q
      BY <1>1, <1>2, UpTo
    <2> QED
      BY <2>1
  <1> QED
    BY <1>3

-----------------------------------------------------------------------------
(* What is written of a document: its lists.                                   *)

\* How deep the blocks of a document are.
HasLevels(doc) ==
  /\ Len(doc) \in Nat /\ DOMAIN doc = 1..Len(doc)
  /\ \A k \in 1..Len(doc) : Level(doc, k) \in Nat /\ Level(doc, k) >= 1
  /\ \A k \in 1..Len(doc) : IF k = 1 THEN Level(doc, k) = 1 ELSE Level(doc, k) <= Level(doc, k - 1) + 1

\* All that is in a block, and all that is in a list from a block on.
Inside(doc, k) == {m \in 1..Len(doc) : IsWithin(doc, m, k)}
ListFrom(doc, k) == {m \in k..Len(doc) : \A j \in k..m : Level(doc, j) >= Level(doc, k)}
After(doc, k) == IF next(doc, k) = Nowhere THEN {} ELSE ListFrom(doc, next(doc, k))

\* The list of what is in a block.
LEMMA FirstChildIs ==
  ASSUME NEW doc, HasLevels(doc), NEW k \in 1..Len(doc)
  PROVE  \/ firstChild(doc, k) = Nowhere /\ Inside(doc, k) = {}
         \/ /\ firstChild(doc, k) = k + 1 /\ k + 1 \in 1..Len(doc)
            /\ Level(doc, k + 1) = Level(doc, k) + 1
            /\ Inside(doc, k) = ListFrom(doc, k + 1)
  <1> DEFINE n == Len(doc)
  <1>1. n \in Nat /\ \A j \in 1..n : Level(doc, j) \in Nat
    BY DEF HasLevels
  <1>2. CASE ~(k < n /\ Level(doc, k + 1) > Level(doc, k))
    <2>1. ASSUME NEW m \in 1..n, IsWithin(doc, m, k) PROVE FALSE
      <3>1. m > k /\ k + 1 \in (k + 1)..m /\ k < n
        BY <1>1, <2>1 DEF IsWithin
      <3> QED
        BY <1>2, <2>1, <3>1 DEF IsWithin
    <2> QED
      BY <1>2, <2>1 DEF firstChild, Inside
  <1>3. CASE k < n /\ Level(doc, k + 1) > Level(doc, k)
    <2>1. k + 1 \in 1..n /\ k + 1 # 1 /\ (k + 1) - 1 = k
      BY <1>1, <1>3
    <2>2. Level(doc, k + 1) <= Level(doc, k) + 1
      BY <2>1 DEF HasLevels
    <2>3. Level(doc, k + 1) = Level(doc, k) + 1
      BY <1>1, <1>3, <2>1, <2>2
    <2>4. ASSUME NEW m \in 1..n PROVE IsWithin(doc, m, k) <=> m \in ListFrom(doc, k + 1)
      <3>1. \A j \in (k + 1)..m : j \in 1..n /\ Level(doc, j) \in Nat
        BY <1>1, <2>1
      <3>2. \A j \in (k + 1)..m : Level(doc, j) > Level(doc, k) <=> Level(doc, j) >= Level(doc, k + 1)
        BY <1>1, <2>3, <3>1
      <3>3. k < m <=> m \in (k + 1)..n
        OBVIOUS
      <3> QED
        BY <3>2, <3>3 DEF IsWithin, ListFrom
    <2>5. \A m \in ListFrom(doc, k + 1) : m \in 1..n
      BY <2>1 DEF ListFrom
    <2>6. Inside(doc, k) = ListFrom(doc, k + 1)
      BY <2>4, <2>5 DEF Inside
    <2> QED
      BY <1>3, <2>1, <2>3, <2>6 DEF firstChild
  <1> QED
    BY <1>2, <1>3

LEMMA NextIs ==
  ASSUME NEW doc, HasLevels(doc), NEW k \in 1..Len(doc)
  PROVE  \/ next(doc, k) = Nowhere /\ \A m \in (k + 1)..Len(doc) : ~IsNext(doc, k, m)
         \/ /\ next(doc, k) \in (k + 1)..Len(doc) /\ next(doc, k) \in 1..Len(doc)
            /\ next(doc, k) # Nowhere /\ IsNext(doc, k, next(doc, k))
  <1>1. CASE \E m \in (k + 1)..Len(doc) : IsNext(doc, k, m)
    <2>1. next(doc, k) \in (k + 1)..Len(doc) /\ IsNext(doc, k, next(doc, k))
      BY <1>1 DEF next
    <2>2. Len(doc) \in Nat
      BY DEF HasLevels
    <2> HIDE DEF next
    <2>3. next(doc, k) \in 1..Len(doc) /\ next(doc, k) # 0
      BY <2>1, <2>2
    <2> QED
      BY <2>1, <2>3 DEF Nowhere
  <1>2. CASE ~\E m \in (k + 1)..Len(doc) : IsNext(doc, k, m)
    BY <1>2 DEF next
  <1> QED
    BY <1>1, <1>2

\* A list is its first block, what is in that, and the rest.
LEMMA ListFromIs ==
  ASSUME NEW doc, HasLevels(doc), NEW k \in 1..Len(doc)
  PROVE  ListFrom(doc, k) = {k} \cup Inside(doc, k) \cup After(doc, k)
  <1> DEFINE n == Len(doc)
             x == next(doc, k)
  <1>1. n \in Nat /\ \A j \in 1..n : Level(doc, j) \in Nat
    BY DEF HasLevels
  <1>2. k \in ListFrom(doc, k)
    <2>1. k \in k..n /\ \A j \in k..k : j = k
      BY <1>1
    <2>2. Level(doc, k) >= Level(doc, k)
      BY <1>1
    <2> QED
      BY <2>1, <2>2 DEF ListFrom
  <1>3. ASSUME NEW m \in Inside(doc, k) PROVE m \in ListFrom(doc, k)
    <2>1. m \in 1..n /\ k < m /\ \A j \in (k + 1)..m : Level(doc, j) > Level(doc, k)
      BY <1>3 DEF Inside, IsWithin
    <2>2. m \in k..n /\ \A j \in k..m : j \in 1..n /\ (j = k \/ j \in (k + 1)..m)
      BY <1>1, <2>1
    <2>3. \A j \in k..m : Level(doc, j) >= Level(doc, k)
      <3> TAKE j \in k..m
      <3>1. Level(doc, j) \in Nat /\ Level(doc, k) \in Nat /\ (j = k \/ Level(doc, j) > Level(doc, k))
        BY <1>1, <2>1, <2>2
      <3> QED
        BY <3>1
    <2> QED
      BY <2>2, <2>3 DEF ListFrom
  <1>4. ASSUME NEW m \in After(doc, k) PROVE m \in ListFrom(doc, k)
    <2>1. x # Nowhere /\ m \in ListFrom(doc, x)
      BY <1>4 DEF After
    <2>2. x \in (k + 1)..n /\ x \in 1..n /\ IsNext(doc, k, x)
      BY <2>1, NextIs
    <2> HIDE DEF x
    <2>3. m \in x..n /\ Level(doc, x) = Level(doc, k) /\ m \in k..n
      BY <1>1, <2>1, <2>2 DEF ListFrom, IsNext
    <2>4. ASSUME NEW j \in k..m PROVE Level(doc, j) >= Level(doc, k)
      <3>1. j \in 1..n /\ (j = k \/ j \in (k + 1)..(x - 1) \/ j \in x..m)
        BY <1>1, <2>2, <2>3
      <3>2. j = k \/ Level(doc, j) > Level(doc, k) \/ Level(doc, j) >= Level(doc, k)
        BY <2>1, <2>2, <2>3, <3>1 DEF IsNext, ListFrom
      <3>3. Level(doc, j) \in Nat /\ Level(doc, k) \in Nat
        BY <1>1, <3>1
      <3> QED
        BY <3>2, <3>3
    <2> QED
      BY <2>3, <2>4 DEF ListFrom
  <1>5. ASSUME NEW m \in ListFrom(doc, k), m # k, m \notin Inside(doc, k)
        PROVE  m \in After(doc, k)
    <2>1. m \in k..n /\ m \in 1..n /\ k < m /\ \A j \in k..m : Level(doc, j) >= Level(doc, k)
      BY <1>1, <1>5 DEF ListFrom
    <2> DEFINE T == {j \in (k + 1)..m : ~(Level(doc, j) > Level(doc, k))}
    <2>2. T # {}
      BY <1>5, <2>1 DEF Inside, IsWithin
    <2>3. T \in SUBSET Nat
      BY <1>1
    <2>4. PICK y \in T : \A j \in T : y <= j
      BY <2>2, <2>3, LeastNumber
    <2>5. y \in (k + 1)..m /\ y \in 1..n /\ y \in (k + 1)..n
      BY <1>1, <2>1
    <2>6. Level(doc, y) = Level(doc, k)
      <3>1. Level(doc, y) \in Nat /\ Level(doc, k) \in Nat /\ y \in k..m
        BY <1>1, <2>5
      <3>2. Level(doc, y) >= Level(doc, k) /\ ~(Level(doc, y) > Level(doc, k))
        BY <2>1, <3>1
      <3> QED
        BY <3>1, <3>2
    <2>7. \A j \in (k + 1)..(y - 1) : Level(doc, j) > Level(doc, k)
      <3> TAKE j \in (k + 1)..(y - 1)
      <3>1. m \in Nat /\ k \in Nat
        BY <1>1, <2>1
      <3>2. ~(y <= j) /\ j \in (k + 1)..m
        BY <2>5, <3>1
      <3> QED
        BY <2>4, <3>2
    <2> HIDE DEF T
    <2>8. IsNext(doc, k, y)
      BY <2>6, <2>7 DEF IsNext
    <2>9. x \in (k + 1)..n /\ x \in 1..n /\ x # Nowhere /\ IsNext(doc, k, x)
      BY <2>5, <2>8, NextIs
    <2> HIDE DEF x
    <2>10. x <= y
      <3>1. \A j \in (k + 1)..(x - 1) : Level(doc, j) # Level(doc, k)
        <4> TAKE j \in (k + 1)..(x - 1)
        <4>1. Level(doc, j) > Level(doc, k) /\ j \in 1..n
          BY <2>9 DEF IsNext
        <4>2. Level(doc, j) \in Nat /\ Level(doc, k) \in Nat
          BY <1>1, <4>1
        <4> QED
          BY <4>1, <4>2
      <3>2. y \notin (k + 1)..(x - 1)
        BY <2>6, <3>1
      <3> QED
        BY <2>5, <2>9, <3>2
    <2>11. m \in x..n /\ \A j \in x..m : j \in k..m
      BY <1>1, <2>1, <2>5, <2>9, <2>10
    <2>12. Level(doc, x) = Level(doc, k)
      BY <2>9 DEF IsNext
    <2>13. m \in ListFrom(doc, x)
      BY <2>1, <2>11, <2>12 DEF ListFrom
    <2> QED
      BY <2>9, <2>13 DEF After, x
  <1> QED
    BY <1>2, <1>3, <1>4, <1>5

\* What follows in a list is later, and not in what comes before it.
LEMMA AfterIsLater ==
  ASSUME NEW doc, HasLevels(doc), NEW k \in 1..Len(doc),
         NEW v \in {k} \cup Inside(doc, k), NEW w \in After(doc, k)
  PROVE  v \in k..Len(doc) /\ w \in (k + 1)..Len(doc) /\ v < w /\ ~IsWithin(doc, w, v)
  <1> DEFINE n == Len(doc)
             x == next(doc, k)
  <1>1. n \in Nat /\ \A j \in 1..n : Level(doc, j) \in Nat
    BY DEF HasLevels
  <1>2. x # Nowhere /\ w \in ListFrom(doc, x)
    BY DEF After
  <1>3. x \in (k + 1)..n /\ x \in 1..n /\ Level(doc, x) = Level(doc, k)
    BY <1>2, NextIs DEF IsNext
  <1> HIDE DEF x
  <1>4. w \in x..n /\ w \in (k + 1)..n
    BY <1>1, <1>2, <1>3 DEF ListFrom
  <1>5. v \in k..n /\ \A j \in (k + 1)..v : Level(doc, j) > Level(doc, k)
    BY <1>1 DEF Inside, IsWithin
  <1>6. v < x
    <2>1. ~(Level(doc, x) > Level(doc, k))
      BY <1>1, <1>3
    <2>2. x \notin (k + 1)..v
      BY <1>5, <2>1
    <2> QED
      BY <1>1, <1>3, <1>5, <2>2
  <1>7. Level(doc, v) >= Level(doc, k)
    <2>1. v \in 1..n /\ (v = k \/ v \in (k + 1)..v)
      BY <1>1, <1>5
    <2>2. Level(doc, v) \in Nat /\ Level(doc, k) \in Nat
      BY <1>1, <2>1
    <2>3. v = k \/ Level(doc, v) > Level(doc, k)
      BY <1>5, <2>1
    <2> QED
      BY <2>2, <2>3
  <1>8. ~IsWithin(doc, w, v)
    <2>1. x \in (v + 1)..w
      BY <1>1, <1>3, <1>4, <1>5, <1>6
    <2>2. ~(Level(doc, x) > Level(doc, v))
      <3>1. Level(doc, v) \in Nat /\ Level(doc, k) \in Nat
        BY <1>1, <1>5
      <3> QED
        BY <1>3, <1>7, <3>1
    <2> QED
      BY <2>1, <2>2 DEF IsWithin
  <1>9. v < w
    BY <1>1, <1>3, <1>4, <1>5, <1>6
  <1> QED
    BY <1>4, <1>5, <1>8, <1>9

\* A block is in one block only, and so is the next in its list.
LEMMA OneParent ==
  ASSUME NEW doc, HasLevels(doc), NEW m \in 1..Len(doc), NEW p \in 1..Len(doc),
         NEW q \in 1..Len(doc), IsChild(doc, m, p), IsChild(doc, m, q)
  PROVE  p = q
  <1>1. \A j \in 1..Len(doc) : Level(doc, j) \in Nat
    BY DEF HasLevels
  <1>2. ASSUME NEW a \in 1..Len(doc), NEW b \in 1..Len(doc), a < b,
               IsChild(doc, m, a), IsChild(doc, m, b)
        PROVE  FALSE
    <2>1. /\ b < m /\ Level(doc, m) = Level(doc, a) + 1 /\ Level(doc, m) = Level(doc, b) + 1
          /\ \A j \in (a + 1)..m : Level(doc, j) > Level(doc, a)
      BY <1>2 DEF IsChild, IsWithin
    <2>2. b \in (a + 1)..m
      BY <1>2, <2>1
    <2>3. Level(doc, a) \in Nat /\ Level(doc, b) \in Nat /\ Level(doc, b) > Level(doc, a)
      BY <1>1, <2>1, <2>2
    <2> QED
      BY <2>1, <2>3
  <1>3. ~(p < q) /\ ~(q < p)
    BY <1>2
  <1> QED
    BY <1>3

LEMMA NextHasParent ==
  ASSUME NEW doc, HasLevels(doc), NEW k \in 1..Len(doc), next(doc, k) # Nowhere,
         NEW p \in 1..Len(doc)
  PROVE  IsChild(doc, next(doc, k), p) <=> IsChild(doc, k, p)
  <1> DEFINE n == Len(doc)
             x == next(doc, k)
  <1>1. n \in Nat /\ \A j \in 1..n : Level(doc, j) \in Nat
    BY DEF HasLevels
  <1>2. /\ x \in (k + 1)..n /\ x \in 1..n /\ Level(doc, x) = Level(doc, k)
        /\ \A j \in (k + 1)..(x - 1) : Level(doc, j) > Level(doc, k)
    BY NextIs DEF IsNext
  <1> HIDE DEF x
  <1>3. ASSUME IsChild(doc, x, p) PROVE IsChild(doc, k, p)
    <2>1. /\ p < x /\ Level(doc, k) = Level(doc, p) + 1
          /\ \A j \in (p + 1)..x : Level(doc, j) > Level(doc, p)
      BY <1>2, <1>3 DEF IsChild, IsWithin
    <2>2. Level(doc, p) \in Nat /\ ~(Level(doc, p) > Level(doc, k)) /\ p # k
      BY <1>1, <2>1
    <2>3. p \notin (k + 1)..(x - 1)
      BY <1>2, <2>2
    <2>4. p < k
      BY <1>2, <2>1, <2>2, <2>3
    <2>5. \A j \in (p + 1)..k : j \in (p + 1)..x
      BY <1>2, <2>4
    <2> QED
      BY <2>1, <2>4, <2>5 DEF IsChild, IsWithin
  <1>4. ASSUME IsChild(doc, k, p) PROVE IsChild(doc, x, p)
    <2>1. /\ p < k /\ Level(doc, k) = Level(doc, p) + 1
          /\ \A j \in (p + 1)..k : Level(doc, j) > Level(doc, p)
      BY <1>4 DEF IsChild, IsWithin
    <2>2. p < x
      BY <1>2, <2>1
    <2>3. ASSUME NEW j \in (p + 1)..x PROVE Level(doc, j) > Level(doc, p)
      <3>1. j \in 1..n /\ (j \in (p + 1)..k \/ j \in (k + 1)..(x - 1) \/ j = x)
        BY <1>1, <1>2, <2>1
      <3>2. Level(doc, j) \in Nat /\ Level(doc, p) \in Nat /\ Level(doc, k) \in Nat
        BY <1>1, <3>1
      <3>3. Level(doc, j) > Level(doc, p) \/ Level(doc, j) > Level(doc, k) \/ Level(doc, j) = Level(doc, k)
        BY <1>2, <2>1, <3>1
      <3> QED
        BY <2>1, <3>2, <3>3
    <2> QED
      BY <1>2, <2>1, <2>2, <2>3 DEF IsChild, IsWithin
  <1> QED
    BY <1>3, <1>4 DEF x

-----------------------------------------------------------------------------
(* What is written of a document: its blocks.                                  *)

Nests == {"list", "quote", "toggle"}

\* What is written of a list of blocks from one on, and the rows there.
WrittenIn(doc, kind, k) ==
  IF k = Nowhere THEN {}
  ELSE {m \in ListFrom(doc, k) :
          /\ ~HasRow(doc, kind, m)
          /\ \A p \in k..Len(doc) : IsWithin(doc, m, p) =>
               kind[p] \in Nests \/ (IsRow(doc, kind, m) /\ IsChild(doc, m, p))}
RowsIn(doc, kind, k) ==
  IF k = Nowhere THEN {}
  ELSE {m \in ListFrom(doc, k) : Level(doc, m) = Level(doc, k) /\ kind[m] = "row"}

\* What is written of a block, and of what is in it.
WrittenInside(doc, kind, k) ==
  IF kind[k] \in Nests THEN WrittenIn(doc, kind, firstChild(doc, k))
  ELSE IF kind[k] = "table" THEN RowsIn(doc, kind, firstChild(doc, k)) ELSE {}
WrittenOf(doc, kind, k) ==
  (IF HasRow(doc, kind, k) THEN {} ELSE {k}) \cup WrittenInside(doc, kind, k)

\* A block that is directly in another.
LEMMA ChildIs ==
  ASSUME NEW doc, HasLevels(doc), NEW k \in 1..Len(doc), NEW m \in Inside(doc, k),
         Level(doc, m) = Level(doc, k) + 1
  PROVE  /\ IsChild(doc, m, k)
         /\ \A p \in k..Len(doc) : IsWithin(doc, m, p) => p = k
  <1>1. /\ m \in 1..Len(doc) /\ IsWithin(doc, m, k)
        /\ \A j \in (k + 1)..m : Level(doc, j) > Level(doc, k)
    BY DEF Inside, IsWithin
  <1>2. ASSUME NEW p \in k..Len(doc), IsWithin(doc, m, p), p # k PROVE FALSE
    <2>1. /\ p < m /\ \A j \in (p + 1)..m : Level(doc, j) > Level(doc, p)
      BY <1>2 DEF IsWithin
    <2>2. p \in (k + 1)..m /\ m \in (p + 1)..m /\ p \in 1..Len(doc)
      BY <1>1, <1>2, <2>1
    <2>3. Level(doc, m) > Level(doc, p) /\ Level(doc, p) > Level(doc, k)
      BY <1>1, <2>1, <2>2
    <2>4. Level(doc, p) \in Nat /\ Level(doc, k) \in Nat
      BY <2>2 DEF HasLevels
    <2> QED
      BY <2>3, <2>4
  <1> QED
    BY <1>1, <1>2 DEF IsChild

\* Of a block only the rows that are directly in it, or what is written of the list in
\* it, or nothing more.
LEMMA InsideIs ==
  ASSUME NEW doc, HasLevels(doc), NEW kind, NEW k \in 1..Len(doc)
  PROVE  /\ WrittenInside(doc, kind, k) \subseteq Inside(doc, k)
         /\ \A m \in Inside(doc, k) :
              m \in WrittenIn(doc, kind, k) <=> m \in WrittenInside(doc, kind, k)
  <1> DEFINE n == Len(doc)
             c == firstChild(doc, k)
  <1>1. n \in Nat /\ DOMAIN doc = 1..n /\ k # Nowhere /\ \A j \in 1..n : Level(doc, j) \in Nat
    BY DEF HasLevels, Nowhere
  <1>2. \/ c = Nowhere /\ Inside(doc, k) = {}
        \/ c = k + 1 /\ c # Nowhere /\ c \in 1..n /\ Level(doc, c) = Level(doc, k) + 1 /\ Inside(doc, k) = ListFrom(doc, c)
    <2>1. k + 1 # Nowhere
      BY DEF Nowhere
    <2> QED
      BY <2>1, FirstChildIs
  <1>3. WrittenInside(doc, kind, k) \subseteq Inside(doc, k)
    BY <1>2 DEF WrittenInside, WrittenIn, RowsIn
  <1>4. ASSUME NEW m \in Inside(doc, k)
        PROVE  m \in WrittenIn(doc, kind, k) <=> m \in WrittenInside(doc, kind, k)
    <2>1. /\ c = k + 1 /\ c # Nowhere /\ c \in 1..n /\ Level(doc, c) = Level(doc, k) + 1
          /\ m \in ListFrom(doc, c) /\ m \in ListFrom(doc, k) /\ m \in 1..n /\ IsWithin(doc, m, k)
      BY <1>2, <1>4, ListFromIs DEF Inside
    <2> DEFINE Fits(p) == kind[p] \in Nests \/ (IsRow(doc, kind, m) /\ IsChild(doc, m, p))
    <2>2. m \in WrittenIn(doc, kind, k) <=>
            /\ ~HasRow(doc, kind, m)
            /\ \A p \in k..n : IsWithin(doc, m, p) => Fits(p)
      BY <1>1, <2>1 DEF WrittenIn
    <2>3. \A p \in k..n : p = k \/ p \in c..n
      BY <2>1
    <2>4. k \in k..n /\ \A p \in c..n : p \in k..n
      BY <2>1
    <2> HIDE DEF c
    <2>5. CASE kind[k] \in Nests
      <3>1. Fits(k)
        BY <2>5
      <3>2. m \in WrittenIn(doc, kind, c) <=>
              /\ ~HasRow(doc, kind, m)
              /\ \A p \in c..n : IsWithin(doc, m, p) => Fits(p)
        BY <2>1 DEF WrittenIn
      <3>3. WrittenInside(doc, kind, k) = WrittenIn(doc, kind, c)
        BY <2>5 DEF WrittenInside, c
      <3> HIDE DEF Fits
      <3> QED
        BY <2>2, <2>3, <2>4, <3>1, <3>2, <3>3
    <2>6. CASE kind[k] = "table"
      <3>1. kind[k] \notin Nests
        BY <2>6 DEF Nests
      <3>2. WrittenInside(doc, kind, k) = RowsIn(doc, kind, c)
        BY <2>6, <3>1 DEF WrittenInside, c
      <3>3. m \in WrittenInside(doc, kind, k) <=> Level(doc, m) = Level(doc, k) + 1 /\ kind[m] = "row"
        BY <2>1, <3>2 DEF RowsIn
      <3>4. ASSUME m \in WrittenIn(doc, kind, k) PROVE m \in WrittenInside(doc, kind, k)
        <4>1. Fits(k)
          BY <2>1, <2>2, <2>4, <3>4
        <4>2. IsRow(doc, kind, m) /\ IsChild(doc, m, k)
          BY <3>1, <4>1
        <4> QED
          BY <3>3, <4>2 DEF IsRow, IsChild
      <3>5. ASSUME m \in WrittenInside(doc, kind, k) PROVE m \in WrittenIn(doc, kind, k)
        <4>1. IsChild(doc, m, k) /\ \A p \in k..n : IsWithin(doc, m, p) => p = k
          BY <1>4, <3>3, <3>5, ChildIs
        <4>2. kind[m] = "row" /\ ~HasRow(doc, kind, m)
          BY <3>3, <3>5 DEF HasRow
        <4>3. IsRow(doc, kind, m)
          BY <1>1, <2>6, <4>1, <4>2 DEF IsRow
        <4> QED
          BY <2>2, <4>1, <4>2, <4>3
      <3> QED
        BY <3>4, <3>5
    <2>7. CASE kind[k] \notin Nests /\ kind[k] # "table"
      <3>1. WrittenInside(doc, kind, k) = {}
        BY <2>7 DEF WrittenInside
      <3>2. ASSUME m \in WrittenIn(doc, kind, k) PROVE FALSE
        <4>1. Fits(k)
          BY <2>1, <2>2, <2>4, <3>2
        <4>2. IsRow(doc, kind, m) /\ IsChild(doc, m, k)
          BY <2>7, <4>1
        <4>3. PICK q \in 1..n : IsChild(doc, m, q) /\ kind[q] = "table"
          BY <1>1, <4>2 DEF IsRow
        <4>4. q = k
          BY <2>1, <4>2, <4>3, OneParent
        <4> QED
          BY <2>7, <4>3, <4>4
      <3> QED
        BY <3>1, <3>2
    <2> QED
      BY <2>5, <2>6, <2>7
  <1> QED
    BY <1>3, <1>4

\* What is written of a list is what is written of its first block and of the rest.
LEMMA WrittenIs ==
  ASSUME NEW doc, HasLevels(doc), NEW kind, NEW k \in 1..Len(doc)
  PROVE  /\ WrittenIn(doc, kind, k) = WrittenOf(doc, kind, k) \cup WrittenIn(doc, kind, next(doc, k))
         /\ WrittenOf(doc, kind, k) \subseteq {k} \cup Inside(doc, k)
         /\ WrittenIn(doc, kind, next(doc, k)) \subseteq After(doc, k)
  <1> DEFINE n == Len(doc)
             x == next(doc, k)
  <1>1. n \in Nat /\ k # Nowhere
    BY DEF HasLevels, Nowhere
  <1>2. WrittenOf(doc, kind, k) \subseteq {k} \cup Inside(doc, k)
    BY InsideIs DEF WrittenOf
  <1>3. WrittenIn(doc, kind, x) \subseteq After(doc, k)
    BY DEF WrittenIn, After
  <1>4. k \in WrittenIn(doc, kind, k) <=> ~HasRow(doc, kind, k)
    <2>1. \A p \in k..n : ~IsWithin(doc, k, p)
      BY <1>1 DEF IsWithin
    <2>2. k \in ListFrom(doc, k)
      BY ListFromIs
    <2> QED
      BY <1>1, <2>1, <2>2 DEF WrittenIn
  <1>5. ASSUME NEW m \in After(doc, k)
        PROVE  m \in WrittenIn(doc, kind, k) <=> m \in WrittenIn(doc, kind, x)
    <2>1. x # Nowhere /\ m \in ListFrom(doc, x) /\ m \in ListFrom(doc, k)
      BY <1>5, ListFromIs DEF After
    <2>2. x \in (k + 1)..n /\ x \in ListFrom(doc, k)
      <3>1. x \in (k + 1)..n /\ x \in 1..n
        BY <2>1, NextIs
      <3>2. x \in ListFrom(doc, x)
        BY <3>1, ListFromIs
      <3> QED
        BY <2>1, <3>1, <3>2, ListFromIs DEF After
    <2>3. ASSUME NEW p \in k..n, IsWithin(doc, m, p) PROVE p \in x..n
      <3>1. CASE p \in ListFrom(doc, k)
        <4>1. p \notin {k} \cup Inside(doc, k)
          BY <1>5, <2>3, AfterIsLater
        <4>2. p \in ListFrom(doc, x)
          BY <3>1, <4>1, ListFromIs DEF After
        <4> QED
          BY <4>2 DEF ListFrom
      <3>2. CASE p \notin ListFrom(doc, k)
        <4>1. PICK j \in k..p : ~(Level(doc, j) >= Level(doc, k))
          BY <3>2 DEF ListFrom
        <4>2. p < m
          BY <2>3 DEF IsWithin
        <4>3. j \in k..m
          BY <1>1, <2>3, <4>1, <4>2, <2>1 DEF ListFrom
        <4> QED
          BY <2>1, <4>1, <4>3 DEF ListFrom
      <3> QED
        BY <3>1, <3>2
    <2>4. \A p \in x..n : p \in k..n
      BY <2>2
    <2> HIDE DEF x
    <2> QED
      BY <1>1, <2>1, <2>3, <2>4 DEF WrittenIn
  <1>6. ListFrom(doc, k) = {k} \cup Inside(doc, k) \cup After(doc, k)
    BY ListFromIs
  <1>7. /\ k \notin Inside(doc, k) /\ k \notin After(doc, k)
        /\ \A m \in Inside(doc, k) : m \notin After(doc, k)
    <2>1. k \notin Inside(doc, k)
      BY DEF Inside, IsWithin
    <2>2. ASSUME NEW v \in {k} \cup Inside(doc, k), v \in After(doc, k) PROVE FALSE
      <3>1. v \in k..n /\ v < v
        BY <2>2, AfterIsLater
      <3> QED
        BY <1>1, <3>1
    <2> QED
      BY <2>1, <2>2
  <1>8. WrittenIn(doc, kind, k) \subseteq ListFrom(doc, k)
    BY DEF WrittenIn
  <1>9. \A m \in Inside(doc, k) : m \in WrittenIn(doc, kind, k) <=> m \in WrittenOf(doc, kind, k)
    BY <1>7, InsideIs DEF WrittenOf
  <1>10. k \in WrittenIn(doc, kind, k) <=> k \in WrittenOf(doc, kind, k)
    <2>1. k \notin WrittenInside(doc, kind, k)
      BY <1>7, InsideIs
    <2> QED
      BY <1>4, <2>1 DEF WrittenOf
  <1> QED
    BY <1>2, <1>3, <1>5, <1>6, <1>7, <1>8, <1>9, <1>10

LEMMA RowsAre ==
  ASSUME NEW doc, HasLevels(doc), NEW kind, NEW k \in 1..Len(doc)
  PROVE  /\ RowsIn(doc, kind, k) =
              (IF kind[k] = "row" THEN {k} ELSE {}) \cup RowsIn(doc, kind, next(doc, k))
         /\ RowsIn(doc, kind, next(doc, k)) \subseteq After(doc, k)
  <1> DEFINE x == next(doc, k)
  <1>1. k # Nowhere /\ \A j \in 1..Len(doc) : Level(doc, j) \in Nat
    BY DEF HasLevels, Nowhere
  <1>2. ListFrom(doc, k) = {k} \cup Inside(doc, k) \cup After(doc, k)
    BY ListFromIs
  <1>3. ASSUME NEW m \in Inside(doc, k) PROVE Level(doc, m) # Level(doc, k)
    <2>1. m \in 1..Len(doc) /\ Level(doc, m) > Level(doc, k)
      BY <1>3 DEF Inside, IsWithin
    <2>2. Level(doc, m) \in Nat /\ Level(doc, k) \in Nat
      BY <1>1, <2>1
    <2> QED
      BY <2>1, <2>2
  <1>4. x # Nowhere => Level(doc, x) = Level(doc, k) /\ After(doc, k) = ListFrom(doc, x)
    BY NextIs DEF IsNext, After
  <1>5. x = Nowhere => After(doc, k) = {}
    BY DEF After
  <1>6. RowsIn(doc, kind, x) = {m \in After(doc, k) : Level(doc, m) = Level(doc, k) /\ kind[m] = "row"}
    <2> HIDE DEF x
    <2> QED
      BY <1>4, <1>5 DEF RowsIn
  <1>7. RowsIn(doc, kind, k) = {m \in ListFrom(doc, k) : Level(doc, m) = Level(doc, k) /\ kind[m] = "row"}
    BY <1>1 DEF RowsIn
  <1> QED
    BY <1>2, <1>3, <1>6, <1>7

\* A table has a row if there is one in the list in it.
LEMMA HasRowIs ==
  ASSUME NEW doc, HasLevels(doc), NEW kind, NEW k \in 1..Len(doc), kind[k] = "table"
  PROVE  HasRow(doc, kind, k) <=> RowsIn(doc, kind, firstChild(doc, k)) # {}
  <1> DEFINE c == firstChild(doc, k)
  <1>1. DOMAIN doc = 1..Len(doc) /\ k + 1 # Nowhere
    BY DEF HasLevels, Nowhere
  <1>2. HasRow(doc, kind, k) <=> \E m \in 1..Len(doc) : IsChild(doc, m, k) /\ kind[m] = "row"
    BY <1>1 DEF HasRow
  <1>3. CASE c = Nowhere /\ Inside(doc, k) = {}
    BY <1>2, <1>3 DEF RowsIn, Inside, IsChild
  <1>4. CASE c = k + 1 /\ Level(doc, c) = Level(doc, k) + 1 /\ Inside(doc, k) = ListFrom(doc, c)
    <2>1. RowsIn(doc, kind, c) = {m \in Inside(doc, k) : Level(doc, m) = Level(doc, k) + 1 /\ kind[m] = "row"}
      BY <1>1, <1>4 DEF RowsIn
    <2>2. \A m \in 1..Len(doc) : IsChild(doc, m, k) => m \in Inside(doc, k) /\ Level(doc, m) = Level(doc, k) + 1
      BY DEF IsChild, Inside
    <2>3. \A m \in Inside(doc, k) : m \in 1..Len(doc) /\ (Level(doc, m) = Level(doc, k) + 1 => IsChild(doc, m, k))
      BY DEF IsChild, Inside
    <2> QED
      BY <1>2, <2>1, <2>2, <2>3
  <1> QED
    BY <1>3, <1>4, FirstChildIs

-----------------------------------------------------------------------------
(* What is written of a document: its lines, warnings and attachments.         *)

OutLines == [block : Nat, form : {"text", "placeholder", "close"}, indent : Nat]
Outputs == [lines : Seq(OutLines), warnings : Seq(Nat), attachments : Seq(Nat)]

IsOrdered(s, R) == \A i, j \in 1..Len(s) : i < j => <<s[i], s[j]>> \in R
LineOrder(doc) == {p \in OutLines \X OutLines : InOrder(doc, p[1], p[2])}
Apart == {p \in Nat \X Nat : p[1] # p[2]}

IndentOf(doc, kind, k) == IF kind[k] = "list" THEN Level(doc, k) - 1 ELSE 0

\* What is written are the blocks of F, then some of these, of C, are closed; it has the
\* attachments of A and the warnings of N, all in order.
Has(doc, kind, out, F, C, A, N0) ==
  /\ out \in Outputs
  /\ \A l \in ToSet(out.lines) : IF l.form = "close" THEN l.block \in C ELSE l.block \in F
  /\ \A k \in F : \E l \in ToSet(out.lines) : l.block = k /\ l.form # "close"
  /\ \A k \in C : \E l \in ToSet(out.lines) : l.block = k /\ l.form = "close"
  /\ \A l \in ToSet(out.lines) : l.indent = IndentOf(doc, kind, l.block)
  /\ IsOrdered(out.lines, LineOrder(doc))
  /\ ToSet(out.attachments) = A
  /\ IsOrdered(out.attachments, Below)
  /\ ToSet(out.warnings) = N0
  /\ IsOrdered(out.warnings, Apart)

\* Two sequences that are sorted, all of the first before all of the second.
LEMMA OrderedJoined ==
  ASSUME NEW S, NEW s \in Seq(S), NEW t \in Seq(S), NEW R, IsOrdered(s, R), IsOrdered(t, R),
         \A x \in ToSet(s), y \in ToSet(t) : <<x, y>> \in R
  PROVE  /\ s \o t \in Seq(S)
         /\ ToSet(s \o t) = ToSet(s) \cup ToSet(t)
         /\ IsOrdered(s \o t, R)
  <1> DEFINE u == s \o t
             n == Len(s)
  <1>1. /\ u \in Seq(S) /\ n \in Nat /\ Len(t) \in Nat /\ Len(u) = n + Len(t)
        /\ DOMAIN s = 1..n /\ DOMAIN t = 1..Len(t) /\ DOMAIN u = 1..Len(u)
    BY LenProperties, ConcatProperties
  <1>2. \A i \in 1..n : u[i] = s[i] /\ i \in 1..Len(u)
    BY <1>1, ConcatProperties
  <1>3. \A i \in 1..Len(t) : u[n + i] = t[i] /\ n + i \in 1..Len(u)
    <2> TAKE i \in 1..Len(t)
    <2>1. n + i \in 1..Len(u) /\ n + i > n /\ (n + i) - n = i
      BY <1>1
    <2> QED
      BY <1>1, <2>1, ConcatProperties
  <1>4. \A i \in 1..Len(u) : i \in 1..n \/ \E j \in 1..Len(t) : i = n + j
    <2> TAKE i \in 1..Len(u)
    <2>1. i \in 1..n \/ (i - n \in 1..Len(t) /\ i = n + (i - n))
      BY <1>1
    <2> QED
      BY <2>1
  <1> HIDE DEF u, n
  <1>5. ToSet(u) = ToSet(s) \cup ToSet(t)
    <2>1. ASSUME NEW x \in ToSet(u) PROVE x \in ToSet(s) \cup ToSet(t)
      <3>1. PICK i \in 1..Len(u) : x = u[i]
        BY <1>1, <2>1 DEF ToSet, u
      <3>2. CASE i \in 1..n
        BY <1>1, <1>2, <3>1, <3>2 DEF ToSet
      <3>3. CASE i \notin 1..n
        <4>1. PICK j \in 1..Len(t) : i = n + j
          BY <1>4, <3>3
        <4> QED
          BY <1>1, <1>3, <3>1, <4>1 DEF ToSet
      <3> QED
        BY <3>2, <3>3
    <2>2. ASSUME NEW x \in ToSet(s) PROVE x \in ToSet(u)
      BY <1>1, <1>2, <2>2 DEF ToSet, u
    <2>3. ASSUME NEW x \in ToSet(t) PROVE x \in ToSet(u)
      <3>1. PICK j \in 1..Len(t) : x = t[j]
        BY <1>1, <2>3 DEF ToSet
      <3>2. n + j \in DOMAIN u /\ u[n + j] = x
        BY <1>1, <1>3, <3>1 DEF u
      <3> QED
        BY <3>2 DEF ToSet
    <2> QED
      BY <2>1, <2>2, <2>3
  <1>6. ASSUME NEW i \in 1..Len(u), NEW j \in 1..Len(u), i < j PROVE <<u[i], u[j]>> \in R
    <2>1. CASE j \in 1..n
      <3>1. i \in 1..n
        BY <1>1, <1>6, <2>1
      <3> QED
        BY <1>2, <1>6, <2>1, <3>1 DEF IsOrdered, n
    <2>2. CASE j \notin 1..n
      <3>1. PICK b \in 1..Len(t) : j = n + b
        BY <1>4, <2>2
      <3>2. CASE i \in 1..n
        <4>1. u[i] \in ToSet(s) /\ u[j] \in ToSet(t)
          BY <1>1, <1>2, <1>3, <3>1, <3>2 DEF ToSet
        <4> QED
          BY <4>1
      <3>3. CASE i \notin 1..n
        <4>1. PICK a \in 1..Len(t) : i = n + a
          BY <1>4, <3>3
        <4>2. a < b
          BY <1>1, <1>6, <3>1, <4>1
        <4> QED
          BY <1>3, <3>1, <4>1, <4>2 DEF IsOrdered
      <3> QED
        BY <3>2, <3>3
    <2> QED
      BY <2>1, <2>2
  <1> QED
    BY <1>1, <1>5, <1>6 DEF IsOrdered, u

\* A sequence of one.
LEMMA OneIsOrdered ==
  ASSUME NEW S, NEW x \in S, NEW R
  PROVE  /\ <<x>> \in Seq(S) /\ ToSet(<<x>>) = {x} /\ IsOrdered(<<x>>, R)
         /\ << >> \in Seq(S) /\ ToSet(<< >>) = {} /\ IsOrdered(<< >>, R)
  <1>1. <<x>> \in Seq(S) /\ Len(<<x>>) = 1 /\ DOMAIN <<x>> = 1..1 /\ <<x>>[1] = x
    OBVIOUS
  <1>2. << >> \in Seq(S) /\ Len(<< >>) = 0 /\ DOMAIN << >> = {}
    OBVIOUS
  <1>3. ToSet(<<x>>) = {x} /\ ToSet(<< >>) = {}
    BY <1>1, <1>2 DEF ToSet
  <1>4. IsOrdered(<<x>>, R)
    <2>1. \A i, j \in 1..1 : ~(i < j)
      OBVIOUS
    <2> QED
      BY <1>1, <2>1 DEF IsOrdered
  <1>5. IsOrdered(<< >>, R)
    BY <1>2 DEF IsOrdered
  <1> QED
    BY <1>1, <1>2, <1>3, <1>4, <1>5

\* The parts of what is written.
LEMMA PartsHave ==
  ASSUME NEW doc, NEW kind, NEW k \in Nat
  PROVE  /\ Has(doc, kind, Nothing, {}, {}, {}, {})
         /\ Has(doc, kind, Warning(k), {}, {}, {}, {k})
         /\ Has(doc, kind, Attachment(k), {}, {}, {k}, {})
         /\ \A i \in Nat : i = IndentOf(doc, kind, k) =>
              /\ Has(doc, kind, Line(k, "text", i), {k}, {}, {}, {})
              /\ Has(doc, kind, Line(k, "placeholder", i), {k}, {}, {}, {})
              /\ Has(doc, kind, Line(k, "close", i), {}, {k}, {}, {})
  <1>1. /\ Warning(k) = [lines |-> << >>, warnings |-> <<k>>, attachments |-> << >>]
        /\ Attachment(k) = [lines |-> << >>, warnings |-> << >>, attachments |-> <<k>>]
        /\ \A f, i : Line(k, f, i) = [lines |-> <<[block |-> k, form |-> f, indent |-> i]>>,
                                      warnings |-> << >>, attachments |-> << >>]
    BY DEF Warning, Attachment, Line, Nothing
  <1>2. /\ <<k>> \in Seq(Nat) /\ ToSet(<<k>>) = {k} /\ IsOrdered(<<k>>, Below) /\ IsOrdered(<<k>>, Apart)
        /\ << >> \in Seq(Nat) /\ ToSet(<< >>) = {} /\ IsOrdered(<< >>, Below) /\ IsOrdered(<< >>, Apart)
    BY OneIsOrdered
  <1>3. ASSUME NEW f \in {"text", "placeholder", "close"}, NEW i \in Nat, i = IndentOf(doc, kind, k)
        PROVE  Has(doc, kind, Line(k, f, i), IF f = "close" THEN {} ELSE {k},
                   IF f = "close" THEN {k} ELSE {}, {}, {})
    <2> DEFINE l == [block |-> k, form |-> f, indent |-> i]
    <2>1. l \in OutLines /\ l.block = k /\ l.form = f /\ l.indent = i
      BY DEF OutLines
    <2> HIDE DEF l
    <2>2. <<l>> \in Seq(OutLines) /\ ToSet(<<l>>) = {l} /\ IsOrdered(<<l>>, LineOrder(doc))
      BY <2>1, OneIsOrdered
    <2>3. Line(k, f, i) = [lines |-> <<l>>, warnings |-> << >>, attachments |-> << >>]
      BY <1>1 DEF l
    <2>4. Line(k, f, i) \in Outputs
      BY <1>2, <2>2, <2>3 DEF Outputs
    <2> QED
      BY <1>2, <1>3, <2>1, <2>2, <2>3, <2>4 DEF Has
  <1>4. << >> \in Seq(OutLines) /\ IsOrdered(<< >>, LineOrder(doc))
    <2>1. Len(<< >>) = 0 /\ << >> \in Seq(OutLines)
      OBVIOUS
    <2> QED
      BY <2>1 DEF IsOrdered
  <1>5. Nothing \in Outputs /\ Warning(k) \in Outputs /\ Attachment(k) \in Outputs
    BY <1>1, <1>2, <1>4 DEF Outputs, Nothing
  <1>6. Has(doc, kind, Nothing, {}, {}, {}, {})
    BY <1>2, <1>4, <1>5 DEF Has, Nothing
  <1>7. Has(doc, kind, Warning(k), {}, {}, {}, {k})
    BY <1>1, <1>2, <1>4, <1>5 DEF Has
  <1>8. Has(doc, kind, Attachment(k), {}, {}, {k}, {})
    BY <1>1, <1>2, <1>4, <1>5 DEF Has
  <1>9. ASSUME NEW i \in Nat, i = IndentOf(doc, kind, k)
        PROVE  /\ Has(doc, kind, Line(k, "text", i), {k}, {}, {}, {})
               /\ Has(doc, kind, Line(k, "placeholder", i), {k}, {}, {}, {})
               /\ Has(doc, kind, Line(k, "close", i), {}, {k}, {}, {})
    <2>1. "text" # "close" /\ "placeholder" # "close"
      OBVIOUS
    <2> QED
      BY <1>3, <1>9, <2>1
  <1> QED
    BY <1>6, <1>7, <1>8, <1>9

\* One thing written after another.
LEMMA ThenHas ==
  ASSUME NEW doc, NEW kind, NEW out, NEW more,
         NEW F, NEW C, NEW A, NEW M, NEW G, NEW D, NEW B, NEW O,
         Has(doc, kind, out, F, C, A, M), Has(doc, kind, more, G, D, B, O),
         \A a \in F, b \in G : a < b,
         \A a \in F, b \in D : a < b \/ a = b \/ IsWithin(doc, a, b),
         \A a \in C, b \in G : a < b /\ a # b /\ ~IsWithin(doc, b, a),
         \A a \in C, b \in D : (a < b \/ IsWithin(doc, a, b)) /\ a # b /\ ~IsWithin(doc, b, a),
         \A a \in A, b \in B : a < b,
         \A a \in M, b \in O : a # b
  PROVE  Has(doc, kind, Then(out, more), F \cup G, C \cup D, A \cup B, M \cup O)
  <1> DEFINE T == Then(out, more)
  <1>1. /\ out.lines \in Seq(OutLines) /\ more.lines \in Seq(OutLines)
        /\ out.warnings \in Seq(Nat) /\ more.warnings \in Seq(Nat)
        /\ out.attachments \in Seq(Nat) /\ more.attachments \in Seq(Nat)
    BY DEF Has, Outputs
  <1>2. /\ T.lines = out.lines \o more.lines /\ T.warnings = out.warnings \o more.warnings
        /\ T.attachments = out.attachments \o more.attachments
        /\ T = [lines |-> T.lines, warnings |-> T.warnings, attachments |-> T.attachments]
    BY DEF Then
  <1> HIDE DEF T
  <1>3. ASSUME NEW S, NEW s \in Seq(S) PROVE ToSet(s) \subseteq S
    BY <1>3, ElementOfSeq, LenProperties DEF ToSet
  <1>4. ToSet(out.lines) \subseteq OutLines /\ ToSet(more.lines) \subseteq OutLines
    BY <1>1, <1>3
  <1>5. \A l \in ToSet(out.lines), m \in ToSet(more.lines) : <<l, m>> \in LineOrder(doc)
    <2> TAKE l \in ToSet(out.lines), m \in ToSet(more.lines)
    <2>1. IF l.form = "close" THEN l.block \in C ELSE l.block \in F
      BY DEF Has
    <2>2. IF m.form = "close" THEN m.block \in D ELSE m.block \in G
      BY DEF Has
    <2>3. InOrder(doc, l, m)
      <3>1. CASE l.form = "close" /\ m.form = "close"
        BY <2>1, <2>2, <3>1 DEF InOrder
      <3>2. CASE l.form = "close" /\ m.form # "close"
        BY <2>1, <2>2, <3>2 DEF InOrder
      <3>3. CASE l.form # "close" /\ m.form = "close"
        BY <2>1, <2>2, <3>3 DEF InOrder
      <3>4. CASE l.form # "close" /\ m.form # "close"
        BY <2>1, <2>2, <3>4 DEF InOrder
      <3> QED
        BY <3>1, <3>2, <3>3, <3>4
    <2>4. l \in OutLines /\ m \in OutLines
      BY <1>4
    <2> QED
      BY <2>3, <2>4 DEF LineOrder
  <1>6. /\ T.lines \in Seq(OutLines) /\ ToSet(T.lines) = ToSet(out.lines) \cup ToSet(more.lines)
        /\ IsOrdered(T.lines, LineOrder(doc))
    <2>1. IsOrdered(out.lines, LineOrder(doc)) /\ IsOrdered(more.lines, LineOrder(doc))
      BY DEF Has
    <2> QED
      BY <1>1, <1>2, <1>5, <2>1, OrderedJoined
  <1>7. /\ T.attachments \in Seq(Nat) /\ ToSet(T.attachments) = A \cup B
        /\ IsOrdered(T.attachments, Below)
    <2>1. /\ ToSet(out.attachments) = A /\ IsOrdered(out.attachments, Below)
          /\ ToSet(more.attachments) = B /\ IsOrdered(more.attachments, Below)
      BY DEF Has
    <2>2. A \subseteq Nat /\ B \subseteq Nat
      BY <1>1, <1>3, <2>1
    <2>3. \A a \in A, b \in B : <<a, b>> \in Below
      BY <2>2 DEF Below
    <2> QED
      BY <1>1, <1>2, <2>1, <2>3, OrderedJoined
  <1>8. /\ T.warnings \in Seq(Nat) /\ ToSet(T.warnings) = M \cup O
        /\ IsOrdered(T.warnings, Apart)
    <2>1. /\ ToSet(out.warnings) = M /\ IsOrdered(out.warnings, Apart)
          /\ ToSet(more.warnings) = O /\ IsOrdered(more.warnings, Apart)
      BY DEF Has
    <2>2. M \subseteq Nat /\ O \subseteq Nat
      BY <1>1, <1>3, <2>1
    <2>3. \A a \in M, b \in O : <<a, b>> \in Apart
      BY <2>2 DEF Apart
    <2> QED
      BY <1>1, <1>2, <2>1, <2>3, OrderedJoined
  <1>9. T \in Outputs
    BY <1>2, <1>6, <1>7, <1>8 DEF Outputs
  <1>10. \A l \in ToSet(T.lines) : IF l.form = "close" THEN l.block \in C \cup D ELSE l.block \in F \cup G
    BY <1>6 DEF Has
  <1>11. \A l \in ToSet(T.lines) : l.indent = IndentOf(doc, kind, l.block)
    BY <1>6 DEF Has
  <1>12. \A k \in F \cup G : \E l \in ToSet(T.lines) : l.block = k /\ l.form # "close"
    BY <1>6 DEF Has
  <1>13. \A k \in C \cup D : \E l \in ToSet(T.lines) : l.block = k /\ l.form = "close"
    BY <1>6 DEF Has
  <1> QED
    BY <1>6, <1>7, <1>8, <1>9, <1>10, <1>11, <1>12, <1>13 DEF Has, T

-----------------------------------------------------------------------------
(* What is written of a document: all that is to be, in order.                 *)

\* What is written are the blocks of W, with their closings, attachments and warnings.
Writes(doc, kind, out, W) ==
  Has(doc, kind, out, W, {k \in W : kind[k] = "toggle"}, {k \in W : kind[k] = "file"},
      {k \in W : IsWarnedOf(doc, kind, k)})

InTable(doc, kind, k) == \E p \in 1..Len(doc) : IsChild(doc, k, p) /\ kind[p] = "table"

LEMMA ThenWrites ==
  ASSUME NEW doc, NEW kind, NEW out, NEW more, NEW V \in SUBSET Nat, NEW W \in SUBSET Nat,
         Writes(doc, kind, out, V), Writes(doc, kind, more, W),
         \A v \in V, w \in W : v < w /\ (kind[v] = "toggle" => ~IsWithin(doc, w, v))
  PROVE  Writes(doc, kind, Then(out, more), V \cup W)
  <1> DEFINE C(X) == {k \in X : kind[k] = "toggle"}
             A(X) == {k \in X : kind[k] = "file"}
             M(X) == {k \in X : IsWarnedOf(doc, kind, k)}
  <1>1. \A v \in V, w \in W : v < w /\ v # w /\ (v \in C(V) => ~IsWithin(doc, w, v))
    <2> TAKE v \in V, w \in W
    <2>1. v \in Nat /\ w \in Nat /\ v < w /\ (kind[v] = "toggle" => ~IsWithin(doc, w, v))
      OBVIOUS
    <2> QED
      BY <2>1
  <1>2. C(V) \subseteq V /\ A(V) \subseteq V /\ M(V) \subseteq V
    OBVIOUS
  <1>3. C(W) \subseteq W /\ A(W) \subseteq W /\ M(W) \subseteq W
    OBVIOUS
  <1>4. Has(doc, kind, out, V, C(V), A(V), M(V)) /\ Has(doc, kind, more, W, C(W), A(W), M(W))
    BY DEF Writes
  <1>5. C(V) \cup C(W) = C(V \cup W) /\ A(V) \cup A(W) = A(V \cup W) /\ M(V) \cup M(W) = M(V \cup W)
    OBVIOUS
  <1>6. Has(doc, kind, Then(out, more), V \cup W, C(V \cup W), A(V \cup W), M(V \cup W))
    <2> HIDE DEF C, A, M
    <2>0. /\ \A a \in V, b \in W : a < b
          /\ \A a \in V, b \in C(W) : a < b \/ a = b \/ IsWithin(doc, a, b)
          /\ \A a \in C(V), b \in W : a < b /\ a # b /\ ~IsWithin(doc, b, a)
          /\ \A a \in C(V), b \in C(W) : (a < b \/ IsWithin(doc, a, b)) /\ a # b /\ ~IsWithin(doc, b, a)
          /\ \A a \in A(V), b \in A(W) : a < b
          /\ \A a \in M(V), b \in M(W) : a # b
      BY <1>1, <1>2, <1>3
    <2>1. Has(doc, kind, Then(out, more), V \cup W, C(V) \cup C(W), A(V) \cup A(W), M(V) \cup M(W))
      BY <1>4, <2>0, ThenHas
    <2> QED
      BY <1>5, <2>1
  <1> QED
    BY <1>6 DEF Writes

\* Nothing is what is written of no blocks.
LEMMA NothingIs ==
  ASSUME NEW doc, NEW kind, NEW out
  PROVE  Writes(doc, kind, out, {}) <=> out = Nothing
  <1>1. Writes(doc, kind, Nothing, {})
    BY PartsHave, 0 \in Nat DEF Writes
  <1>2. ASSUME NEW S, NEW s \in Seq(S), ToSet(s) = {} PROVE s = << >>
    <2>1. Len(s) \in Nat /\ DOMAIN s = 1..Len(s)
      BY LenProperties
    <2>2. \A i \in 1..Len(s) : FALSE
      BY <1>2, <2>1 DEF ToSet
    <2>3. Len(s) = 0
      <3>1. Len(s) > 0 => 1 \in 1..Len(s)
        BY <2>1
      <3> QED
        BY <2>1, <2>2, <3>1
    <2> QED
      BY <2>3, EmptySeq
  <1>3. ASSUME Writes(doc, kind, out, {}) PROVE out = Nothing
    <2>1. /\ out \in Outputs /\ ToSet(out.lines) = {} /\ ToSet(out.warnings) = {}
          /\ ToSet(out.attachments) = {}
      BY <1>3 DEF Writes, Has
    <2>2. /\ out.lines \in Seq(OutLines) /\ out.warnings \in Seq(Nat) /\ out.attachments \in Seq(Nat)
          /\ out = [lines |-> out.lines, warnings |-> out.warnings, attachments |-> out.attachments]
      BY <2>1 DEF Outputs
    <2>3. out.lines = << >> /\ out.warnings = << >> /\ out.attachments = << >>
      BY <1>2, <2>1, <2>2
    <2> QED
      BY <2>2, <2>3 DEF Nothing
  <1> QED
    BY <1>1, <1>3

\* A toggle is closed after all that is in it.
LEMMA ToggleWrites ==
  ASSUME NEW doc, NEW kind, NEW k \in Nat, kind[k] = "toggle", NEW children,
         NEW W \in SUBSET Nat, Writes(doc, kind, children, W),
         \A w \in W : k < w /\ IsWithin(doc, w, k)
  PROVE  Writes(doc, kind,
           Then(Then(Line(k, "text", 0), children), Then(Line(k, "close", 0), Warning(k))), {k} \cup W)
  <1> DEFINE C == {w \in W : kind[w] = "toggle"}
             A == {w \in W : kind[w] = "file"}
             M == {w \in W : IsWarnedOf(doc, kind, w)}
             head == Then(Line(k, "text", 0), children)
             end == Then(Line(k, "close", 0), Warning(k))
  <1>1. /\ Has(doc, kind, Line(k, "text", 0), {k}, {}, {}, {})
        /\ Has(doc, kind, Line(k, "close", 0), {}, {k}, {}, {})
        /\ Has(doc, kind, Warning(k), {}, {}, {}, {k})
    BY PartsHave DEF IndentOf
  <1>2. Has(doc, kind, children, W, C, A, M)
    BY DEF Writes
  <1>3. \A w \in W : k < w /\ w # k /\ IsWithin(doc, w, k) /\ ~IsWithin(doc, k, w)
    <2> TAKE w \in W
    <2>1. k \in Nat /\ w \in Nat /\ k < w /\ IsWithin(doc, w, k)
      OBVIOUS
    <2> QED
      BY <2>1 DEF IsWithin
  <1>4. C \subseteq W /\ A \subseteq W /\ M \subseteq W
    OBVIOUS
  <1>5. {w \in {k} \cup W : kind[w] = "toggle"} = C \cup {k}
    OBVIOUS
  <1>6. {w \in {k} \cup W : kind[w] = "file"} = A
    OBVIOUS
  <1>7. {w \in {k} \cup W : IsWarnedOf(doc, kind, w)} = M \cup {k}
    BY DEF IsWarnedOf
  <1> HIDE DEF C, A, M
  <1>8. Has(doc, kind, head, {k} \cup W, C, A, M)
    <2>0. /\ \A a \in {k}, b \in W : a < b
          /\ \A a \in {k}, b \in C : a < b \/ a = b \/ IsWithin(doc, a, b)
          /\ \A a \in {}, b \in W : a < b /\ a # b /\ ~IsWithin(doc, b, a)
          /\ \A a \in {}, b \in C : (a < b \/ IsWithin(doc, a, b)) /\ a # b /\ ~IsWithin(doc, b, a)
          /\ \A a \in {}, b \in A : a < b
          /\ \A a \in {}, b \in M : a # b
      BY <1>3, <1>4
    <2>1. Has(doc, kind, head, {k} \cup W, {} \cup C, {} \cup A, {} \cup M)
      BY <1>1, <1>2, <2>0, ThenHas DEF head
    <2>2. {} \cup C = C /\ {} \cup A = A /\ {} \cup M = M
      OBVIOUS
    <2> QED
      BY <2>1, <2>2
  <1>9. Has(doc, kind, end, {}, {k}, {}, {k})
    <2>1. Has(doc, kind, end, {} \cup {}, {k} \cup {}, {} \cup {}, {} \cup {k})
      BY <1>1, ThenHas
    <2>2. {} \cup {} = {} /\ {k} \cup {} = {k} /\ {} \cup {k} = {k}
      OBVIOUS
    <2> QED
      BY <2>1, <2>2
  <1> HIDE DEF head, end
  <1>10. Has(doc, kind, Then(head, end), {k} \cup W, C \cup {k}, A, M \cup {k})
    <2>0. /\ \A a \in {k} \cup W, b \in {} : a < b
          /\ \A a \in {k} \cup W, b \in {k} : a < b \/ a = b \/ IsWithin(doc, a, b)
          /\ \A a \in C, b \in {} : a < b /\ a # b /\ ~IsWithin(doc, b, a)
          /\ \A a \in C, b \in {k} : (a < b \/ IsWithin(doc, a, b)) /\ a # b /\ ~IsWithin(doc, b, a)
          /\ \A a \in A, b \in {} : a < b
          /\ \A a \in M, b \in {k} : a # b
      BY <1>3, <1>4
    <2>1. Has(doc, kind, Then(head, end), ({k} \cup W) \cup {}, C \cup {k}, A \cup {}, M \cup {k})
      BY <1>8, <1>9, <2>0, ThenHas
    <2>2. ({k} \cup W) \cup {} = {k} \cup W /\ A \cup {} = A
      OBVIOUS
    <2> QED
      BY <2>1, <2>2
  <1>11. Has(doc, kind, Then(head, end), {k} \cup W, {w \in {k} \cup W : kind[w] = "toggle"},
             {w \in {k} \cup W : kind[w] = "file"}, {w \in {k} \cup W : IsWarnedOf(doc, kind, w)})
    BY <1>5, <1>6, <1>7, <1>10
  <1> QED
    BY <1>11 DEF Writes, head, end

\* One block, with nothing in it.
LEMMA OneWrites ==
  ASSUME NEW doc, NEW kind, NEW k \in Nat
  PROVE  /\ \A i \in Nat :
              (kind[k] \notin {"toggle", "file"} /\ ~IsWarnedOf(doc, kind, k) /\ i = IndentOf(doc, kind, k)) =>
                Writes(doc, kind, Line(k, "text", i), {k})
         /\ (kind[k] \notin {"toggle", "file", "list"} /\ IsWarnedOf(doc, kind, k)) =>
              /\ Writes(doc, kind, unsupported(k), {k})
              /\ Writes(doc, kind, Then(Line(k, "text", 0), Warning(k)), {k})
         /\ kind[k] = "file" => Writes(doc, kind, Then(Line(k, "text", 0), Attachment(k)), {k})
  <1> DEFINE C == {w \in {k} : kind[w] = "toggle"}
             A == {w \in {k} : kind[w] = "file"}
             M == {w \in {k} : IsWarnedOf(doc, kind, w)}
  <1>1. /\ Has(doc, kind, Warning(k), {}, {}, {}, {k})
        /\ Has(doc, kind, Attachment(k), {}, {}, {k}, {})
        /\ \A i \in Nat : i = IndentOf(doc, kind, k) =>
              /\ Has(doc, kind, Line(k, "text", i), {k}, {}, {}, {})
              /\ Has(doc, kind, Line(k, "placeholder", i), {k}, {}, {}, {})
    BY PartsHave
  <1>2. \A out : Has(doc, kind, out, {k}, C, A, M) => Writes(doc, kind, out, {k})
    BY DEF Writes
  <1>3. ASSUME NEW i \in Nat, kind[k] \notin {"toggle", "file"}, ~IsWarnedOf(doc, kind, k),
               i = IndentOf(doc, kind, k)
        PROVE  Writes(doc, kind, Line(k, "text", i), {k})
    <2>1. C = {} /\ A = {} /\ M = {}
      BY <1>3
    <2> HIDE DEF C, A, M
    <2> QED
      BY <1>1, <1>2, <1>3, <2>1
  <1>4. ASSUME kind[k] \notin {"toggle", "file", "list"}, IsWarnedOf(doc, kind, k)
        PROVE  /\ Writes(doc, kind, unsupported(k), {k})
               /\ Writes(doc, kind, Then(Line(k, "text", 0), Warning(k)), {k})
    <2>1. C = {} /\ A = {} /\ M = {k}
      BY <1>4
    <2>2. /\ Has(doc, kind, Line(k, "text", 0), {k}, {}, {}, {})
          /\ Has(doc, kind, Line(k, "placeholder", 0), {k}, {}, {}, {})
      BY <1>1, <1>4 DEF IndentOf
    <2>3. /\ Has(doc, kind, Then(Warning(k), Line(k, "placeholder", 0)), {} \cup {k}, {} \cup {}, {} \cup {}, {k} \cup {})
          /\ Has(doc, kind, Then(Line(k, "text", 0), Warning(k)), {k} \cup {}, {} \cup {}, {} \cup {}, {} \cup {k})
      BY <1>1, <2>2, ThenHas
    <2>4. {} \cup {} = {} /\ {k} \cup {} = {k} /\ {} \cup {k} = {k}
      OBVIOUS
    <2> HIDE DEF C, A, M
    <2>5. /\ Has(doc, kind, unsupported(k), {k}, C, A, M)
          /\ Has(doc, kind, Then(Line(k, "text", 0), Warning(k)), {k}, C, A, M)
      BY <2>1, <2>3, <2>4 DEF unsupported
    <2> QED
      BY <1>2, <2>5
  <1>5. ASSUME kind[k] = "file" PROVE Writes(doc, kind, Then(Line(k, "text", 0), Attachment(k)), {k})
    <2>1. C = {} /\ A = {k} /\ M = {}
      BY <1>5 DEF IsWarnedOf
    <2>2. Has(doc, kind, Line(k, "text", 0), {k}, {}, {}, {})
      BY <1>1, <1>5 DEF IndentOf
    <2>3. Has(doc, kind, Then(Line(k, "text", 0), Attachment(k)), {k} \cup {}, {} \cup {}, {} \cup {k}, {} \cup {})
      BY <1>1, <2>2, ThenHas
    <2>4. {} \cup {} = {} /\ {k} \cup {} = {k} /\ {} \cup {k} = {k}
      OBVIOUS
    <2> HIDE DEF C, A, M
    <2>5. Has(doc, kind, Then(Line(k, "text", 0), Attachment(k)), {k}, C, A, M)
      BY <2>1, <2>3, <2>4
    <2> QED
      BY <1>2, <2>5
  <1> QED
    BY <1>3, <1>4, <1>5

\* A block that is not in a table, with what is in it.
LEMMA BlockWrites ==
  ASSUME NEW doc, HasLevels(doc), NEW kind, NEW k \in 1..Len(doc), kind[k] \in BlockKinds,
         ~InTable(doc, kind, k), NEW children, NEW rows,
         kind[k] \in Nests => Writes(doc, kind, children, WrittenIn(doc, kind, firstChild(doc, k))),
         kind[k] = "table" => Writes(doc, kind, rows, RowsIn(doc, kind, firstChild(doc, k)))
  PROVE  Writes(doc, kind, renderBlock(k, kind, Level(doc, k) - 1, children, rows),
                WrittenOf(doc, kind, k))
  <1> DEFINE I == WrittenInside(doc, kind, k)
             out == renderBlock(k, kind, Level(doc, k) - 1, children, rows)
  <1>1. /\ k \in Nat /\ Level(doc, k) - 1 \in Nat /\ DOMAIN doc = 1..Len(doc) /\ Len(doc) \in Nat
    <2>1. Level(doc, k) \in Nat /\ Level(doc, k) >= 1
      BY DEF HasLevels
    <2> QED
      BY <2>1 DEF HasLevels
  <1>2. I \subseteq Inside(doc, k)
    BY InsideIs
  <1>3. I \in SUBSET Nat /\ {k} \in SUBSET Nat
    BY <1>1, <1>2 DEF Inside
  <1>4. \A w \in I : k < w /\ IsWithin(doc, w, k)
    BY <1>2 DEF Inside, IsWithin
  <1>5. kind[k] # "table" => WrittenOf(doc, kind, k) = {k} \cup I
    BY DEF WrittenOf, HasRow
  <1>6. /\ kind[k] \in Nests => I = WrittenIn(doc, kind, firstChild(doc, k))
        /\ kind[k] = "table" => I = RowsIn(doc, kind, firstChild(doc, k))
        /\ kind[k] \notin Nests /\ kind[k] # "table" => I = {}
    BY DEF WrittenInside, Nests
  <1> HIDE DEF I
  <1>7. IsWarnedOf(doc, kind, k) <=> kind[k] \in {"toggle", "link", "other", "table", "row"}
    <2>1. ~IsRow(doc, kind, k)
      BY <1>1 DEF IsRow, InTable
    <2> QED
      BY <2>1 DEF IsWarnedOf
  <1>8. CASE kind[k] = "text"
    <2>1. out = Line(k, "text", 0)
      BY <1>8 DEF renderBlock
    <2>2. Writes(doc, kind, Line(k, "text", 0), {k})
      BY <1>1, <1>7, <1>8, OneWrites DEF IndentOf
    <2>3. WrittenOf(doc, kind, k) = {k}
      BY <1>5, <1>6, <1>8 DEF Nests
    <2> QED
      BY <2>1, <2>2, <2>3
  <1>9. CASE kind[k] \in {"list", "quote"}
    <2> DEFINE i == IndentOf(doc, kind, k)
    <2>1. out = Then(Line(k, "text", i), children) /\ i \in Nat
      BY <1>1, <1>9 DEF renderBlock, IndentOf
    <2> HIDE DEF i
    <2>2. Writes(doc, kind, Line(k, "text", i), {k})
      BY <1>1, <1>7, <1>9, <2>1, OneWrites DEF i
    <2>3. Writes(doc, kind, children, I)
      BY <1>6, <1>9 DEF Nests
    <2>4. \A v \in {k}, w \in I : v < w /\ (kind[v] = "toggle" => ~IsWithin(doc, w, v))
      BY <1>4, <1>9
    <2>5. Writes(doc, kind, Then(Line(k, "text", i), children), {k} \cup I)
      BY <1>3, <2>2, <2>3, <2>4, ThenWrites
    <2> QED
      BY <1>5, <1>9, <2>1, <2>5
  <1>10. CASE kind[k] = "toggle"
    <2>1. out = Then(Then(Line(k, "text", 0), children), Then(Line(k, "close", 0), Warning(k)))
      BY <1>10 DEF renderBlock
    <2>2. Writes(doc, kind, children, I)
      BY <1>6, <1>10 DEF Nests
    <2>3. Writes(doc, kind, out, {k} \cup I)
      BY <1>1, <1>3, <1>4, <1>10, <2>1, <2>2, ToggleWrites
    <2> QED
      BY <1>5, <1>10, <2>3
  <1>11. CASE kind[k] = "table"
    <2>1. out = renderTable(k, rows)
      BY <1>11 DEF renderBlock
    <2>2. Writes(doc, kind, rows, I)
      BY <1>6, <1>11
    <2>3. HasRow(doc, kind, k) <=> I # {}
      BY <1>6, <1>11, HasRowIs
    <2>4. CASE I = {}
      <3>1. rows = Nothing
        BY <2>2, <2>4, NothingIs
      <3>2. WrittenOf(doc, kind, k) = {k} \cup I /\ {k} \cup I = {k}
        BY <2>3, <2>4 DEF WrittenOf, I
      <3>3. Writes(doc, kind, unsupported(k), {k})
        BY <1>1, <1>7, <1>11, OneWrites
      <3> QED
        BY <2>1, <3>1, <3>2, <3>3 DEF renderTable
    <2>5. CASE I # {}
      <3>1. rows # Nothing
        <4>1. ASSUME rows = Nothing PROVE FALSE
          <5>1. Has(doc, kind, Nothing, {}, {}, {}, {})
            BY <1>1, PartsHave
          <5>2. ToSet(rows.lines) = {}
            BY <4>1, <5>1 DEF Has
          <5> QED
            BY <2>2, <2>5, <5>2 DEF Writes, Has
        <4> QED
          BY <4>1
      <3>2. WrittenOf(doc, kind, k) = {} \cup I /\ {} \cup I = I
        BY <2>3, <2>5 DEF WrittenOf, I
      <3> QED
        BY <2>1, <2>2, <3>1, <3>2 DEF renderTable
    <2> QED
      BY <2>4, <2>5
  <1>12. CASE kind[k] \in {"file", "link", "other", "row"}
    <2>1. WrittenOf(doc, kind, k) = {k}
      BY <1>5, <1>6, <1>12 DEF Nests
    <2>2. CASE kind[k] = "file"
      <3>1. out = Then(Line(k, "text", 0), Attachment(k))
        BY <2>2 DEF renderBlock
      <3> QED
        BY <1>1, <2>1, <2>2, <3>1, OneWrites
    <2>3. CASE kind[k] = "link"
      <3>1. out = Then(Line(k, "text", 0), Warning(k))
        BY <2>3 DEF renderBlock
      <3> QED
        BY <1>1, <1>7, <2>1, <2>3, <3>1, OneWrites
    <2>4. CASE kind[k] \in {"other", "row"}
      <3>1. out = unsupported(k)
        BY <2>4 DEF renderBlock
      <3> QED
        BY <1>1, <1>7, <2>1, <2>4, <3>1, OneWrites
    <2> QED
      BY <1>12, <2>2, <2>3, <2>4
  <1> QED
    BY <1>8, <1>9, <1>10, <1>11, <1>12 DEF BlockKinds

LEMMA OutputTypes ==
  /\ Nothing \in Outputs
  /\ \A k, i \in Nat, f \in {"text", "placeholder", "close"} : Line(k, f, i) \in Outputs
  /\ \A k \in Nat : Warning(k) \in Outputs /\ Attachment(k) \in Outputs /\ unsupported(k) \in Outputs
  /\ \A out, more \in Outputs : Then(out, more) \in Outputs
  <1>0. << >> \in Seq(OutLines) /\ << >> \in Seq(Nat)
    OBVIOUS
  <1>1. Nothing \in Outputs
    BY <1>0 DEF Nothing, Outputs
  <1>2. ASSUME NEW k \in Nat, NEW i \in Nat, NEW f \in {"text", "placeholder", "close"}
        PROVE  Line(k, f, i) \in Outputs
    <2>1. <<[block |-> k, form |-> f, indent |-> i]>> \in Seq(OutLines)
      BY DEF OutLines
    <2>2. Line(k, f, i) = [lines |-> <<[block |-> k, form |-> f, indent |-> i]>>,
                           warnings |-> << >>, attachments |-> << >>]
      BY DEF Line, Nothing
    <2> QED
      BY <1>0, <2>1, <2>2 DEF Outputs
  <1>3. ASSUME NEW k \in Nat PROVE Warning(k) \in Outputs /\ Attachment(k) \in Outputs
    <2>1. <<k>> \in Seq(Nat)
      OBVIOUS
    <2>2. /\ Warning(k) = [lines |-> << >>, warnings |-> <<k>>, attachments |-> << >>]
          /\ Attachment(k) = [lines |-> << >>, warnings |-> << >>, attachments |-> <<k>>]
      BY DEF Warning, Attachment, Nothing
    <2> QED
      BY <1>0, <2>1, <2>2 DEF Outputs
  <1>4. \A out, more \in Outputs : Then(out, more) \in Outputs
    <2> TAKE out, more \in Outputs
    <2>1. /\ out.lines \in Seq(OutLines) /\ more.lines \in Seq(OutLines)
          /\ out.warnings \in Seq(Nat) /\ more.warnings \in Seq(Nat)
          /\ out.attachments \in Seq(Nat) /\ more.attachments \in Seq(Nat)
      BY DEF Outputs
    <2>2. /\ out.lines \o more.lines \in Seq(OutLines) /\ out.warnings \o more.warnings \in Seq(Nat)
          /\ out.attachments \o more.attachments \in Seq(Nat)
      BY <2>1, ConcatProperties
    <2> QED
      BY <2>2 DEF Then, Outputs
  <1>5. \A k \in Nat : unsupported(k) \in Outputs
    BY <1>2, <1>3, <1>4 DEF unsupported
  <1> QED
    BY <1>1, <1>2, <1>3, <1>4, <1>5

LEMMA BlockTypes ==
  ASSUME NEW kind, NEW k \in Nat, NEW depth \in Nat, NEW children \in Outputs, NEW rows \in Outputs
  PROVE  renderBlock(k, kind, depth, children, rows) \in Outputs
  <1>1. /\ Line(k, "text", 0) \in Outputs /\ Line(k, "text", depth) \in Outputs
        /\ Line(k, "close", 0) \in Outputs /\ Warning(k) \in Outputs /\ Attachment(k) \in Outputs
        /\ unsupported(k) \in Outputs /\ renderTable(k, rows) \in Outputs
    BY OutputTypes DEF renderTable
  <1>2. /\ Then(Line(k, "text", 0), children) \in Outputs
        /\ Then(Line(k, "text", depth), children) \in Outputs
        /\ Then(Line(k, "close", 0), Warning(k)) \in Outputs
        /\ Then(Line(k, "text", 0), Attachment(k)) \in Outputs
        /\ Then(Line(k, "text", 0), Warning(k)) \in Outputs
    BY <1>1, OutputTypes
  <1>3. Then(Then(Line(k, "text", 0), children), Then(Line(k, "close", 0), Warning(k))) \in Outputs
    BY <1>2, OutputTypes
  <1> QED
    BY <1>1, <1>2, <1>3 DEF renderBlock

\* The list after a block, and the one in it, are later ones.
LEMMA ListsAreLater ==
  ASSUME NEW doc, HasLevels(doc)
  PROVE  LET n == Len(doc)
             a == [k \in 1..n |-> firstChild(doc, k)]
             c == [k \in 1..n |-> next(doc, k)] IN
         /\ a \in [1..n -> 0..n] /\ c \in [1..n -> 0..n]
         /\ \A k \in 1..n : (a[k] = 0 \/ a[k] > k) /\ (c[k] = 0 \/ c[k] > k)
  <1>1. Len(doc) \in Nat
    BY DEF HasLevels
  <1>2. ASSUME NEW k \in 1..Len(doc)
        PROVE  /\ firstChild(doc, k) \in 0..Len(doc) /\ (firstChild(doc, k) = 0 \/ firstChild(doc, k) > k)
               /\ next(doc, k) \in 0..Len(doc) /\ (next(doc, k) = 0 \/ next(doc, k) > k)
    <2>1. firstChild(doc, k) = 0 \/ (firstChild(doc, k) = k + 1 /\ k + 1 \in 1..Len(doc))
      BY FirstChildIs DEF Nowhere
    <2>2. next(doc, k) = 0 \/ next(doc, k) \in (k + 1)..Len(doc)
      BY NextIs DEF Nowhere
    <2> QED
      BY <1>1, <2>1, <2>2
  <1> QED
    BY <1>2

\* The rows written of a list of blocks.
LEMMA RowsWritten ==
  ASSUME NEW doc, HasLevels(doc), NEW kind
  PROVE  LET rows == tableRows(doc, kind) IN
         /\ rows \in [0..Len(doc) -> Outputs]
         /\ rows[0] = Nothing
         /\ \A k \in 1..Len(doc) :
              rows[k] = Then(IF kind[k] = "row" THEN Line(k, "text", 0) ELSE Nothing, rows[next(doc, k)])
  <1> DEFINE n == Len(doc)
             a == [k \in 1..n |-> firstChild(doc, k)]
             c == [k \in 1..n |-> next(doc, k)]
             row(k) == IF kind[k] = "row" THEN Line(k, "text", 0) ELSE Nothing
             F == [t \in (1..n) \X Outputs \X Outputs |-> Then(row(t[1]), t[3])]
             def(f) == [k \in 0..n |-> IF k = Nowhere THEN Nothing ELSE Then(row(k), f[next(doc, k)])]
  <1>1. n \in Nat
    BY DEF HasLevels
  <1>2. /\ a \in [1..n -> 0..n] /\ c \in [1..n -> 0..n]
        /\ \A k \in 1..n : (a[k] = 0 \/ a[k] > k) /\ (c[k] = 0 \/ c[k] > k)
    BY ListsAreLater
  <1>3. \A k \in 1..n : row(k) \in Outputs
    <2> TAKE k \in 1..n
    <2>1. k \in Nat
      OBVIOUS
    <2> QED
      BY <2>1, OutputTypes
  <1> HIDE DEF row
  <1>4. F \in [(1..n) \X Outputs \X Outputs -> Outputs]
    BY <1>3, OutputTypes
  <1>5. Nothing \in Outputs
    BY OutputTypes
  <1>6. \A k \in 1..n : c[k] = next(doc, k)
    OBVIOUS
  <1>7. \A k \in 1..n, x \in Outputs, y \in Outputs : F[<<k, x, y>>] = Then(row(k), y)
    OBVIOUS
  <1> HIDE DEF F, a, c
  <1>8. PICK f \in [0..n -> Outputs] : f[0] = Nothing /\ \A k \in 1..n : f[k] = F[<<k, f[a[k]], f[c[k]]>>]
    <2>1. \E f \in [0..n -> Outputs] : IsMadeOf(f, n, Nothing, a, c, F)
      <3> HIDE DEF n
      <3> QED
        BY <1>1, <1>2, <1>4, <1>5, LaterFirst
    <2> QED
      BY <2>1 DEF IsMadeOf
  <1>9. \A k \in 1..n : f[k] = Then(row(k), f[next(doc, k)])
    <2> TAKE k \in 1..n
    <2>1. f[a[k]] \in Outputs /\ f[c[k]] \in Outputs /\ c[k] = next(doc, k)
      BY <1>2, <1>6
    <2>2. F[<<k, f[a[k]], f[c[k]]>>] = Then(row(k), f[c[k]])
      BY <1>7, <2>1
    <2> QED
      BY <1>8, <2>1, <2>2
  <1>10. f = def(f)
    <2>1. \A k \in 0..n : k = 0 \/ k \in 1..n
      BY <1>1
    <2>2. \A k \in 0..n : f[k] = IF k = Nowhere THEN Nothing ELSE Then(row(k), f[next(doc, k)])
      BY <1>8, <1>9, <2>1 DEF Nowhere
    <2> QED
      BY <2>2
  <1>11. tableRows(doc, kind) = CHOOSE g : g = def(g)
    BY DEF tableRows, row
  <1> DEFINE rows == tableRows(doc, kind)
  <1>12. rows = def(rows)
    BY <1>10, <1>11
  <1> HIDE DEF rows
  <1>13. rows[0] = Nothing /\ \A k \in 1..n : rows[k] = Then(row(k), rows[next(doc, k)])
    <2>1. 0 \in 0..n /\ \A k \in 1..n : k \in 0..n /\ k # Nowhere
      BY <1>1 DEF Nowhere
    <2> QED
      BY <1>12, <2>1 DEF Nowhere
  <1>14. rows \in [0..n -> Outputs]
    <2> DEFINE P == {k \in 0..n : rows[k] \in Outputs}
    <2>1. ASSUME NEW k \in 1..n, \A m \in 1..n : m > k => m \in P PROVE k \in P
      <3>1. next(doc, k) \in 0..n /\ (next(doc, k) = 0 \/ next(doc, k) > k)
        BY <1>2, <1>6
      <3>2. next(doc, k) = 0 \/ next(doc, k) \in P
        BY <1>1, <2>1, <3>1
      <3>3. rows[next(doc, k)] \in Outputs
        BY <1>5, <1>13, <3>2
      <3>4. rows[k] \in Outputs
        BY <1>3, <1>13, <3>3, OutputTypes
      <3> QED
        BY <1>1, <3>4
    <2>2. \A k \in 1..n : k \in P
      <3> HIDE DEF P
      <3> QED
        BY <1>1, <2>1, FromTheLast
    <2>3. \A k \in 0..n : rows[k] \in Outputs
      <3>1. \A k \in 0..n : k = 0 \/ k \in 1..n
        BY <1>1
      <3> QED
        BY <1>5, <1>13, <2>2, <3>1
    <2>4. rows = [k \in 0..n |-> rows[k]]
      BY <1>12
    <2> QED
      BY <2>3, <2>4
  <1> QED
    BY <1>13, <1>14 DEF rows, row

\* What is written of a list of blocks at a depth.
LEMMA Rendered ==
  ASSUME NEW doc, HasLevels(doc), NEW kind
  PROVE  LET render == renderBlocks(doc, kind)
             rows == tableRows(doc, kind) IN
         /\ \A k \in 0..Len(doc), depth \in Nat : render[k][depth] \in Outputs
         /\ \A depth \in Nat : render[0][depth] = Nothing
         /\ \A k \in 1..Len(doc), depth \in Nat :
              render[k][depth] =
                Then(renderBlock(k, kind, depth, render[firstChild(doc, k)][depth + 1], rows[firstChild(doc, k)]),
                     render[next(doc, k)][depth])
  <1> DEFINE n == Len(doc)
             a == [k \in 1..n |-> firstChild(doc, k)]
             c == [k \in 1..n |-> next(doc, k)]
             rows == tableRows(doc, kind)
             D == [Nat -> Outputs]
             b == [depth \in Nat |-> Nothing]
             one(k, depth, x, y) == Then(renderBlock(k, kind, depth, x[depth + 1], rows[firstChild(doc, k)]), y[depth])
             F == [t \in (1..n) \X D \X D |-> [depth \in Nat |-> one(t[1], depth, t[2], t[3])]]
             def(f) == [k \in 0..n |-> [depth \in Nat |->
                          IF k = Nowhere THEN Nothing
                          ELSE one(k, depth, f[firstChild(doc, k)], f[next(doc, k)])]]
  <1>1. n \in Nat
    BY DEF HasLevels
  <1>2. /\ a \in [1..n -> 0..n] /\ c \in [1..n -> 0..n]
        /\ \A k \in 1..n : (a[k] = 0 \/ a[k] > k) /\ (c[k] = 0 \/ c[k] > k)
    BY ListsAreLater
  <1>3. rows \in [0..n -> Outputs]
    BY RowsWritten
  <1>4. Nothing \in Outputs
    BY OutputTypes
  <1>5. \A k \in 1..n : a[k] = firstChild(doc, k) /\ c[k] = next(doc, k)
    OBVIOUS
  <1> HIDE DEF rows, a, c
  <1>6. ASSUME NEW k \in 1..n, NEW depth \in Nat, NEW x, NEW y, x[depth + 1] \in Outputs, y[depth] \in Outputs
        PROVE  one(k, depth, x, y) \in Outputs
    <2>1. k \in Nat /\ rows[firstChild(doc, k)] \in Outputs
      BY <1>2, <1>3, <1>5
    <2>2. renderBlock(k, kind, depth, x[depth + 1], rows[firstChild(doc, k)]) \in Outputs
      BY <1>6, <2>1, BlockTypes
    <2> QED
      BY <1>6, <2>2, OutputTypes
  <1>7. b \in D
    BY <1>4
  <1>8. F \in [(1..n) \X D \X D -> D]
    <2>1. ASSUME NEW t \in (1..n) \X D \X D
          PROVE  [depth \in Nat |-> one(t[1], depth, t[2], t[3])] \in D
      <3>1. t[1] \in 1..n /\ t[2] \in D /\ t[3] \in D
        OBVIOUS
      <3>2. ASSUME NEW depth \in Nat PROVE one(t[1], depth, t[2], t[3]) \in Outputs
        <4>1. t[2][depth + 1] \in Outputs /\ t[3][depth] \in Outputs
          BY <3>1
        <4> HIDE DEF one
        <4> QED
          BY <1>6, <3>1, <4>1
      <3> HIDE DEF one
      <3> QED
        BY <3>2
    <2> HIDE DEF one, D
    <2> QED
      BY <2>1
  <1>9. \A k \in 1..n, x \in D, y \in D : F[<<k, x, y>>] = [depth \in Nat |-> one(k, depth, x, y)]
    <2> HIDE DEF one, D
    <2> QED
      OBVIOUS
  <1> HIDE DEF F, one
  <1>10. PICK f \in [0..n -> D] : IsMadeOf(f, n, b, a, c, F)
    <2> HIDE DEF n, D, b
    <2> QED
      BY <1>1, <1>2, <1>7, <1>8, LaterFirst
  <1>11. f[0] = b /\ \A k \in 1..n : f[k] = F[<<k, f[a[k]], f[c[k]]>>]
    BY <1>10 DEF IsMadeOf
  <1>12. \A k \in 1..n : f[k] = [depth \in Nat |-> one(k, depth, f[firstChild(doc, k)], f[next(doc, k)])]
    <2> TAKE k \in 1..n
    <2>1. f[a[k]] \in D /\ f[c[k]] \in D /\ a[k] = firstChild(doc, k) /\ c[k] = next(doc, k)
      <3> HIDE DEF D
      <3> QED
        BY <1>2, <1>5
    <2>2. F[<<k, f[a[k]], f[c[k]]>>] = [depth \in Nat |-> one(k, depth, f[a[k]], f[c[k]])]
      <3> HIDE DEF D
      <3> QED
        BY <1>9, <2>1
    <2> QED
      BY <1>11, <2>1, <2>2
  <1>13. f = def(f)
    <2>1. \A k \in 0..n : f[k] = [depth \in Nat |->
            IF k = Nowhere THEN Nothing ELSE one(k, depth, f[firstChild(doc, k)], f[next(doc, k)])]
      <3> TAKE k \in 0..n
      <3>1. CASE k = 0
        BY <1>11, <3>1 DEF Nowhere
      <3>2. CASE k \in 1..n
        <4>1. k # Nowhere
          BY <3>2 DEF Nowhere
        <4>2. f[k] = [depth \in Nat |-> one(k, depth, f[firstChild(doc, k)], f[next(doc, k)])]
          BY <1>12, <3>2
        <4> QED
          BY <4>1, <4>2
      <3> QED
        BY <1>1, <3>1, <3>2
    <2> QED
      BY <2>1
  <1>14. renderBlocks(doc, kind) = CHOOSE g : g = def(g)
    BY DEF renderBlocks, one, rows, Nested
  <1> DEFINE render == renderBlocks(doc, kind)
  <1>15. render = def(render)
    BY <1>13, <1>14
  <1> HIDE DEF render
  <1>16. \A depth \in Nat : render[0][depth] = Nothing
    <2>1. 0 \in 0..n
      BY <1>1
    <2> QED
      BY <1>15, <2>1 DEF Nowhere
  <1>17. \A k \in 1..n, depth \in Nat :
           render[k][depth] = one(k, depth, render[firstChild(doc, k)], render[next(doc, k)])
    <2> TAKE k \in 1..n, depth \in Nat
    <2>1. k \in 0..n /\ k # Nowhere
      BY <1>1 DEF Nowhere
    <2>2. render[k] = [d \in Nat |->
            IF k = Nowhere THEN Nothing ELSE one(k, d, render[firstChild(doc, k)], render[next(doc, k)])]
      BY <1>15, <2>1
    <2> QED
      BY <2>1, <2>2
  <1>18. \A k \in 0..n, depth \in Nat : render[k][depth] \in Outputs
    <2> DEFINE P == {k \in 0..n : \A depth \in Nat : render[k][depth] \in Outputs}
    <2>1. ASSUME NEW k \in 1..n, \A m \in 1..n : m > k => m \in P PROVE k \in P
      <3>1. /\ firstChild(doc, k) \in 0..n /\ (firstChild(doc, k) = 0 \/ firstChild(doc, k) > k)
            /\ next(doc, k) \in 0..n /\ (next(doc, k) = 0 \/ next(doc, k) > k)
        BY <1>2, <1>5
      <3>2. /\ firstChild(doc, k) = 0 \/ firstChild(doc, k) \in P
            /\ next(doc, k) = 0 \/ next(doc, k) \in P
        BY <1>1, <2>1, <3>1
      <3>3. \A depth \in Nat : /\ render[firstChild(doc, k)][depth + 1] \in Outputs
                               /\ render[next(doc, k)][depth] \in Outputs
        BY <1>4, <1>16, <3>2
      <3>4. \A depth \in Nat : render[k][depth] \in Outputs
        <4> TAKE depth \in Nat
        <4>1. /\ render[firstChild(doc, k)][depth + 1] \in Outputs
              /\ render[next(doc, k)][depth] \in Outputs
          BY <3>3
        <4>2. one(k, depth, render[firstChild(doc, k)], render[next(doc, k)]) \in Outputs
          BY <1>6, <4>1
        <4> QED
          BY <1>17, <4>2
      <3> QED
        BY <1>1, <3>4
    <2>2. \A k \in 1..n : k \in P
      <3> HIDE DEF P
      <3> QED
        BY <1>1, <2>1, FromTheLast
    <2>3. \A k \in 0..n : k = 0 \/ k \in 1..n
      BY <1>1
    <2> QED
      BY <1>4, <1>16, <2>2, <2>3
  <1> QED
    BY <1>16, <1>17, <1>18 DEF render, rows, one

\* The rows of a table are written as they are listed.
LEMMA RowsWrite ==
  ASSUME NEW doc, HasLevels(doc), NEW kind
  PROVE  \A k \in 1..Len(doc) : InTable(doc, kind, k) =>
           Writes(doc, kind, tableRows(doc, kind)[k], RowsIn(doc, kind, k))
  <1> DEFINE n == Len(doc)
             rows == tableRows(doc, kind)
             P == {k \in 1..n : InTable(doc, kind, k) => Writes(doc, kind, rows[k], RowsIn(doc, kind, k))}
  <1>1. n \in Nat /\ DOMAIN doc = 1..n
    BY DEF HasLevels
  <1>2. /\ rows[0] = Nothing
        /\ \A k \in 1..n : rows[k] = Then(IF kind[k] = "row" THEN Line(k, "text", 0) ELSE Nothing, rows[next(doc, k)])
    BY RowsWritten
  <1> HIDE DEF rows
  <1>3. ASSUME NEW k \in 1..n, \A m \in 1..n : m > k => m \in P, InTable(doc, kind, k)
        PROVE  Writes(doc, kind, rows[k], RowsIn(doc, kind, k))
    <2> DEFINE x == next(doc, k)
               V == IF kind[k] = "row" THEN {k} ELSE {}
               W == RowsIn(doc, kind, x)
               first == IF kind[k] = "row" THEN Line(k, "text", 0) ELSE Nothing
    <2>1. RowsIn(doc, kind, k) = V \cup W /\ W \subseteq After(doc, k)
      BY RowsAre
    <2>2. Writes(doc, kind, first, V)
      <3>1. CASE kind[k] = "row"
        <4>1. IsRow(doc, kind, k)
          BY <1>1, <1>3, <3>1 DEF IsRow, InTable
        <4>2. ~IsWarnedOf(doc, kind, k) /\ k \in Nat
          BY <1>1, <3>1, <4>1 DEF IsWarnedOf
        <4> QED
          BY <3>1, <4>2, OneWrites DEF IndentOf
      <3>2. CASE kind[k] # "row"
        BY <3>2, NothingIs
      <3> QED
        BY <3>1, <3>2
    <2>3. Writes(doc, kind, rows[x], W)
      <3>1. CASE x = Nowhere
        <4>1. rows[x] = Nothing /\ W = {}
          BY <1>2, <3>1 DEF Nowhere, RowsIn
        <4> QED
          BY <4>1, NothingIs
      <3>2. CASE x # Nowhere
        <4>1. x \in 1..n /\ x > k
          BY <3>2, NextIs
        <4>2. InTable(doc, kind, x)
          BY <1>3, <3>2, NextHasParent DEF InTable
        <4>3. x \in P
          BY <1>3, <4>1
        <4> QED
          BY <4>2, <4>3
      <3> QED
        BY <3>1, <3>2
    <2>4. \A v \in V, w \in W : v \in Nat /\ w \in Nat /\ v < w /\ (kind[v] = "toggle" => ~IsWithin(doc, w, v))
      <3> TAKE v \in V, w \in W
      <3>1. v = k /\ w \in After(doc, k)
        BY <2>1
      <3>2. w \in (k + 1)..n /\ v < w /\ ~IsWithin(doc, w, v)
        BY <3>1, AfterIsLater
      <3> QED
        BY <1>1, <3>1, <3>2
    <2>5. V \in SUBSET Nat /\ W \in SUBSET Nat
      <3>1. V \subseteq Nat /\ \A w \in After(doc, k) : w \in (k + 1)..n
        BY <1>1, AfterIsLater
      <3> QED
        BY <1>1, <2>1, <3>1
    <2>6. rows[k] = Then(first, rows[x])
      BY <1>2
    <2> HIDE DEF V, W, first, x
    <2>7. Writes(doc, kind, Then(first, rows[x]), V \cup W)
      BY <2>2, <2>3, <2>4, <2>5, ThenWrites
    <2> QED
      BY <2>1, <2>6, <2>7
  <1>4. \A k \in 1..n : (\A m \in 1..n : m > k => m \in P) => k \in P
    BY <1>3
  <1>5. \A k \in 1..n : k \in P
    <2> HIDE DEF P
    <2> QED
      BY <1>1, <1>4, FromTheLast
  <1> QED
    BY <1>5 DEF rows

\* A list of blocks that is not a table's is written as it is listed.
LEMMA RenderWrites ==
  ASSUME NEW doc, HasLevels(doc), NEW kind, \A k \in 1..Len(doc) : kind[k] \in BlockKinds
  PROVE  \A k \in 1..Len(doc) : ~InTable(doc, kind, k) =>
           Writes(doc, kind, renderBlocks(doc, kind)[k][Level(doc, k) - 1], WrittenIn(doc, kind, k))
  <1> DEFINE n == Len(doc)
             rows == tableRows(doc, kind)
             render == renderBlocks(doc, kind)
             P == {k \in 1..n : ~InTable(doc, kind, k) =>
                                  Writes(doc, kind, render[k][Level(doc, k) - 1], WrittenIn(doc, kind, k))}
  <1>1. n \in Nat /\ \A k \in 1..n : Level(doc, k) \in Nat /\ Level(doc, k) >= 1
    BY DEF HasLevels
  <1>2. /\ \A depth \in Nat : render[0][depth] = Nothing
        /\ \A k \in 1..n, depth \in Nat :
             render[k][depth] =
               Then(renderBlock(k, kind, depth, render[firstChild(doc, k)][depth + 1], rows[firstChild(doc, k)]),
                    render[next(doc, k)][depth])
    BY Rendered
  <1>3. rows[0] = Nothing /\ \A k \in 1..n : InTable(doc, kind, k) => Writes(doc, kind, rows[k], RowsIn(doc, kind, k))
    BY RowsWritten, RowsWrite
  <1> HIDE DEF rows, render
  <1>4. ASSUME NEW k \in 1..n, \A m \in 1..n : m > k => m \in P, ~InTable(doc, kind, k)
        PROVE  Writes(doc, kind, render[k][Level(doc, k) - 1], WrittenIn(doc, kind, k))
    <2> DEFINE x == next(doc, k)
               c == firstChild(doc, k)
               depth == Level(doc, k) - 1
               V == WrittenOf(doc, kind, k)
               W == WrittenIn(doc, kind, x)
               block == renderBlock(k, kind, depth, render[c][depth + 1], rows[c])
    <2>1. depth \in Nat /\ depth + 1 = Level(doc, k)
      BY <1>1
    <2>2. \/ c = Nowhere
          \/ /\ c \in 1..n /\ c > k /\ Level(doc, c) - 1 = depth + 1 /\ c # Nowhere
             /\ \A p \in 1..n : IsChild(doc, c, p) <=> p = k
      <3>1. CASE c = k + 1 /\ k + 1 \in 1..n /\ Level(doc, k + 1) = Level(doc, k) + 1
                 /\ Inside(doc, k) = ListFrom(doc, k + 1)
        <4>1. c \in 1..n /\ c > k /\ Level(doc, c) = Level(doc, k) + 1 /\ c # Nowhere
          BY <3>1 DEF Nowhere
        <4>2. c \in Inside(doc, k)
          BY <3>1, ListFromIs
        <4>3. IsChild(doc, c, k)
          BY <4>1, <4>2, ChildIs
        <4>4. \A p \in 1..n : IsChild(doc, c, p) => p = k
          BY <4>1, <4>3, OneParent
        <4>5. Level(doc, c) - 1 = depth + 1
          BY <1>1, <4>1
        <4> QED
          BY <4>1, <4>3, <4>4, <4>5
      <3> QED
        BY <3>1, FirstChildIs
    <2>3. ASSUME kind[k] \in Nests PROVE Writes(doc, kind, render[c][depth + 1], WrittenIn(doc, kind, c))
      <3>1. CASE c = Nowhere
        <4>1. WrittenIn(doc, kind, c) = {}
          BY <3>1 DEF WrittenIn
        <4>2. c = 0 /\ depth + 1 \in Nat
          BY <2>1, <3>1 DEF Nowhere
        <4> HIDE DEF c, depth
        <4>3. render[c][depth + 1] = Nothing
          BY <1>2, <4>2
        <4> QED
          BY <4>1, <4>3, NothingIs
      <3>2. CASE c # Nowhere
        <4>1. ~InTable(doc, kind, c)
          BY <2>2, <2>3, <3>2 DEF InTable, Nests
        <4>2. c \in P
          BY <1>4, <2>2, <3>2
        <4>3. Writes(doc, kind, render[c][Level(doc, c) - 1], WrittenIn(doc, kind, c))
          BY <4>1, <4>2
        <4> QED
          BY <2>2, <3>2, <4>3
      <3> QED
        BY <3>1, <3>2
    <2>4. ASSUME kind[k] = "table" PROVE Writes(doc, kind, rows[c], RowsIn(doc, kind, c))
      <3>1. CASE c = Nowhere
        <4>1. rows[c] = Nothing /\ RowsIn(doc, kind, c) = {}
          BY <1>3, <3>1 DEF Nowhere, RowsIn
        <4> QED
          BY <4>1, NothingIs
      <3>2. CASE c # Nowhere
        <4>1. InTable(doc, kind, c)
          BY <2>2, <2>4, <3>2 DEF InTable
        <4> QED
          BY <1>3, <2>2, <3>2, <4>1
      <3> QED
        BY <3>1, <3>2
    <2>5. Writes(doc, kind, block, V)
      <3>1. kind[k] \in BlockKinds
        OBVIOUS
      <3> QED
        BY <1>4, <2>3, <2>4, <3>1, BlockWrites
    <2>6. Writes(doc, kind, render[x][depth], W)
      <3>1. CASE x = Nowhere
        <4>1. render[x][depth] = Nothing /\ W = {}
          BY <1>2, <2>1, <3>1 DEF Nowhere, WrittenIn
        <4> QED
          BY <4>1, NothingIs
      <3>2. CASE x # Nowhere
        <4>1. x \in 1..n /\ x > k /\ Level(doc, x) = Level(doc, k)
          BY <3>2, NextIs DEF IsNext
        <4>2. ~InTable(doc, kind, x)
          BY <1>4, <3>2, NextHasParent DEF InTable
        <4>3. x \in P
          BY <1>4, <4>1
        <4>4. Writes(doc, kind, render[x][Level(doc, x) - 1], W)
          BY <4>2, <4>3
        <4> QED
          BY <4>1, <4>4
      <3> QED
        BY <3>1, <3>2
    <2>7. WrittenIn(doc, kind, k) = V \cup W /\ V \subseteq {k} \cup Inside(doc, k) /\ W \subseteq After(doc, k)
      BY WrittenIs
    <2>8. render[k][depth] = Then(block, render[x][depth])
      BY <1>2, <2>1
    <2> HIDE DEF V, W, block, x, depth
    <2>9. \A v \in V, w \in W : v \in Nat /\ w \in Nat /\ v < w /\ (kind[v] = "toggle" => ~IsWithin(doc, w, v))
      <3> TAKE v \in V, w \in W
      <3>1. v \in k..n /\ w \in (k + 1)..n /\ v < w /\ ~IsWithin(doc, w, v)
        BY <2>7, AfterIsLater
      <3> QED
        BY <1>1, <3>1
    <2>10. V \in SUBSET Nat /\ W \in SUBSET Nat
      <3>1. \A v \in Inside(doc, k) : v \in Nat
        BY DEF Inside
      <3>2. \A w \in After(doc, k) : w \in (k + 1)..n
        BY AfterIsLater
      <3> QED
        BY <1>1, <2>7, <3>1, <3>2
    <2>11. Writes(doc, kind, Then(block, render[x][depth]), V \cup W)
      BY <2>5, <2>6, <2>9, <2>10, ThenWrites
    <2> QED
      BY <2>7, <2>8, <2>11 DEF depth
  <1>5. \A k \in 1..n : (\A m \in 1..n : m > k => m \in P) => k \in P
    BY <1>4
  <1>6. \A k \in 1..n : k \in P
    <2> HIDE DEF P
    <2> QED
      BY <1>1, <1>5, FromTheLast
  <1> QED
    BY <1>6 DEF render

\* What a document is converted to is what of it is to be written.
LEMMA ConvertWrites ==
  ASSUME NEW doc, HasLevels(doc), doc = << >> <=> Len(doc) = 0,
         NEW kind \in [DOMAIN doc -> BlockKinds]
  PROVE  Writes(doc, kind, Convert(doc, kind), {k \in DOMAIN doc : IsWritten(doc, kind, k)})
  <1> DEFINE n == Len(doc)
  <1>1. n \in Nat /\ DOMAIN doc = 1..n /\ \A k \in 1..n : Level(doc, k) \in Nat /\ Level(doc, k) >= 1
    BY DEF HasLevels
  <1>2. CASE n = 0
    <2>1. Convert(doc, kind) = Nothing
      BY <1>2, 0 \in Nat, Rendered DEF Convert, Nowhere
    <2>2. {k \in DOMAIN doc : IsWritten(doc, kind, k)} = {}
      BY <1>1, <1>2
    <2> QED
      BY <2>1, <2>2, NothingIs
  <1>3. CASE n # 0
    <2>1. 1 \in 1..n /\ 1 # Nowhere
      BY <1>1, <1>3 DEF Nowhere
    <2>2. Level(doc, 1) = 1 /\ Level(doc, 1) - 1 = 0
      BY <2>1 DEF HasLevels
    <2>3. Convert(doc, kind) = renderBlocks(doc, kind)[1][0]
      BY <1>3 DEF Convert
    <2>4. ~InTable(doc, kind, 1)
      <3>1. \A p \in 1..n : ~(p < 1)
        BY <1>1
      <3> QED
        BY <3>1 DEF InTable, IsChild, IsWithin
    <2>5. Writes(doc, kind, renderBlocks(doc, kind)[1][Level(doc, 1) - 1], WrittenIn(doc, kind, 1))
      BY <1>1, <2>1, <2>4, RenderWrites
    <2>6. ListFrom(doc, 1) = 1..n
      <3>1. \A m \in 1..n : \A j \in 1..m : j \in 1..n /\ Level(doc, j) >= Level(doc, 1)
        BY <1>1, <2>2
      <3> QED
        BY <3>1 DEF ListFrom
    <2>7. WrittenIn(doc, kind, 1) = {k \in DOMAIN doc : IsWritten(doc, kind, k)}
      BY <1>1, <2>1, <2>6 DEF WrittenIn, IsWritten, Nests
    <2> QED
      BY <2>2, <2>3, <2>5, <2>7
  <1> QED
    BY <1>2, <1>3

\* Which is that it is written in order.
LEMMA IsInOrder ==
  ASSUME NEW doc, NEW kind,
         Writes(doc, kind, Convert(doc, kind), {k \in DOMAIN doc : IsWritten(doc, kind, k)})
  PROVE  IsWrittenInOrder(doc, kind)
  <1> DEFINE out == Convert(doc, kind)
             W == {k \in DOMAIN doc : IsWritten(doc, kind, k)}
             of(forms) == {l.block : l \in {m \in ToSet(out.lines) : m.form \in forms}}
             indent(k) == IF kind[k] = "list" THEN Level(doc, k) - 1 ELSE 0
  <1> HIDE DEF out, W
  <1>1. Has(doc, kind, out, W, {k \in W : kind[k] = "toggle"}, {k \in W : kind[k] = "file"},
            {k \in W : IsWarnedOf(doc, kind, k)})
    BY DEF Writes, out, W
  <1>2. /\ out.lines \in Seq(OutLines) /\ out.warnings \in Seq(Nat) /\ out.attachments \in Seq(Nat)
        /\ DOMAIN out.lines = 1..Len(out.lines) /\ DOMAIN out.warnings = 1..Len(out.warnings)
        /\ DOMAIN out.attachments = 1..Len(out.attachments)
    BY <1>1, LenProperties DEF Has, Outputs
  <1>3. \A l \in ToSet(out.lines) : l.form \in {"text", "placeholder", "close"}
    <2> TAKE l \in ToSet(out.lines)
    <2>1. PICK i \in 1..Len(out.lines) : l = out.lines[i]
      BY <1>2 DEF ToSet
    <2>2. l \in OutLines
      BY <1>2, <2>1, ElementOfSeq
    <2> QED
      BY <2>2 DEF OutLines
  <1>4. of({"text", "placeholder"}) = W
    <2>1. \A l \in ToSet(out.lines) : l.form # "close" => l.block \in W
      BY <1>1 DEF Has
    <2>2. \A k \in W : \E l \in ToSet(out.lines) : l.block = k /\ l.form # "close"
      BY <1>1 DEF Has
    <2> QED
      BY <1>3, <2>1, <2>2
  <1>5. of({"close"}) = {k \in W : kind[k] = "toggle"}
    <2> DEFINE C == {k \in W : kind[k] = "toggle"}
    <2>1. \A l \in ToSet(out.lines) : l.form = "close" => l.block \in C
      BY <1>1 DEF Has
    <2>2. \A k \in C : \E l \in ToSet(out.lines) : l.block = k /\ l.form = "close"
      BY <1>1 DEF Has
    <2> HIDE DEF C
    <2>3. of({"close"}) = C
      BY <2>1, <2>2
    <2> QED
      BY <2>3 DEF C
  <1>6. \A k, m \in DOMAIN out.lines : k < m => InOrder(doc, out.lines[k], out.lines[m])
    BY <1>1, <1>2 DEF Has, IsOrdered, LineOrder
  <1>7. \A l \in ToSet(out.lines) : l.indent = indent(l.block)
    BY <1>1 DEF Has, IndentOf
  <1>8. ToSet(out.attachments) = {k \in W : kind[k] = "file"}
    BY <1>1 DEF Has
  <1>9. \A k, m \in DOMAIN out.attachments : k < m => out.attachments[k] < out.attachments[m]
    BY <1>1, <1>2 DEF Has, IsOrdered, Below
  <1>10. ToSet(out.warnings) = {k \in W : IsWarnedOf(doc, kind, k)}
    BY <1>1 DEF Has
  <1>11. IsInjective(out.warnings)
    <2>1. \A i, j \in 1..Len(out.warnings) : i < j => out.warnings[i] # out.warnings[j]
      <3>1. IsOrdered(out.warnings, Apart)
        BY <1>1 DEF Has
      <3> QED
        BY <3>1 DEF IsOrdered, Apart
    <2>2. \A i, j \in 1..Len(out.warnings) : i = j \/ i < j \/ j < i
      OBVIOUS
    <2> QED
      BY <1>2, <2>1, <2>2 DEF IsInjective
  <1>12. W \subseteq DOMAIN doc
    BY DEF W
  <1> QED
    BY <1>4, <1>5, <1>6, <1>7, <1>8, <1>9, <1>10, <1>11, <1>12 DEF IsWrittenInOrder, out, W

\* A block of a document is at most one list deeper than the one before it.
LEMMA DocumentHasLevels ==
  ASSUME PageInv, at = "done"
  PROVE  HasLevels(blocks) /\ (blocks = << >> <=> Len(blocks) = 0)
  <1> DEFINE n == Len(blocks)
  <1>1. blocks \in Seq(Entries) /\ n \in Nat /\ DOMAIN blocks = 1..n /\ IsTrees(blocks, <<Page>>)
    BY LenProperties DEF PageInv, PageTypeOK, DocumentOK
  <1>2. Len(<<Page>>) = 1
    OBVIOUS
  <1>3. ASSUME NEW k \in 1..n PROVE Level(blocks, k) \in Nat /\ Level(blocks, k) >= 1
    <2>1. Extends(blocks[k].above, <<Page>>) /\ Len(blocks[k].above) \in Nat
      BY <1>1, EntryTypes DEF IsTrees
    <2> QED
      BY <1>2, <2>1 DEF Level, Extends
  <1>4. ASSUME NEW k \in 1..n
        PROVE  IF k = 1 THEN Level(blocks, k) = 1 ELSE Level(blocks, k) <= Level(blocks, k - 1) + 1
    <2>1. CASE k = 1
      <3>1. n > 0
        BY <1>1
      <3> QED
        BY <1>1, <1>2, <2>1, <3>1 DEF IsTrees, Level
    <2>2. CASE k # 1
      <3>1. k - 1 \in 1..(n - 1) /\ k - 1 \in 1..n /\ (k - 1) + 1 = k
        BY <1>1, <2>2
      <3>2. Extends(Own(blocks, k - 1), blocks[k].above)
        BY <1>1, <3>1 DEF IsTrees
      <3>3. Len(Own(blocks, k - 1)) = Level(blocks, k - 1) + 1
        BY <1>1, <3>1, EntryTypes DEF Level
      <3> QED
        BY <2>2, <3>2, <3>3 DEF Extends, Level
    <2> QED
      BY <2>1, <2>2
  <1> QED
    BY <1>1, <1>3, <1>4, EmptySeq DEF HasLevels

\* Whatever the types of a document's blocks and however they are nested, each that is in
\* lists, quotes and toggles alone, or a row of such a table, is written; what is written
\* is, once, in the page's order, indented by the lists it is in, with toggles closed after
\* all that is in them, and the attachments and warnings are those of what is written
\* (converter.go:36-240): of pages that nobody edits, as the run checks, and of those that
\* were edited while they were read.
THEOREM ContentIsAlwaysWrittenInOrder ==
  AdapterSpec =>
    [](/\ ContentIsWrittenInOrder
       /\ at = "done" => \A kind \in [DOMAIN blocks -> BlockKinds] : IsWrittenInOrder(blocks, kind))
  <1>1. ASSUME PageInv
        PROVE  at = "done" => \A kind \in [DOMAIN blocks -> BlockKinds] : IsWrittenInOrder(blocks, kind)
    <2> SUFFICES ASSUME at = "done", NEW kind \in [DOMAIN blocks -> BlockKinds]
                 PROVE  IsWrittenInOrder(blocks, kind)
      OBVIOUS
    <2>1. HasLevels(blocks) /\ (blocks = << >> <=> Len(blocks) = 0)
      BY <1>1, DocumentHasLevels
    <2>2. Writes(blocks, kind, Convert(blocks, kind), {k \in DOMAIN blocks : IsWritten(blocks, kind, k)})
      BY <2>1, ConvertWrites
    <2> QED
      BY <2>2, IsInOrder
  <1>2. ASSUME PageInv
        PROVE  /\ ContentIsWrittenInOrder
               /\ at = "done" => \A kind \in [DOMAIN blocks -> BlockKinds] : IsWrittenInOrder(blocks, kind)
    BY <1>1, <1>2 DEF ContentIsWrittenInOrder
  <1> QED
    BY <1>2, AdapterAlways, PTL DEF AdapterInv
=============================================================================
