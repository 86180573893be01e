---------------------------- MODULE DocumentOrder ----------------------------
(* The order by hierarchy in which the documents that NotionDiscovery lists   *)
(* are shown (orderDocumentRefsByHierarchy in                               *)
(* internal/source/notion/adapter.go).                                      *)
EXTENDS NotionDiscovery

\* A ref whose parent is listed too goes under that one.
HasListedParent(rs, r) == r.parent \in Listed(rs) \ {r.id}
Children(rs, i) == {r \in ToSet(rs) : r.parent = i /\ HasListedParent(rs, r)}
Roots(rs) == {r \in ToSet(rs) : ~HasListedParent(rs, r)}

\* Databases and parents first, then the last edited, then by id.
isContainer(rs, r) == r.kind = "database" \/ Children(rs, r.id) # {}
Before(rs, r, s) ==
  IF isContainer(rs, r) # isContainer(rs, s) THEN isContainer(rs, r)
  ELSE r.at > s.at \/ (r.at = s.at /\ r.id < s.id)

sortGroup(rs, group) ==
  CHOOSE s \in SetToSeqs(group) : \A k, m \in DOMAIN s : k < m => Before(rs, s[k], s[m])

\* The next call of appendTree: what was added before is not added again; the calls
\* for the children come before those that are to come already.
appendTree(rs, walk) ==
  IF walk.calls = << >> THEN walk
  ELSE LET ref == Head(walk.calls)
       IN  IF ref \in ToSet(walk.ordered) THEN [walk EXCEPT !.calls = Tail(@)]
           ELSE [ordered |-> Append(walk.ordered, ref),
                 calls |-> sortGroup(rs, Children(rs, ref.id)) \o Tail(walk.calls)]

\* More calls than there can be.
EnoughCalls(rs) == (Len(rs) + 1) * (Len(rs) + 1)

appendTrees(rs, ordered, group) ==
  LET after[n \in 0..EnoughCalls(rs)] ==
        IF n = 0 THEN [ordered |-> ordered, calls |-> sortGroup(rs, group)]
        ELSE appendTree(rs, after[n - 1])
  IN  after[EnoughCalls(rs)].ordered

\* adapter.go:195-204 left out.
MutantOrderDocumentRefsByHierarchy(rs) == appendTrees(rs, << >>, Roots(rs))

\* The roots with their trees, then what hangs under no root.
orderDocumentRefsByHierarchy(rs) ==
  LET fromRoots == appendTrees(rs, << >>, Roots(rs))
  IN  appendTrees(rs, fromRoots, ToSet(rs) \ ToSet(fromRoots))

-----------------------------------------------------------------------------
(* Properties.                                                             *)

\* What is in every set that has these and, with a ref, its children.
IsClosed(rs, T) == \A r \in T : Children(rs, r.id) \subseteq T
Beneath(rs, group) ==
  {r \in ToSet(rs) : \A T \in SUBSET ToSet(rs) : group \subseteq T /\ IsClosed(rs, T) => r \in T}

\* The order shown: every document once; one whose parent is listed comes after
\* it with nothing in between that is not under the parent as well; documents
\* side by side are sorted.  Moves during the search can make documents each
\* other's parents; those, and what is under them, come after all others, in some
\* order (adapter.go:140-206).
ShownByHierarchy ==
  phase = "listed" =>
    LET shown == orderDocumentRefsByHierarchy(refs)
        D == DOMAIN shown
        isUnderRoot(k) == shown[k] \in Beneath(refs, Roots(refs))
        parentOf(k) == IF HasListedParent(refs, shown[k]) THEN shown[k].parent ELSE None
    IN
    /\ ToSet(shown) = ToSet(refs)
    /\ Len(shown) = Len(refs)
    /\ \A k, m \in D : k < m /\ isUnderRoot(m) => isUnderRoot(k)
    /\ \A p, k \in D : isUnderRoot(k) /\ parentOf(k) = shown[p].id =>
         p < k /\ \A m \in (p + 1)..k : shown[m] \in Beneath(refs, {shown[p]})
    /\ \A k, m \in D : k < m /\ isUnderRoot(m) /\ parentOf(k) = parentOf(m) =>
         Before(refs, shown[k], shown[m])
=============================================================================
