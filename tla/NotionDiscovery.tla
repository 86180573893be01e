--------------------------- MODULE NotionDiscovery ---------------------------
(***************************************************************************)
(* How pages are found in Notion (internal/source/notion/adapter.go): the   *)
(* search that lists them for the console, page by page and by time of last *)
(* edit, and the expansion of what the user selects, databases included,    *)
(* into the pages to import.  DocumentOrder has the order they are shown in. *)
(*                                                                         *)
(* Notion's users go on editing and moving pages meanwhile, delete some or   *)
(* take them from the integration, so the pages of one answer and of the    *)
(* next need not fit together.                                              *)
(***************************************************************************)
EXTENDS NotionAnswers, SequencesExt

CONSTANTS
  N,               \* pages and databases are numbered: their ids have an order
  DatabaseSets,    \* which of them may be the databases
  Limits,          \* limits a listing may be asked for
  MaxEdits         \* bound: edits and moves while pages are being found

Ids == 1..N
Kinds == {"page", "database"}

ASSUME DiscoveryAssumption ==
  /\ N \in Nat \ {0}
  /\ MaxEdits \in Nat
  /\ DatabaseSets \subseteq SUBSET Ids
  /\ Limits \subseteq Nat \ {0}
  /\ None \notin Nat

VARIABLES
  source,     \* Notion: parent, kind and last edit of each id, and if it is there
  limit,      \* what the listing was asked for, 0 when it is over
  phase,      \* where ListDocuments, then ExpandDocumentIDs, is
  cursor,     \* start_cursor of the next request
  refs,       \* ListDocuments: what was found, in the order it was found
  hasNext,    \* ListDocuments: whether Notion had more
  todo,       \* ExpandDocumentIDs: ids not yet looked at, the current one first
  pageIDs,    \* databasePageIDs: pages of the current database found so far
  expanded,   \* ExpandDocumentIDs: the result
  selected    \* what the user selected

list == <<limit, refs, hasNext>>
expansion == <<todo, pageIDs, expanded, selected>>
vars == <<source, phase, cursor, list, expansion>>

-----------------------------------------------------------------------------
(* Notion.                                                                 *)

\* Deleted, or not shared with the integration any more: Notion answers 404.
Gone(i) == ~source[i].shared

\* Whether no id is above itself.
IsForest(s) == \A S \in SUBSET Ids \ {{}} : \E i \in S : s[i].parent \notin S

\* The last edited first.
IsFoundBefore(i, k) ==
  source[i].at > source[k].at \/ (source[i].at = source[k].at /\ i < k)

SearchResults ==
  {s \in SetToSeqs({i \in Ids : ~Gone(i)}) : \A k, m \in DOMAIN s : k < m => IsFoundBefore(s[k], s[m])}

\* What a database has, in an order that edits do not change.
DatabaseResults(d) ==
  {s \in SetToSeqs({i \in Ids : source[i].parent = d /\ ~Gone(i)}) :
     \A k, m \in DOMAIN s : k < m => s[k] < s[m]}

Listed(rs) == {rs[k].id : k \in DOMAIN rs}

-----------------------------------------------------------------------------

Init ==
  /\ \E D \in DatabaseSets, parent \in [Ids -> Ids \cup {None}] :
       source = [i \in Ids |-> [parent |-> parent[i], at |-> 0, shared |-> TRUE,
                               kind |-> IF i \in D THEN "database" ELSE "page"]]
  /\ IsForest(source)
  /\ limit \in Limits
  /\ phase = "search"
  /\ cursor = None
  /\ refs = << >>
  /\ hasNext = FALSE
  /\ todo = << >>
  /\ pageIDs = << >>
  /\ expanded = << >>
  /\ selected = {}

Edits == Max({source[i].at : i \in Ids})

\* A user edits a page and may move it, anywhere but under itself; or deletes it or
\* takes it from the integration.
Edit(i) ==
  /\ phase \in {"search", "retrieve", "query"}
  /\ Edits < MaxEdits
  /\ ~Gone(i)
  /\ \/ \E p \in Ids \cup {None} :
          LET edited == [source EXCEPT ![i].parent = p, ![i].at = Edits + 1]
          IN  IsForest(edited) /\ source' = edited
     \/ source' = [source EXCEPT ![i].shared = FALSE, ![i].at = Edits + 1]
  /\ UNCHANGED <<phase, cursor, list, expansion>>

-----------------------------------------------------------------------------
(* ListDocuments.                                                          *)

\* No more than are still wanted.
pageSize == IF limit - Len(refs) > PageSize THEN PageSize ELSE limit - Len(refs)

Ref(i) == [id |-> i, parent |-> source[i].parent, kind |-> source[i].kind,
           at |-> source[i].at]

SearchAnswers == UNION {Answers(s, cursor, pageSize) : s \in SearchResults}

\* The result that a cursor names is still there; Notion refuses others.
SearchIsValid == cursor # None => ~Gone(cursor)

\* The results that are not known already.
addRefs(results) ==
  FoldLeft(LAMBDA acc, i : IF i \in Listed(acc) THEN acc ELSE Append(acc, Ref(i)), refs, results)

\* A page of results with nothing new is taken for the last.
MutantSearch ==
  /\ phase = "search"
  /\ SearchIsValid
  /\ \E answer \in SearchAnswers :
       /\ refs' = addRefs(answer.results)
       /\ hasNext' = (answer.next # None /\ refs' # refs)
       /\ IF Len(refs') < limit /\ hasNext'
          THEN cursor' = answer.next /\ UNCHANGED phase
          ELSE phase' = "listed" /\ UNCHANGED cursor
  /\ UNCHANGED <<source, limit, expansion>>

\* The limit alone ends the listing.
MutantSearchToLimit ==
  /\ phase = "search"
  /\ SearchIsValid
  /\ \E answer \in SearchAnswers :
       /\ refs' = addRefs(answer.results)
       /\ hasNext' = (answer.next # None)
       /\ IF Len(refs') < limit
          THEN cursor' = answer.next /\ UNCHANGED phase
          ELSE phase' = "listed" /\ UNCHANGED cursor
  /\ UNCHANGED <<source, limit, expansion>>

\* One page of results, without what is known already.
Search ==
  /\ phase = "search"
  /\ SearchIsValid
  /\ \E answer \in SearchAnswers :
       /\ refs' = addRefs(answer.results)
       /\ hasNext' = (answer.next # None)
       /\ IF Len(refs') < limit /\ hasNext'
          THEN cursor' = answer.next /\ UNCHANGED phase
          ELSE phase' = "listed" /\ UNCHANGED cursor
  /\ UNCHANGED <<source, limit, expansion>>

\* The console has the documents, ListDocuments is gone with what it kept, and
\* the user selects some, in some order.
Select ==
  /\ phase = "listed"
  /\ \E k \in DOMAIN refs : todo' \in [1..k -> Listed(refs)]
  /\ IsInjective(todo')
  /\ selected' = ToSet(todo')
  /\ phase' = "retrieve"
  /\ limit' = 0
  /\ refs' = << >>
  /\ hasNext' = FALSE
  /\ cursor' = None
  /\ UNCHANGED <<source, pageIDs, expanded>>

-----------------------------------------------------------------------------
(* ExpandDocumentIDs.                                                      *)

\* What is there already is added again.
MutantAddUnseen(s, new) == s \o new

addUnseen(s, new) ==
  FoldLeft(LAMBDA acc, i : IF i \in ToSet(acc) THEN acc ELSE Append(acc, i), s, new)

\* The current id is dealt with and has these pages.
Expand(pages) ==
  /\ expanded' = addUnseen(expanded, pages)
  /\ pageIDs' = << >>
  /\ cursor' = None
  /\ todo' = Tail(todo)
  /\ phase' = IF Tail(todo) = << >> THEN "expanded" ELSE "retrieve"

\* RetrieveDatabase finds the current id, or Notion says 404 or that it is a page.
isDatabase == source[Head(todo)].kind = "database" /\ ~Gone(Head(todo))

\* What is no database, or is gone, is taken for a page.
RetrieveDatabase ==
  /\ phase = "retrieve"
  /\ IF isDatabase
     THEN /\ phase' = "query"
          /\ UNCHANGED <<cursor, pageIDs, todo, expanded>>
     ELSE Expand(<<Head(todo)>>)
  /\ UNCHANGED <<source, list, selected>>

\* The database is still there, and the result that a cursor names in it.
QueryIsValid ==
  /\ ~Gone(Head(todo))
  /\ cursor # None => source[cursor].parent = Head(todo) /\ ~Gone(cursor)

DatabaseAnswers == UNION {Answers(s, cursor, PageSize) : s \in DatabaseResults(Head(todo))}

\* The results that are pages.
addPages(results) ==
  FoldLeft(LAMBDA acc, i : IF source[i].kind = "page" THEN Append(acc, i) ELSE acc,
           pageIDs, results)

\* One page of results; the last one completes the current database.
QueryDatabase ==
  /\ phase = "query"
  /\ QueryIsValid
  /\ \E answer \in DatabaseAnswers :
       IF answer.next # None
       THEN /\ cursor' = answer.next
            /\ pageIDs' = addPages(answer.results)
            /\ UNCHANGED <<todo, expanded, phase>>
       ELSE Expand(addPages(answer.results))
  /\ UNCHANGED <<source, list, selected>>

\* An error is all that is left of the call.
Abandon ==
  /\ phase' = "error"
  /\ limit' = 0
  /\ hasNext' = FALSE
  /\ cursor' = None
  /\ refs' = << >> /\ todo' = << >> /\ pageIDs' = << >> /\ expanded' = << >>
  /\ selected' = {}
  /\ UNCHANGED source

\* Any request may fail, and everything with it.
Fail == phase \in {"search", "retrieve", "query"} /\ Abandon

-----------------------------------------------------------------------------

\* Notion refuses a cursor whose result is not there any more, and to query a
\* database that is gone.
Refuse ==
  /\ \/ phase = "search" /\ ~SearchIsValid
     \/ phase = "query" /\ ~QueryIsValid
  /\ Fail

AdapterStep == Search \/ RetrieveDatabase \/ QueryDatabase \/ Refuse

-----------------------------------------------------------------------------
(* Properties.                                                             *)

\* Edited, moved or gone since the start.
Touched(i) == source[i].at > 0

\* The type invariant.
DiscoveryTypeOK ==
  /\ source \in [Ids -> [parent : Ids \cup {None}, kind : Kinds, at : 0..MaxEdits,
                        shared : BOOLEAN]]
  /\ limit \in Limits \cup {0}
  /\ phase \in {"search", "listed", "retrieve", "query", "expanded", "error"}
  /\ cursor \in Ids \cup {None}
  /\ refs \in Seq([id : Ids, parent : Ids \cup {None}, kind : Kinds, at : 0..MaxEdits])
  /\ Len(refs) <= limit
  /\ hasNext \in BOOLEAN
  /\ {todo, pageIDs, expanded} \subseteq Seq(Ids)
  /\ selected \subseteq Ids

\* A listing that says there is no more has everything that nobody touched
\* while it was made, and nothing twice, however often the order of the search
\* changed between two of its pages (adapter.go:84-138).
ListingIsComplete ==
  phase = "listed" =>
    /\ IsInjective([k \in DOMAIN refs |-> refs[k].id])
    /\ ~hasNext => \A i \in Ids : Touched(i) \/ i \in Listed(refs)

\* The pages a user wants: those selected, and those of a selected database that
\* could be looked up, which is then not itself among the ids found.
IsWanted(i, found) ==
  /\ source[i].kind = "page"
  /\ \/ i \in selected
     \/ /\ source[i].parent \in selected \ found
        /\ source[source[i].parent].kind = "database"

\* What is imported, each once although it may be selected both by itself and with
\* its database: all pages that are wanted and none that is not, but for those
\* touched meanwhile; and a selected database in place of its pages only if it was
\* gone when it was looked up, since a 404 counts as "not a database"
\* (adapter.go:254-323).
ExpandedExactly ==
  phase = "expanded" =>
    /\ IsInjective(expanded)
    /\ \A i \in ToSet(expanded) : source[i].kind = "database" => i \in selected /\ Gone(i)
    /\ \A i \in Ids :
         Touched(i) \/ (i \in ToSet(expanded) <=> IsWanted(i, ToSet(expanded)))

\* A listing ends, although edits make pages of results repeat, and without the
\* help of a request that fails (adapter.go:93-134).
DiscoveryEnds == phase = "search" ~> phase \in {"listed", "error"}
=============================================================================
