----------------------------- MODULE PageContent -----------------------------
(***************************************************************************)
(* How a page becomes a document (FetchDocument in                          *)
(* internal/source/notion/adapter.go): the page and the time of its last     *)
(* edit, then its blocks level by level and answer by answer, each request   *)
(* with retries (client.go).  Converter has what is written of them.          *)
(*                                                                         *)
(* Users insert, delete and move blocks meanwhile.                           *)
(***************************************************************************)
EXTENDS NotionAnswers, SequencesExt, Relation

CONSTANTS
  MaxBlocks,      \* blocks are numbered up to this
  MaxBlockEdits,  \* bound: edits of the page
  MaxTries        \* attempts of one request (maxRetries + 1)

BlockIds == 1..MaxBlocks
Page == 0
Parents == BlockIds \cup {Page}

ASSUME PageAssumption ==
  /\ {MaxBlocks, MaxBlockEdits, MaxTries} \subseteq Nat
  /\ None \notin Nat

VARIABLES
  kids,      \* Notion: the children of the page and of each block, in order
  touched,   \* Notion: the last edit of each of these lists
  edits,     \* Notion: edits so far; a page's last_edited_time is the last one
  at,        \* where FetchDocument is
  attempt,   \* of the request under way
  updated,   \* the page's last_edited_time as retrieved
  frames,    \* the calls of fetchChildrenRecursive, the outermost first
  blocks     \* what the outermost call returned

notion == <<kids, touched, edits>>
fetch == <<at, attempt, updated, frames, blocks>>
pageVars == <<notion, fetch>>

-----------------------------------------------------------------------------
(* fetchChildrenRecursive.                                                 *)

\* A block with its children is kept as a list in preorder: every block with the
\* path of those it is in, the page first.
Entry(path, i) == [id |-> i, above |-> path]

\* A call for the children of the block, or page, at the end of a path: whether it
\* has had an answer, results yet to look at, the cursor of the next request, and
\* the blocks it has.
Call(path) == [path |-> path, answered |-> FALSE, rest |-> << >>, next |-> None, got |-> << >>]

Top(s) == s[Len(s)]
SetTop(s, c) == [s EXCEPT ![Len(s)] = c]

-----------------------------------------------------------------------------

Ascending == {s \in UNION {[1..n -> BlockIds] : n \in 0..MaxBlocks} :
                \A k, m \in DOMAIN s : k < m => s[k] < s[m]}

\* Pages of up to MaxBlocks blocks, numbered as they are read.
PageInit ==
  /\ \E n \in 0..MaxBlocks, parent \in [BlockIds -> Parents] :
       /\ \A i \in BlockIds :
            IF i > n THEN parent[i] = i   \* not there yet
            ELSE parent[i] < i /\ \A k \in (parent[i] + 1)..(i - 1) : parent[k] >= parent[i]
       /\ kids \in {lists \in [Parents -> Ascending] :
                      \A p \in Parents : ToSet(lists[p]) = {i \in 1..n : parent[i] = p}}
  /\ touched = [p \in Parents |-> 0]
  /\ edits = 0
  /\ at = "page"
  /\ attempt = 1
  /\ updated = 0
  /\ frames = << >>
  /\ blocks = << >>

Fetching == at \in {"page", "blocks"}

\* A call that has all its blocks.
IsThrough(c) == c.answered /\ c.rest = << >> /\ c.next = None

\* Whether a request is under way.
Requesting ==
  \/ at = "page"
  \/ at = "blocks" /\ Top(frames).rest = << >> /\ ~IsThrough(Top(frames))

\* What is in a block, however deep.
Under == TransitiveClosure([p \in Parents \X Parents |-> p[2] \in ToSet(kids[p[1]])], Parents)

OnPage == {i \in BlockIds : Under[Page, i]}
Without(i) ==
  [p \in Parents |->
    IF i \in ToSet(kids[p]) THEN RemoveAt(kids[p], CHOOSE k \in DOMAIN kids[p] : kids[p][k] = i)
    ELSE kids[p]]

\* A user inserts, moves or deletes a block.  (Between requests the adapter looks
\* at nothing that an edit changes.)
EditPage(i) ==
  /\ Requesting
  /\ edits < MaxBlockEdits
  /\ edits' = edits + 1
  /\ \/ i \in OnPage /\ kids' = Without(i)
     \/ \E p \in (OnPage \cup {Page}) \ {i} :
          /\ ~Under[i, p]
          /\ i \in OnPage \/ kids[i] = << >>
          /\ \E k \in 1..(Len(Without(i)[p]) + 1) :
               kids' = [Without(i) EXCEPT ![p] = InsertAt(@, k, i)]
  /\ touched' = [p \in Parents |-> IF kids'[p] = kids[p] THEN touched[p] ELSE edits']
  /\ UNCHANGED fetch

-----------------------------------------------------------------------------

\* GET /pages/{id}.
RetrievePage ==
  /\ at = "page"
  /\ at' = "blocks"
  /\ updated' = edits
  /\ frames' = <<Call(<<Page>>)>>
  /\ attempt' = 1
  /\ UNCHANGED <<notion, blocks>>

\* The block that a cursor names is where it was; Notion refuses others.
CursorStands ==
  LET c == Top(frames)
  IN  c.next # None => c.next \in ToSet(kids[Last(c.path)])

Result(i) == [id |-> i, hasChildren |-> kids[i] # << >>]

\* GET /blocks/{id}/children.
ListBlockChildren ==
  /\ at = "blocks" /\ Requesting
  /\ CursorStands
  /\ \E answer \in Answers(kids[Last(Top(frames).path)], Top(frames).next, PageSize) :
       frames' = SetTop(frames, [Top(frames) EXCEPT
                   !.answered = TRUE,
                   !.rest = [k \in DOMAIN answer.results |-> Result(answer.results[k])],
                   !.next = answer.next])
  /\ attempt' = 1
  /\ UNCHANGED <<notion, at, updated, blocks>>

\* The next result of an answer: if it has children, they are read first.
ReadResult ==
  /\ at = "blocks" /\ Top(frames).rest # << >>
  /\ LET c == Top(frames)
         r == Head(c.rest)
         read == [c EXCEPT !.rest = Tail(@)]
     IN  frames' = IF r.hasChildren THEN Append(SetTop(frames, read), Call(Append(c.path, r.id)))
                   ELSE SetTop(frames, [read EXCEPT !.got = Append(@, Entry(c.path, r.id))])
  /\ UNCHANGED <<notion, at, attempt, updated, blocks>>

\* What the call below gets from one that has returned: the block, then its children.
Returned(caller, c) ==
  [caller EXCEPT !.got = @ \o <<Entry(caller.path, Last(c.path))>> \o c.got]

\* The page, with its edit time, is read last.
MutantReturn ==
  /\ at = "blocks" /\ IsThrough(Top(frames))
  /\ LET callers == Front(frames)
     IN  IF callers = << >>
         THEN at' = "done" /\ blocks' = Top(frames).got /\ frames' = << >> /\ updated' = edits
         ELSE /\ frames' = SetTop(callers, Returned(Top(callers), Top(frames)))
              /\ UNCHANGED <<at, blocks, updated>>
  /\ UNCHANGED <<notion, attempt>>

\* The last answer of a call is read.
Return ==
  /\ at = "blocks" /\ IsThrough(Top(frames))
  /\ LET callers == Front(frames)
     IN  IF callers = << >>
         THEN at' = "done" /\ blocks' = Top(frames).got /\ frames' = << >>
         ELSE /\ frames' = SetTop(callers, Returned(Top(callers), Top(frames)))
              /\ UNCHANGED <<at, blocks>>
  /\ UNCHANGED <<notion, attempt, updated>>

\* A status 429 or 5xx: the request is made again.
Repeat ==
  /\ Requesting
  /\ attempt < MaxTries
  /\ attempt' = attempt + 1
  /\ UNCHANGED <<notion, at, updated, frames, blocks>>

\* Any other error, or the last attempt's: the fetch fails.
Abort ==
  /\ Requesting
  /\ at' = "error"
  /\ frames' = << >>
  /\ attempt' = 1
  /\ UNCHANGED <<notion, updated, blocks>>

\* An answer that is an error is asked for again.
MutantRefuseCursor == at = "blocks" /\ ~CursorStands /\ UNCHANGED pageVars

RefuseCursor == at = "blocks" /\ ~CursorStands /\ Abort

FetchStep == RetrievePage \/ ListBlockChildren \/ RefuseCursor \/ ReadResult \/ Return

PageNext == FetchStep \/ Repeat \/ Abort \/ \E i \in BlockIds : EditPage(i)

\* Every request ends: it is answered or fails, but nothing relies on failing.
PageSpec == PageInit /\ [][PageNext]_pageVars /\ WF_pageVars(FetchStep)

-----------------------------------------------------------------------------
(* Properties.                                                             *)

Entries == [id : BlockIds, above : Seq(Parents)]
Results == [id : BlockIds, hasChildren : BOOLEAN]
Calls == [path : Seq(Parents) \ {<< >>}, answered : BOOLEAN, rest : Seq(Results),
          next : BlockIds \cup {None}, got : Seq(Entries)]

\* The type invariant; no request is made more than MaxTries times.
PageTypeOK ==
  /\ kids \in [Parents -> Seq(BlockIds)]
  /\ \A p \in Parents : IsInjective(kids[p])
  /\ touched \in [Parents -> 0..edits]
  /\ edits \in 0..MaxBlockEdits
  /\ at \in {"none", "page", "blocks", "done", "error"}
  /\ attempt \in 1..(IF MaxTries = 0 THEN 1 ELSE MaxTries)
  /\ updated \in 0..edits
  /\ frames \in Seq(Calls)
  /\ frames # << >> <=> at = "blocks"
  /\ blocks \in Seq(Entries)
  /\ at # "done" => blocks = << >>

\* Nobody has changed any list on a path since the edit time was read.
Still(path) == \A p \in ToSet(path) : touched[p] <= updated

\* The blocks that a document has at a path are those of a list, in its order.
HasList(doc, path, ids) ==
  LET P == {m \in DOMAIN doc : doc[m].above = path} IN
  /\ {doc[m].id : m \in P} = ToSet(ids)
  /\ \A m, n \in P : m < n =>
       \E k, l \in DOMAIN ids : k < l /\ ids[k] = doc[m].id /\ ids[l] = doc[n].id

\* Every block comes after the one it is in, with nothing but what is in there in
\* between.
IsPreorder(doc) ==
  \A m \in DOMAIN doc :
    IF m = 1 THEN doc[m].above = <<Page>>
    ELSE /\ doc[m].above # << >>
         /\ IsPrefix(doc[m].above, Append(doc[m - 1].above, doc[m - 1].id))

\* A document has the blocks of every list that nobody changed since the edit
\* time was read, nor any list it is in: once, in Notion's order and in their
\* place, however the answers were cut and whatever was edited elsewhere.  Where a
\* list did change, blocks may be missing or twice, but then the page was edited
\* after the time that its document bears (adapter.go:208-220, 325-354).  Whether
\* the next import writes it again is decided by its content first (content.go:48).
DocumentIsNotOlderThanItsTime ==
  at = "done" =>
    /\ IsPreorder(blocks)
    /\ \A path \in {<<Page>>} \cup {Append(e.above, e.id) : e \in ToSet(blocks)} :
         Still(path) => HasList(blocks, path, kids[Last(path)])

\* A fetch ends, although edits go on meanwhile, answers are small and a cursor
\* may be refused (adapter.go:325-354).
FetchEnds == Fetching ~> ~Fetching
=============================================================================
