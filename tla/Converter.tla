------------------------------ MODULE Converter ------------------------------
(***************************************************************************)
(* What is written of a page's blocks                                       *)
(* (internal/source/notion/converter/converter.go): the lines of the         *)
(* document, its warnings and its attachments.                               *)
(*                                                                         *)
(* Kinds stand for the types of blocks that the converter tells apart:       *)
(* "text" for paragraph, heading, code, divider and bookmark, "list" for the *)
(* items of lists and to_do, "quote" for quote and callout, "file" for image, *)
(* file, pdf and video that Notion hosts, "link" for those elsewhere and for *)
(* embed.  A block is named by its place in the document, a list of blocks   *)
(* by its first, or by Nowhere when it is empty.                              *)
(***************************************************************************)
EXTENDS PageContent

BlockKinds == {"text", "list", "quote", "toggle", "table", "row", "file", "link", "other"}

Nowhere == 0

Level(doc, k) == Len(doc[k].above)

firstChild(doc, k) ==
  IF k < Len(doc) /\ Level(doc, k + 1) > Level(doc, k) THEN k + 1 ELSE Nowhere

IsNext(doc, k, m) ==
  /\ Level(doc, m) = Level(doc, k)
  /\ \A n \in (k + 1)..(m - 1) : Level(doc, n) > Level(doc, k)

next(doc, k) ==
  IF \E m \in (k + 1)..Len(doc) : IsNext(doc, k, m)
  THEN CHOOSE m \in (k + 1)..Len(doc) : IsNext(doc, k, m) ELSE Nowhere

-----------------------------------------------------------------------------

\* What is written.
Nothing == [lines |-> << >>, warnings |-> << >>, attachments |-> << >>]
Line(k, form, indent) ==
  [Nothing EXCEPT !.lines = <<[block |-> k, form |-> form, indent |-> indent]>>]
Warning(k) == [Nothing EXCEPT !.warnings = <<k>>]
Attachment(k) == [Nothing EXCEPT !.attachments = <<k>>]

Then(out, more) == [lines |-> out.lines \o more.lines,
                    warnings |-> out.warnings \o more.warnings,
                    attachments |-> out.attachments \o more.attachments]

unsupported(k) == Then(Warning(k), Line(k, "placeholder", 0))

\* The rows in a list of blocks.
tableRows(doc, kind) ==
  LET rows[k \in 0..Len(doc)] ==
        IF k = Nowhere THEN Nothing
        ELSE Then(IF kind[k] = "row" THEN Line(k, "text", 0) ELSE Nothing, rows[next(doc, k)])
  IN  rows

renderTable(k, rows) == IF rows = Nothing THEN unsupported(k) ELSE rows

\* Nested blocks are written at the depth of the block they are in.
MutantNested(depth) == depth
Nested(depth) == depth + 1

\* Only some types have their children written.
renderBlock(k, kind, depth, children, rows) ==
  CASE kind[k] = "text"   -> Line(k, "text", 0)
    [] kind[k] = "list"   -> Then(Line(k, "text", depth), children)
    [] kind[k] = "quote"  -> Then(Line(k, "text", 0), children)
    [] kind[k] = "toggle" ->
         Then(Then(Line(k, "text", 0), children), Then(Line(k, "close", 0), Warning(k)))
    [] kind[k] = "table"  -> renderTable(k, rows)
    [] kind[k] = "file"   -> Then(Line(k, "text", 0), Attachment(k))
    [] kind[k] = "link"   -> Then(Line(k, "text", 0), Warning(k))
    [] OTHER              -> unsupported(k)

\* A list of blocks at a depth.
renderBlocks(doc, kind) ==
  LET render[k \in 0..Len(doc)] ==
        [depth \in Nat |->
          IF k = Nowhere THEN Nothing
          ELSE Then(renderBlock(k, kind, depth, render[firstChild(doc, k)][Nested(depth)],
                                tableRows(doc, kind)[firstChild(doc, k)]),
                    render[next(doc, k)][depth])]
  IN  render

Convert(doc, kind) ==
  renderBlocks(doc, kind)[IF doc = << >> THEN Nowhere ELSE 1][0]

-----------------------------------------------------------------------------
(* Properties.                                                             *)

IsWithin(doc, k, m) == m < k /\ \A n \in (m + 1)..k : Level(doc, n) > Level(doc, m)
IsChild(doc, k, m) == IsWithin(doc, k, m) /\ Level(doc, k) = Level(doc, m) + 1

IsRow(doc, kind, k) ==
  kind[k] = "row" /\ \E m \in DOMAIN doc : IsChild(doc, k, m) /\ kind[m] = "table"
HasRow(doc, kind, k) ==
  kind[k] = "table" /\ \E m \in DOMAIN doc : IsChild(doc, m, k) /\ kind[m] = "row"

\* Every block that it is in is of a type whose children are written, or is a table
\* and it one of its rows.
IsWritten(doc, kind, k) ==
  /\ ~HasRow(doc, kind, k)
  /\ \A m \in DOMAIN doc : IsWithin(doc, k, m) =>
       \/ kind[m] \in {"list", "quote", "toggle"}
       \/ IsRow(doc, kind, k) /\ IsChild(doc, k, m)

\* What is not written as it was.
IsWarnedOf(doc, kind, k) ==
  \/ kind[k] \in {"toggle", "link", "other", "table"}
  \/ kind[k] = "row" /\ ~IsRow(doc, kind, k)

\* What comes first is before the other in the document; a toggle is closed after
\* all that is in it and before all else that follows.
InOrder(doc, l, m) ==
  /\ l.form = "close" => l.block # m.block /\ ~IsWithin(doc, m.block, l.block)
  /\ \/ l.block < m.block
     \/ m.form = "close" /\ (l.block = m.block \/ IsWithin(doc, l.block, m.block))

\* Every block in lists, quotes and toggles alone, and every row of such a table, has
\* its line.  What has one has it once, in the order of the page, with each list it is in
\* indenting it; toggles nest.  Every written file is an attachment of the document, and
\* what is not written as it was is warned of.
IsWrittenInOrder(doc, kind) ==
  LET out == Convert(doc, kind)
      of(forms) == {l.block : l \in {m \in ToSet(out.lines) : m.form \in forms}}
      written == of({"text", "placeholder"})
      indent(k) == IF kind[k] = "list" THEN Level(doc, k) - 1 ELSE 0
  IN  /\ {k \in DOMAIN doc : IsWritten(doc, kind, k)} \subseteq written
      /\ written \subseteq DOMAIN doc
      /\ of({"close"}) = {k \in written : kind[k] = "toggle"}
      /\ \A k, m \in DOMAIN out.lines : k < m => InOrder(doc, out.lines[k], out.lines[m])
      /\ \A l \in ToSet(out.lines) : l.indent = indent(l.block)
      /\ ToSet(out.attachments) = {k \in written : kind[k] = "file"}
      /\ \A k, m \in DOMAIN out.attachments : k < m => out.attachments[k] < out.attachments[m]
      /\ ToSet(out.warnings) = {k \in written : IsWarnedOf(doc, kind, k)}
      /\ IsInjective(out.warnings)

\* Whatever the types of its blocks, a document is written so (converter.go:36-240).
\* Pages that nobody edits have every shape there is.
ContentIsWrittenInOrder ==
  at = "done" /\ edits = 0 =>
    \A kind \in [DOMAIN blocks -> BlockKinds] : IsWrittenInOrder(blocks, kind)

\* A block of a type that is not supported has a warning and a placeholder, in
\* whatever blocks of supported types it is (README.md:48, README_docker.md:128).  The
\* children of paragraphs and headings are fetched and never written
\* (converter.go:70-77).
UnsupportedBlocksAreVisible ==
  at = "done" =>
    \A kind \in [DOMAIN blocks -> BlockKinds], k \in DOMAIN blocks :
      LET out == Convert(blocks, kind) IN
      /\ kind[k] = "other"
      /\ \A m \in DOMAIN blocks :
           IsWithin(blocks, k, m) => kind[m] \in {"text", "list", "quote", "toggle"}
      => /\ k \in ToSet(out.warnings)
         /\ \E l \in ToSet(out.lines) : l.block = k /\ l.form = "placeholder"
=============================================================================
