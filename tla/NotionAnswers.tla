---------------------------- MODULE NotionAnswers ----------------------------
(* Notion's paginated answers, as the adapter relies on them. *)
EXTENDS Naturals, Sequences

CONSTANTS
  PageSize,        \* most results of an answer (100)
  None             \* no parent, no cursor

ASSUME PageSizeAssumption == PageSize \in Nat \ {0}

\* The answers to a request for the results in the order of s: a cursor names
\* the first result to come; an answer may have fewer than asked for.
Answers(s, from, most) ==
  LET first == IF from = None THEN 1 ELSE CHOOSE k \in DOMAIN s : s[k] = from
      rest == SubSeq(s, first, Len(s))
      answer(size) == [results |-> SubSeq(rest, 1, size),
                       next |-> IF Len(rest) > size THEN rest[size + 1] ELSE None]
  IN  IF rest = << >> THEN {answer(0)}
      ELSE {answer(size) : size \in 1..(IF Len(rest) > most THEN most ELSE Len(rest))}
=============================================================================
