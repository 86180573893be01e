---------------------------- MODULE MCAttachments ----------------------------
(* An instance of Attachments for TLC. *)
EXTENDS Attachments

CONSTANTS w1, w2, b1, b2

TwoWorkers == {w1, w2}
TwoBlocks == {b1, b2}

\* No attachment, one, two, and one block twice.
SomeDocuments == {<< >>, <<b1>>, <<b1, b2>>, <<b1, b1>>}

\* At the default limit and just over it; just and far over the other one.
SomeSizes == {2, 3}
SomeOptions == {0, 1}
=============================================================================
