--------------------------- MODULE MCNotionAdapter ---------------------------
(* An instance of NotionAdapter and DocumentOrder for TLC. *)
EXTENDS NotionAdapter, DocumentOrder

SomeDatabaseSets == {{2}, {1, 3}}
SmallLimits == {2, 4}
SomeVersions == {<<0, 29>>, <<0, 28, 9>>, <<0, 29, 1>>, <<1>>}
SomeLimits == {0, 5}

\* Where only the fetch of a page matters.
NoDatabases == {{}}
OneLimit == {1}
NoLimit == {0}
=============================================================================
