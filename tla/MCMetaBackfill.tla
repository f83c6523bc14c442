--------------------------- MODULE MCMetaBackfill ---------------------------
(***************************************************************************)
(* MetaBackfill on small instances.                                        *)
(***************************************************************************)
EXTENDS MetaBackfill

CONSTANTS f1, f2

\* A mail that cannot be parsed in one folder, and one in the next folder with
\* the UID the cursor has reached at the end of the first.
TwoRows == {<<f1, 1>>, <<f2, 1>>}

\* f1 takes two batches of one row.
ThreeRows == TwoRows \cup {<<f1, 2>>}
OneBroken == {<<f1, 1>>}
=============================================================================
