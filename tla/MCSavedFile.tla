----------------------------- MODULE MCSavedFile -----------------------------
(* Small instances of SavedFile: a few commands that save, one that clears.  *)
EXTENDS SavedFile

CONSTANTS w1, w2, w3, r1, r2

ThreeWriters == {w1, w2, w3}
TwoRemovers == {r1, r2}
=============================================================================
