--------------------------- MODULE MCAuthSession ---------------------------
(* BrowserStorage for TLC.  The second version of the page drops a model    *)
(* and adds one.                                                            *)
EXTENDS BrowserStorage, TLC

CONSTANTS old, mid, new

TwoVersions == <<<<old, mid>>, <<new, mid>>>>

Symmetry == Permutations(Logins) \cup Permutations(Requests)
              \cup Permutations(Tabs) \cup Permutations(People)
=============================================================================
