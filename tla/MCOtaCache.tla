----------------------------- MODULE MCOtaCache -----------------------------
(* The model-checking instance of OtaCache: two releases of both files and  *)
(* one that lists none, as release.sh may write it.                         *)
EXTENDS OtaCache

Release(t, a) == [f \in Files |-> IF f = Tarball THEN t ELSE a]
WithEmptyRelease == <<Release(1, 1), Release(2, 2), Release(0, 0)>>

\* A fresh installation, and the full cache an earlier updater left.
Fresh == [cache |-> [f \in Files |-> 0], frontend |-> 0, manifest |-> 0]
Full == [cache |-> [f \in Files |-> 1], frontend |-> 1, manifest |-> 1]
FreshOrFull == {Fresh, Full}
=============================================================================
