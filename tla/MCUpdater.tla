----------------------------- MODULE MCUpdater -----------------------------
(* A prebuild and the stable release it leads to, whose archive lacks       *)
(* version.json.                                                            *)
EXTENDS Updater

Stable(n) == [base |-> n, shape |-> "stable", number |-> 0]
Prebuild(n, k) == [base |-> n, shape |-> "prebuild", number |-> k]

Whole(v, pre) == [version |-> v, prerelease |-> pre, asset |-> TRUE, exe |-> TRUE, stamp |-> v]

First == Stable(1)
Published ==
    { Whole(Prebuild(2, 1), TRUE),
      [Whole(Stable(2), FALSE) EXCEPT !.stamp = None] }
=============================================================================
