---------------------------- MODULE VersionOrder ----------------------------
(***************************************************************************)
(* The order of release tags (update_manager.py 29-61).  A tag's numbers    *)
(* major.minor.patch are one rank, `base`; what follows them is nothing, a  *)
(* -prebuild number, or any other suffix with a number in it.               *)
(***************************************************************************)
EXTENDS Integers

Shapes == {"stable", "prebuild", "other"}
Versions == [base : Nat, shape : Shapes, number : Nat]

(* _version_tuple: stable tags and prebuilds carry a slot that separates    *)
(* them; of any other tag the first numbers are taken as they come.         *)
VersionTuple_without_stage(v) == <<v.base, 0, v.number>>
VersionTuple(v) ==
    <<v.base,
      IF v.shape = "stable" THEN 1 ELSE IF v.shape = "prebuild" THEN 0 ELSE v.number,
      IF v.shape = "prebuild" THEN v.number ELSE 0>>

(* Python compares tuples from the left. *)
Before(s, t) == \E i \in 1..3 : s[i] < t[i] /\ \A j \in 1..3 : j < i => s[j] = t[j]

Newer(v, w) == Before(VersionTuple(w), VersionTuple(v))

(* What the order stands for, on tags of the project's own form: a later    *)
(* base wins, a stable release follows its prebuilds, prebuilds follow      *)
(* their number.                                                            *)
WellFormed == {v \in Versions : v.shape # "other" /\ (v.shape = "stable" => v.number = 0)}

Outranks(v, w) ==
    \/ v.base > w.base
    \/ v.base = w.base /\ v.shape = "stable" /\ w.shape = "prebuild"
    \/ v.base = w.base /\ v.shape = "prebuild" /\ w.shape = "prebuild" /\ v.number > w.number

(* _select_release: the newest release the channel allows. *)
Eligible(releases, channel) == {r \in releases : channel = "test" \/ ~r.prerelease}

SelectRelease(releases, channel) ==
    {r \in Eligible(releases, channel) :
        \A s \in Eligible(releases, channel) : ~Newer(s.version, r.version)}
=============================================================================
