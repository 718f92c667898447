---------------------------- MODULE MCAvatarLink ----------------------------
(* An avatar of the current tool, one of an older protocol, and one that    *)
(* reports no marker.  One static field stands for all of them.             *)
EXTENDS AvatarLink

Fields == {"protocol"}

AllMarkers ==
    [new      |-> [protocol |-> "current", beacon |-> "current"],
     old      |-> [protocol |-> "other",   beacon |-> "other"],
     unmarked |-> [protocol |-> "none",    beacon |-> "none"]]

AllAvatars == DOMAIN AllMarkers

NewMarker == [a \in {"new"} |-> AllMarkers[a]]
============================================================================
