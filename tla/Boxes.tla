------------------------------ MODULE Boxes ------------------------------
(***************************************************************************)
(* The ranges of a region (struct Region of lib.rs) and the test for their *)
(* overlap (regions_overlap_any of dispatch/ddm_matching.rs).              *)
(*                                                                         *)
(* A box is a map from some of the dimensions to pairs of bounds, both     *)
(* inclusive; a dimension it does not name is unrestricted.                *)
(***************************************************************************)
EXTENDS Naturals

CONSTANTS Dimensions,    \* dimension handles
          MaxBound       \* u32::MAX

ASSUME MaxBoundAssumption == MaxBound \in Nat

Bounds == 0 .. MaxBound

\* What set_range_bounds lets through: lower <= upper.
Ranges == {range \in Bounds \X Bounds : range[1] <= range[2]}

Boxes == UNION {[dims -> Ranges] : dims \in SUBSET Dimensions}

\* The test as it would be for half-open ranges.
OverlapHalfOpen(p, s) ==
    \A d \in DOMAIN p \cap DOMAIN s : p[d][1] < s[d][2] /\ s[d][1] < p[d][2]

\* regions_overlap_any, for one pair of regions: in every dimension that both
\* have, the ranges must intersect.
Overlap(p, s) ==
    \A d \in DOMAIN p \cap DOMAIN s : p[d][1] <= s[d][2] /\ s[d][1] <= p[d][2]

\* The points of the routing space that a box holds.
Holds(box, point) ==
    \A d \in DOMAIN box : box[d][1] <= point[d] /\ point[d] <= box[d][2]

\* Reference: the two boxes have a point in common.
Meet(p, s) == \E point \in [Dimensions -> Bounds] : Holds(p, point) /\ Holds(s, point)
=============================================================================
