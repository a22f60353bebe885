---- MODULE MCRegions ----
(***************************************************************************)
(* A small instance of Regions for TLC.                                    *)
(***************************************************************************)
EXTENDS Regions, TLC

CONSTANTS p, s,   \* federates
          a, b,   \* attributes
          x       \* a dimension

MCCreator == <<p, s>>

MCSymmetry == Permutations({a, b})
====
