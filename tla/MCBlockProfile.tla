--------------------------- MODULE MCBlockProfile ---------------------------
(* Instances of BlockProfile for TLC. *)
EXTENDS BlockProfile, TLC

\* The default thresholds of Config.
MCWriteDominantRatio == <<55, 100>>
MCPhaseChangeRatio == <<30, 100>>
MCMinReadRatio == <<60, 100>>
MCMaxPhaseChangeRatio == <<35, 100>>

MCSymmetry == Permutations(Blocks)
=============================================================================
