---------------------------- MODULE MCGRouteMVP ----------------------------
EXTENDS GRouteMVP, GRoutePlanner, TLC

CONSTANTS a, b, c

MCPaths == {a, b, c}
Symmetry == Permutations(MCPaths)

\* The route planners, on all small arguments.
ASSUME PlannersAssumption == PlannersAgree /\ FallbackAnswersLikePosix
=============================================================================
