---------------------------- MODULE MCSupervisor ----------------------------
EXTENDS SupervisorProperties, TLC
CONSTANTS g1, g2, g3, h1, h2
TwoGenerations == {g1, g2}
ThreeGenerations == {g1, g2, g3}
OneHost == {h1}
TwoHosts == {h1, h2}
GenerationSymmetry == Permutations(Generations)
=============================================================================
