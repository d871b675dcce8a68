----------------------------- MODULE MCGestionBarre -----------------------------
EXTENDS GestionBarre

\* A simulator evaluates the latch at every stage.
Simulation == {1..3}

\* A circuit may catch any of the intermediate stages.
Circuit == SUBSET (1..3)

\* The two rudder buttons play the same part: a run uses one or the other.
AutoBabord == {"auto", "babord"}
AutoTribord == {"auto", "tribord"}
=================================================================================
