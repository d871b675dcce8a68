\* One button that counts, resets at any time.
CONSTANTS
    Seuil = 3
    Max = 7
    UneSec = 3
    DemiSec = 2
    MaxUn = 7
    MaxDemi = 3
    RazAChaud = TRUE
    Glitches <- Simulation
    Actifs <- AutoBabord
SPECIFICATION Spec
INVARIANT RazMetEnVeille
