\* A short press on STBY/AUTO at the end of a bip.
CONSTANTS
    Seuil = 3
    Max = 7
    UneSec = 3
    DemiSec = 2
    MaxUn = 7
    MaxDemi = 3
    RazAChaud = FALSE
    Glitches <- Simulation
    Actifs <- AutoBabord
SPECIFICATION Spec
PROPERTY ConfirmationSonore
