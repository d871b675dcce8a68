\* Two buttons, the stages of a simulator, never reset once started.
CONSTANTS
    Seuil = 5
    Max = 7
    UneSec = 3
    DemiSec = 2
    MaxUn = 3
    MaxDemi = 3
    RazAChaud = FALSE
    Glitches <- Simulation
    Actifs <- AutoTribord
SPECIFICATION SpecAppuis
INVARIANT SuccesseurPret
PROPERTIES BasculeEntendue BasculeAnnulee PressionObeie
