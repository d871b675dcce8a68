\* Two buttons, a latch that catches any intermediate stage, resets at any time.
CONSTANTS
    Seuil = 2
    Max = 3
    UneSec = 3
    DemiSec = 2
    MaxUn = 3
    MaxDemi = 3
    RazAChaud = TRUE
    Glitches <- Circuit
    Actifs <- AutoBabord
SPECIFICATION Spec
INVARIANT InvBarre
PROPERTIES UneSeuleBascule CommandeTenue RetourAuCalme EntoureLeBip EntoureLesLeds
