\* Both rudder buttons, any answers, resets at any time.
CONSTANTS
    UneSec = 3
    DemiSec = 2
    MaxUn = 3
    MaxDemi = 3
SPECIFICATION Spec
INVARIANTS BarreMontree InvLeds
PROPERTIES Clignote FlashFini
