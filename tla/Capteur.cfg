\* Both sensors, any input their counters can tell, a reset at any time.
CONSTANTS
    Usec = 3
    Sec = 8
    MaxTemps = 5
    MaxSec = 15
    Base = 1
    Pas = 2
    Cap = 3
    Ecart = 4
    Delai = 4
SPECIFICATION Spec
INVARIANTS TypeOK MesureJuste CommandeSuivie
PROPERTIES CapJuste VentNul
