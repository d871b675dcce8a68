\* Counter of 3 bits, threshold at 4: a press may outlast the counter.
CONSTANTS
    Seuil = 4
    Max = 7
SPECIFICATION Spec
PROPERTIES LongMemeAuDela
