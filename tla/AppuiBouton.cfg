\* Counter of 4 bits, threshold at 6.
CONSTANTS
    Seuil = 6
    Max = 15
SPECIFICATION Spec
INVARIANTS SansReste InvAppui
PROPERTIES PressionEntendue ClasseFidele ReponseJustifiee
