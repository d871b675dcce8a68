CONSTANTS
    Taille = 3
    Tours = 3
    ProfondeurTx = 1
    ProfondeurRx = 2
    SeuilTx = 0
    SeuilRx = 0
    Numeros = 6
    Demande = 2
    Defaut = 2
    INT_MAX = 4
    ParSeconde = 1
SPECIFICATION Spec
INVARIANTS TypeOK Reveils Fidele
PROPERTIES Canaux AlarmePonctuelle FinSansHote LectureServie Livraison
