CONSTANTS
    MaxFd = 6
    Nul <- DevNul
    Peripheriques <- Devices
    Montages <- Mounts
    Noms <- NomsPetit
    StdOut <- Uart
    StdIn <- Uart
    StdErr <- Led
SPECIFICATION Spec
INVARIANTS TypeOK SansFuite Verrous
PROPERTIES OuvertureRefusee
