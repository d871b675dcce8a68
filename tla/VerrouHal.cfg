CONSTANTS
    MaxFd = 4
    Nul <- DevNul
    Peripheriques <- Devices
    Montages <- Mounts
    Noms <- NomsPetit
    StdOut <- Uart
    StdIn <- Uart
    StdErr <- Led
SPECIFICATION Spec
INVARIANT VerrouSeul
