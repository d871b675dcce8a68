---------------------------------- MODULE Canal ----------------------------------
(***************************************************************************)
(* What a direction of the JTAG UART promises: a channel that holds a      *)
(* bounded number of characters, numbered modulo Numeros as they enter,    *)
(* and gives them back in the same order, once each, some at a time.       *)
(***************************************************************************)
EXTENDS Integers, Sequences

CONSTANTS
    Capacite,   \* the most characters that may be on their way
    Numeros     \* the characters are numbered modulo Numeros

VARIABLES
    contenu,    \* the characters on their way, the oldest first
    entre,      \* the number of the next one to enter
    sorti       \* the number of the next one to leave

vars == <<contenu, entre, sorti>>

Serie(de, n) == [k \in 1..n |-> (de + (k - 1)) % Numeros]

Init == contenu = <<>> /\ entre = 0 /\ sorti = 0

Entrent(n) ==
    /\ entre' = (entre + n) % Numeros
    /\ UNCHANGED sorti
    /\ Len(contenu) + n <= Capacite
    /\ contenu' = contenu \o Serie(entre, n)

Sortent(n) ==
    /\ sorti' = (sorti + n) % Numeros
    /\ UNCHANGED entre
    /\ contenu = Serie(sorti, n) \o contenu'

Next == \E n \in 1..Capacite : Entrent(n) \/ Sortent(n)

Spec == Init /\ [][Next]_vars
=================================================================================
