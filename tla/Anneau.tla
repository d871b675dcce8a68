--------------------------------- MODULE Anneau ---------------------------------
(***************************************************************************)
(* A circular buffer of the JTAG UART driver: an index where one side puts *)
(* and one where the other takes, equal when the buffer is empty, so that  *)
(* a buffer of Taille places holds Taille - 1 characters at most.          *)
(***************************************************************************)
EXTENDS Integers, Sequences

CONSTANT Taille   \* ALTERA_AVALON_JTAG_UART_BUF_LEN, 2048 in the source

ASSUME TailleAssumption == Taille \in Nat /\ 1 < Taille

Places == 0..(Taille - 1)

Apres(i, n) == (i + n) % Taille

\* The number of characters of the buffer, and these in the order they came.
Occupe(entree, sortie) == (entree - sortie) % Taille
Contenu(buf, entree, sortie) ==
    [k \in 1..Occupe(entree, sortie) |-> buf[Apres(sortie, k - 1)]]

Moindre(m, n) == IF m < n THEN m ELSE n

\* Slip: the place that tells a full buffer from an empty one is filled too.
ALogerTout(entree, sortie) ==
    IF entree < sortie THEN sortie - 1 - entree ELSE Taille - entree

\* How many characters write() may put at once, without wrapping.
ALoger(entree, sortie) ==
    IF entree < sortie THEN sortie - 1 - entree
    ELSE IF sortie > 0 THEN Taille - entree
    ELSE Taille - 1 - entree

\* How many characters read() may take at once, without wrapping.
APrendre(entree, sortie) ==
    IF entree >= sortie THEN entree - sortie ELSE Taille - sortie

\* The buffer after the n characters s were put at entree.
Loge(buf, entree, s) ==
    [i \in Places |-> IF i \in entree..(entree + Len(s) - 1) THEN s[i - entree + 1] ELSE buf[i]]
=================================================================================
