----------------------------- MODULE Composants -----------------------------
(***************************************************************************)
(* The primitives every block of the project is wired from: counter.vhd    *)
(* and edge_detector.vhd (whose memory is the flip-flop basculeD.vhd).     *)
(* Operators only: the register of a primitive belongs to the block that   *)
(* instantiates it.                                                        *)
(***************************************************************************)
EXTENDS Naturals

\* The two bits by which a timer tells the other blocks of a press.
Rien  == "00"
Court == "01"
Long  == "10"
Reponses == {Rien, Court, Long}

\* Slip: the counter does not wrap.
CompteurSansRetour(q, max, srst, en) == IF srst THEN 0 ELSE IF en THEN q + 1 ELSE q

\* counter.vhd at a rising edge of the clock: the synchronous reset beats the
\* enable, and the N-bit register wraps after max = 2^N - 1.
Compteur(q, max, srst, en) ==
    IF srst \/ (en /\ q = max) THEN 0
    ELSE IF en THEN q + 1 ELSE q

\* Slip: the two edges are swapped.
FrontInverse(e, s) == e /\ ~s

\* edge_detector.vhd between two edges, with s the value of the input e that
\* its flip-flop sampled at the last one.
FrontMontant(e, s)   == e /\ ~s
FrontDescendant(e, s) == s /\ ~e
=============================================================================
