------------------------------ MODULE BipAbstrait ------------------------------
(***************************************************************************)
(* What gestion_bip promises, without latch, counter or clock: presses     *)
(* claim one bip or two, every claimed bip is sounded and ends, and the    *)
(* second of two bips is separated from the first by a silence.            *)
(***************************************************************************)
EXTENDS Naturals

VARIABLES
    son,  \* a bip is sounding
    dus   \* the bips still owed, the one that is sounding included

abstrait == <<son, dus>>

InitAbstrait == son = FALSE /\ dus = 0

\* A press: the sound starts, or goes on, and what is owed can only grow.
Annonce == /\ son' = TRUE
           /\ dus' \in {n \in 1..2 : n >= dus}

\* The end of a bip, to which a long press at that very moment adds one.
FinBip == /\ son
          /\ son' = FALSE
          /\ dus' \in {dus - 1, 1}

\* The end of the silence.
Reprise == /\ ~son /\ dus = 1
           /\ son' = TRUE
           /\ UNCHANGED dus

NextAbstrait == Annonce \/ FinBip \/ Reprise

SpecAbstrait == /\ InitAbstrait /\ [][NextAbstrait]_abstrait
                /\ WF_abstrait(FinBip) /\ WF_abstrait(Reprise)
================================================================================
