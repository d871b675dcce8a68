---------------------------------- MODULE Bip ----------------------------------
(***************************************************************************)
(* The registers and latches of gestion_bip.vhd, which sounds one bip for  *)
(* a short press and two, 0.5 s apart, for a long one.  One record per     *)
(* instance:                                                               *)
(*   act    activation_bip, the sound itself (bip_o), a latch              *)
(*   att    attente_bip, the silence between the two bips, a latch         *)
(*   choix  temp_choix_btn, a second bip is due, a latch                   *)
(*   un     ONE_sec, the counter of a bip, and s1, the flip-flop of the    *)
(*          edge detector on its end                                       *)
(*   demi   ZERO_FIVE_sec, the counter of the silence, and s05             *)
(* The answers of the three timers come as a function over the buttons.    *)
(***************************************************************************)
EXTENDS Composants

CONSTANTS
    UneSec,   \* 49999999/100 in the source: the count at which a bip ends
    DemiSec,  \* 24999999/100 in the source: the count at which the silence ends
    MaxUn,    \* 2^26 - 1 in the source: the largest value of ONE_sec
    MaxDemi   \* 2^21 - 1 in the source: the largest value of ZERO_FIVE_sec

ASSUME BipAssumption ==
    /\ UneSec \in Nat /\ DemiSec \in Nat /\ MaxUn \in Nat /\ MaxDemi \in Nat
    /\ 0 < DemiSec /\ DemiSec < UneSec /\ UneSec <= MaxUn /\ DemiSec <= MaxDemi

Boutons == {"auto", "babord", "tribord"}

Bips == [act : BOOLEAN, att : BOOLEAN, choix : BOOLEAN,
         un : 0..MaxUn, demi : 0..MaxDemi, s1 : BOOLEAN, s05 : BOOLEAN]

BipInitial == [act |-> FALSE, att |-> FALSE, choix |-> FALSE,
               un |-> 0, demi |-> 0, s1 |-> FALSE, s05 |-> FALSE]

FinUn(b)   == b.un >= UneSec      \* rst_1_sec
FinDemi(b) == b.demi >= DemiSec   \* rst_05_sec

Simple(appui) ==
    appui["auto"] # Rien \/ appui["babord"] = Court \/ appui["tribord"] = Court
Double(appui) == appui["babord"] = Long \/ appui["tribord"] = Long

\* Slip: the second bip is not cleared when it starts.
VerrouChoixGarde(b, appui, re1, re05) ==
    [act   |-> re05 \/ (~re1 /\ (b.act \/ Simple(appui) \/ Double(appui))),
     att   |-> ~re05 /\ (b.att \/ (re1 /\ b.choix)),
     choix |-> b.choix \/ Double(appui),
     un |-> b.un, demi |-> b.demi, s1 |-> b.s1, s05 |-> b.s05]

\* Slip: the end of the first bip does not start the silence.
VerrouSansAttente(b, appui, re1, re05) ==
    [act   |-> re05 \/ (~re1 /\ (b.act \/ Simple(appui) \/ Double(appui))),
     att   |-> ~re05 /\ b.att,
     choix |-> ~re05 /\ (b.choix \/ Double(appui)),
     un |-> b.un, demi |-> b.demi, s1 |-> b.s1, s05 |-> b.s05]

\* Slip: the end of the silence does not start the second bip.
VerrouSansReprise(b, appui, re1, re05) ==
    [act   |-> ~re1 /\ (b.act \/ Simple(appui) \/ Double(appui)),
     att   |-> ~re05 /\ (b.att \/ (re1 /\ b.choix)),
     choix |-> ~re05 /\ (b.choix \/ Double(appui)),
     un |-> b.un, demi |-> b.demi, s1 |-> b.s1, s05 |-> b.s05]

\* The process of gestion_bip.vhd out of reset and enabled: it has no clock, so a
\* signal it leaves unassigned keeps its value.  re1 and re05 are the rising edges
\* of the ends of the two counters; the last assignment wins.
Verrou(b, appui, re1, re05) ==
    [act   |-> re05 \/ (~re1 /\ (b.act \/ Simple(appui) \/ Double(appui))),
     att   |-> ~re05 /\ (b.att \/ (re1 /\ b.choix)),
     choix |-> ~re05 /\ (b.choix \/ Double(appui)),
     un |-> b.un, demi |-> b.demi, s1 |-> b.s1, s05 |-> b.s05]

\* Slip: the counter of a bip is not reset at its end.
CompteursSansFin(b) ==
    [act |-> b.act, att |-> b.att, choix |-> b.choix,
     un   |-> IF b.act THEN b.un + 1 ELSE b.un,
     demi |-> Compteur(b.demi, MaxDemi, FinDemi(b), b.att),
     s1   |-> FinUn(b),
     s05  |-> FinDemi(b)]

\* Slip: the counter of the silence always runs.
CompteursLibres(b) ==
    [act |-> b.act, att |-> b.att, choix |-> b.choix,
     un   |-> Compteur(b.un, MaxUn, FinUn(b), b.act),
     demi |-> Compteur(b.demi, MaxDemi, FinDemi(b), TRUE),
     s1   |-> FinUn(b),
     s05  |-> FinDemi(b)]

\* A rising edge of the clock, for the counters and the flip-flops.
BipCompteurs(b) ==
    [act |-> b.act, att |-> b.att, choix |-> b.choix,
     un   |-> Compteur(b.un, MaxUn, FinUn(b), b.act),
     demi |-> Compteur(b.demi, MaxDemi, FinDemi(b), b.att),
     s1   |-> FinUn(b),
     s05  |-> FinDemi(b)]

\* The latches follow that edge in two waves: the answers of the timers reach
\* them first (and the state machine sees that intermediate value), the ends of
\* the counters, decoded from their outputs, after.
BipMilieu(b, appui) == Verrou(BipCompteurs(b), appui, FALSE, FALSE)

BipFin(m, appui) == Verrou(m, appui, FrontMontant(FinUn(m), m.s1),
                                     FrontMontant(FinDemi(m), m.s05))

BipHorloge(b, appui) == BipFin(BipMilieu(b, appui), appui)

\* Slip: the reset stops the sound and leaves its counter half-way.
RazSansCompteur(b) == [act |-> FALSE, att |-> b.att, choix |-> b.choix,
                       un |-> b.un, demi |-> 0, s1 |-> FinUn(b), s05 |-> FinDemi(b)]

\* The reset stops the sound and holds both counters at zero: attente_bip and
\* temp_choix_btn keep their values, the edge detectors stay clocked.
BipRaz(b) == [act |-> FALSE, att |-> b.att, choix |-> b.choix,
              un |-> 0, demi |-> 0, s1 |-> b.s1, s05 |-> b.s05]

BipHorlogeRaz(b) == [act |-> FALSE, att |-> b.att, choix |-> b.choix,
                     un |-> 0, demi |-> 0, s1 |-> FinUn(b), s05 |-> FinDemi(b)]

--------------------------------------------------------------------------------
\* Neither latch is ever left with its counter half-way, and the silence never ends
\* together with a bip.
BipPlein(b) ==
    /\ b.act \/ b.un \in {0, UneSec}
    /\ b.att \/ b.demi \in {0, DemiSec}
    /\ b.act => b.un < UneSec
    /\ b.att => b.demi < DemiSec /\ b.choix

\* The relations between the counters that BipPlein rests on: a bip claimed during
\* the silence started after it, hence ends after it.
BipLie(b) ==
    /\ b.un <= UneSec /\ b.demi <= DemiSec
    /\ b.s1 => b.un = 0
    /\ b.s05 => b.demi = 0
    /\ b.att /\ b.un < UneSec => b.un <= b.demi
    /\ b.att /\ b.un = UneSec => b.demi = 0
================================================================================
