---------------------------------- MODULE Capteur ----------------------------------
(***************************************************************************)
(* A sensor behind its registers on the Avalon bus: the compass            *)
(* (bus_avalon.vhd, Conversion_Adaptation.vhd), which measures a pulse, or *)
(* the anemometer (bus_avalon_f2.vhd, ConversionVitesseVent.vhd), which    *)
(* counts edges.  A step is an edge of the clock.  vrai is not in the      *)
(* circuit: it is what the measure under way should be.                    *)
(***************************************************************************)
EXTENDS Integers, Composants, DefEtats

CONSTANTS
    Usec,       \* the edges of the clock in a microsecond, 50
    Sec,        \* the period of the refresh in edges: 5000000 / 500000
    MaxTemps,   \* the last value of the counters of the measure, 2^16 - 1 or 2^8 - 1
    MaxSec,     \* the last value of the counter of the refresh, 2^26 - 1
    Base, Pas,  \* the pulse of the heading 0, 1000, and of one degree, 100
    Cap,        \* the headings of the last registers are modulo 2^9
    Ecart,      \* the processor, six edges an instruction, writes once in Ecart at most
    Delai       \* the edges that the acquisition machine may take

ASSUME CapteurAssumption ==
    /\ {Usec, Sec, MaxTemps, MaxSec, Base, Pas, Cap, Ecart, Delai} \subseteq Nat
    /\ 0 < Usec /\ Usec <= 64 /\ 0 < Sec /\ Sec <= MaxSec
    /\ 0 < MaxTemps /\ Base <= MaxTemps /\ 0 < Pas /\ 0 < Cap
    /\ 4 <= Ecart /\ Ecart <= Delai

VARIABLES
    capteur,                \* which one it is
    raz_n, continu, start_stop,   \* the register of the bus
    sync, s,                \* pwm_sync and the flip-flop of the edge detector
    usec, temps,            \* cascadeCompteurs, or nbr_re_by_sec in temps
    sec, periode, seconde, data,  \* the counter of the refresh and the three registers
    current_st, next_st,
    vrai,                   \* edges of the clock of the pulse, or rising edges of the input
    depuis, faites          \* since the last write, since the commands changed: bounded
                            \* numbers of edges and of acquisitions

mesure  == <<sync, s, usec, temps, vrai>>
sorties == <<sec, periode, seconde, data>>
vars == <<capteur, raz_n, continu, start_stop, mesure, sorties, current_st, next_st, depuis, faites>>

\* Slip: the pulse of the heading 0 is taken off after the division.
DegresDivise(t) == (((t \div Pas) - Base) % (MaxTemps + 1)) % Cap

\* conversion_degres.vhd, on the width of a counter.
Degres(t) == (((t - Base) % (MaxTemps + 1)) \div Pas) % Cap

\* Slip: the refresh waits for the wrap of its counter.
RafraichitTard == sec >= MaxSec

\* fin_mesure: the period of the refresh ends at this edge.
Rafraichit == sec >= Sec - 1

Init ==
    /\ capteur \in {"compas", "anemometre"}
    /\ raz_n = FALSE /\ continu = FALSE /\ start_stop = FALSE
    /\ sync = FALSE /\ s \in BOOLEAN
    /\ usec = 0 /\ temps = 0 /\ sec = 0 /\ periode = 0 /\ seconde = 0 /\ data = 0
    /\ current_st = "st_continu" /\ next_st = "st_stop_aq"
    /\ vrai = 0 /\ depuis = Delai /\ faites = 0

---------------------------------------------------------------------------------
\* Slip: the counter starts again at the end of a pulse, not as long as there is none.
CompasFin(e) ==
    /\ sync' = e /\ s' = sync
    /\ usec' = Compteur(usec, 63, usec = Usec - 1, TRUE)
    /\ temps' = Compteur(temps, MaxTemps, s /\ ~sync, usec = Usec - 1)
    /\ vrai' = IF sync THEN vrai + 1 ELSE 0
    /\ periode' = IF FrontDescendant(sync, s) THEN Degres(temps) ELSE periode

\* The compass: the input is sampled, microseconds are counted while the sample is 1,
\* and the heading is taken at its falling edge.
Compas(e) ==
    /\ sync' = e /\ s' = sync
    /\ usec' = Compteur(usec, 63, usec = Usec - 1, TRUE)
    /\ temps' = Compteur(temps, MaxTemps, ~sync, usec = Usec - 1)
    /\ vrai' = IF sync THEN vrai + 1 ELSE 0
    /\ periode' = IF FrontDescendant(sync, s) THEN Degres(temps) ELSE periode

\* The anemometer: the rising edges are counted, but for one at the end of a period.
Anemometre(e) ==
    /\ sync' = sync /\ s' = e /\ usec' = usec
    /\ temps' = Compteur(temps, MaxTemps, Rafraichit, FrontMontant(e, s))
    /\ vrai' = (IF Rafraichit THEN 0 ELSE vrai) + (IF FrontMontant(e, s) THEN 1 ELSE 0)
    /\ periode' = periode

\* An edge of the clock out of reset: the measure of a period goes to the register of
\* the second, and this one to the output when an acquisition is under way.
Avance(e) ==
    /\ IF capteur = "compas" THEN Compas(e) ELSE Anemometre(e)
    /\ sec' = Compteur(sec, MaxSec, Rafraichit, TRUE)
    /\ seconde' = IF ~Rafraichit THEN seconde ELSE IF capteur = "compas" THEN periode ELSE temps
    /\ data' = IF Acquisition(current_st) THEN seconde ELSE data
    /\ current_st' = next_st
    /\ next_st' = Suivant(next_st, continu', start_stop', next_st)

\* The reset clears everything but the flip-flops of the input and the latch, which
\* sees the state that the edge loaded before the reset put it back.
EnRaz(e) ==
    /\ IF capteur = "compas" THEN sync' = e /\ s' = sync ELSE sync' = sync /\ s' = e
    /\ usec' = 0 /\ temps' = 0 /\ vrai' = 0
    /\ sec' = 0 /\ periode' = 0 /\ seconde' = 0 /\ data' = 0
    /\ current_st' = "st_continu"
    /\ next_st' = LET charge == IF raz_n THEN next_st ELSE "st_continu"
                  IN  Suivant("st_continu", continu', start_stop',
                              Suivant(charge, continu', start_stop', next_st))

\* What the processor writes, or what was there: the three bits are written together.
\* The reset of the system, which may come at any time, clears them, and the processor
\* starts again with it.
Ecrit ==
    \/ /\ depuis >= Ecart - 1
       /\ raz_n' \in BOOLEAN /\ continu' \in BOOLEAN /\ start_stop' \in BOOLEAN
       /\ depuis' = 0
    \/ raz_n' = FALSE /\ continu' = FALSE /\ start_stop' = FALSE /\ depuis' = 0
    \/ /\ UNCHANGED <<raz_n, continu, start_stop>>
       /\ depuis' = IF depuis < Delai THEN depuis + 1 ELSE depuis

\* Inputs that the counters can tell: a pulse of the compass lasts 37 ms at most, the
\* anemometer turns no faster than 250 times a second.
Mesurable(e) ==
    IF capteur = "compas" THEN e => vrai < Usec * MaxTemps - 1
    ELSE FrontMontant(e, s) => vrai < MaxTemps

Horloge ==
    \E e \in BOOLEAN :
        /\ Mesurable(e)
        /\ Ecrit
        /\ IF raz_n /\ raz_n' THEN Avance(e) ELSE EnRaz(e)
        /\ faites' = IF <<raz_n, continu, start_stop>>' # <<raz_n, continu, start_stop>>
                     THEN IF current_st' = "st_acquisition" THEN 1 ELSE 0
                     ELSE IF current_st' = "st_acquisition" /\ faites < 2 THEN faites + 1
                     ELSE faites
        /\ UNCHANGED capteur

Next == Horloge

Spec == Init /\ [][Next]_vars /\ WF_vars(Next)

---------------------------------------------------------------------------------
TypeOK ==
    /\ capteur \in {"compas", "anemometre"}
    /\ {raz_n, continu, start_stop, sync, s} \subseteq BOOLEAN
    /\ usec \in 0..(Usec - 1) /\ temps \in 0..MaxTemps /\ sec \in 0..(Sec - 1)
    /\ {periode, seconde, data} \subseteq 0..MaxTemps \cup 0..(Cap - 1)
    /\ current_st \in Etats /\ next_st \in Etats
    /\ depuis \in 0..Delai /\ faites \in 0..2

\* The time counted of a pulse is within one microsecond of its length, whatever the
\* phase of the clock of microseconds (cascadeCompteurs.vhd:28); of the edges of the
\* anemometer one at most is missing in a period (ConversionVitesseVent.vhd:38).
MesureJuste ==
    IF capteur = "compas" THEN temps * Usec + usec - vrai \in 0..(Usec - 1)
    ELSE vrai - temps \in {0, 1}

\* The heading of a pulse that lasts t microseconds.
CapDe(t) == ((t - Base) \div Pas) % Cap

\* From the pulse to the register: the heading taken at the end of a pulse that was seen
\* out of reset, and is not shorter than that of the heading 0, is the one of its length
\* rounded down or up to a microsecond (conversion_degres.vhd:19, cascadeCompteurs.vhd:28).
CapJuste ==
    [][ capteur = "compas" /\ raz_n /\ raz_n' /\ FrontDescendant(sync, s) /\ vrai >= Base * Usec
        => periode' \in {CapDe(vrai \div Usec), CapDe((vrai + Usec - 1) \div Usec)} ]_vars

\* Once the processor has left the commands alone for a while, the machine is in the
\* state that they ask for, and a start has made one acquisition, not more, in spite of
\* the latch that a reset leaves as it was (def_etats.vhd:24).
CommandeSuivie ==
    raz_n /\ depuis = Delai =>
        \/ continu /\ current_st = "st_continu"
        \/ ~continu /\ ~start_stop /\ current_st = "st_stop_aq"
        \/ ~continu /\ start_stop /\ current_st = "st_start_aq" /\ faites = 1

\* A processor that leaves the anemometer in continuous mode reads zero in the end, once
\* the wind has fallen (ConversionVitesseVent.vhd:89).
VentNul ==
    <>[](capteur = "anemometre" /\ raz_n /\ continu /\ ~s) => <>[](data = 0)
=================================================================================
