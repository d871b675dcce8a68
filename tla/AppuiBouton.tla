------------------------------ MODULE AppuiBouton ------------------------------
(***************************************************************************)
(* One gestion_temps_appui_bouton.vhd with its surroundings: a button that *)
(* moves whenever it likes, and the reset of bus_avalon_f7.vhd.            *)
(***************************************************************************)
EXTENDS TempsAppui

VARIABLES
    raz_n,   \* the reset, active low
    btn,     \* the level of the button
    t,       \* the registers of the timer
    duree    \* history: for how many edges in a row the timer, out of reset, has
             \* sampled the button pressed; Max + 1 stands for more than Max

vars == <<raz_n, btn, t, duree>>

Init == /\ raz_n = FALSE
        /\ btn \in BOOLEAN
        /\ t = ChronoInitial
        /\ duree = 0

Horloge ==
    /\ raz_n
    /\ t' = ChronoHorloge(t, btn)
    /\ duree' = IF ~btn THEN 0 ELSE IF duree > Max THEN duree ELSE duree + 1
    /\ UNCHANGED <<raz_n, btn>>

\* The software writes to the reset register, or not, at an edge of the clock.
HorlogeEnRaz ==
    /\ ~raz_n
    /\ raz_n' \in BOOLEAN
    /\ t' = ChronoHorlogeRaz(t, btn)
    /\ UNCHANGED <<btn, duree>>

\* The button is not synchronised with the clock.
Bouton == btn' = ~btn /\ UNCHANGED <<raz_n, t, duree>>

\* A reset by the software comes with an edge, the reset of the system between two.
Raz ==
    /\ raz_n
    /\ raz_n' = FALSE
    /\ t' \in {ChronoRaz(t), ChronoRaz(ChronoHorloge(t, btn))}
    /\ duree' = 0
    /\ UNCHANGED btn

Next == Horloge \/ HorlogeEnRaz \/ Bouton \/ Raz

Spec == Init /\ [][Next]_vars

-------------------------------------------------------------------------------
TypeOK == /\ raz_n \in BOOLEAN
          /\ btn \in BOOLEAN
          /\ t \in Chronos
          /\ duree \in 0..(Max + 1)

\* The edge at which the timer sees the button released.
Relachement == Horloge /\ t.s /\ ~btn

\* No press is lost: after at least three samples (one is a glitch to ignore, and
\* the reset of the counter that follows a press hides two more), and unless the
\* counter could overflow, the release is answered at that very edge.
PressionEntendue == [][Relachement /\ duree \in 3..Max => t'.tempo # Rien]_vars

\* The answer tells long from short within two periods of the threshold.
ClasseFidele ==
    [][ /\ Relachement /\ duree \in (Seuil + 2)..Max => t'.tempo = Long
        /\ t'.tempo = Long /\ duree <= Max => t.tempo = Long \/ duree >= Seuil ]_vars

\* An answer needs a release: it comes from a press that was sampled, never
\* from the remains of an earlier one or from a reset.
ReponseJustifiee ==
    [][t'.tempo # Rien /\ t.tempo = Rien => Relachement /\ duree > 0]_vars

\* An ignored glitch or a press cut short by a reset leaves at most one period in
\* the counter: it cannot turn later short presses into a long one.
SansReste == duree = 0 /\ ~t.rst => t.cpt <= 1

\* What the comments at gestion_temps_appui_bouton.vhd:19 and :53 expect of the
\* enable of the counter: a press held beyond its capacity is still long.
LongMemeAuDela == [][Relachement /\ duree >= Seuil + 2 => t'.tempo = Long]_vars

-------------------------------------------------------------------------------
\* The strengthening of SansReste: what the counter holds at each moment of a
\* press.  A press of duree samples, not longer than the counter, is counted with
\* at most one period too many (left by a glitch) or two too few (still clearing).
Compte ==
    /\ ~raz_n => t.cpt = 0 /\ t.tempo = Rien /\ duree = 0
    /\ t.tempo # Rien => ~t.s
    /\ duree > 0 => t.s
    /\ t.s /\ duree = 0 => t.cpt = 0
    /\ t.rst /\ t.cpt # 0 => ~t.s
    /\ t.rst => duree <= 1
    /\ ~t.rst /\ duree = 0 => t.cpt = 0 \/ (t.cpt = 1 /\ ~t.valid)
    /\ ~t.rst /\ duree \in 1..Max =>
           t.valid /\ t.cpt <= duree /\ duree <= t.cpt + 2

InvAppui == TypeOK /\ Compte
===============================================================================
