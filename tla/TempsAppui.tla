------------------------------ MODULE TempsAppui ------------------------------
(***************************************************************************)
(* The registers of gestion_temps_appui_bouton.vhd, which measures how     *)
(* long a button is held and answers, for one clock period, "01" (short    *)
(* press) or "10" (long press).  One record per instance:                  *)
(*   cpt    tps_appuis_bt_m, the number of periods counted                 *)
(*   valid  valid_cpt, the enable of that counter                          *)
(*   rst    rst_comp, its synchronous reset                                *)
(*   s      the flip-flop of the edge detector on the button               *)
(*   tempo  tempo_appui_btn, the answer                                    *)
(***************************************************************************)
EXTENDS Composants

CONSTANTS
    Seuil,   \* 99999999/100 in the source: from this count on a press is long
    Max      \* 2^27 - 1 in the source: the largest value of the counter

ASSUME SeuilAssumption ==
    Seuil \in Nat /\ Max \in Nat /\ 0 < Seuil /\ Seuil <= Max /\ 1 < Max

Chronos == [cpt : 0..Max, valid : BOOLEAN, rst : BOOLEAN, s : BOOLEAN,
            tempo : Reponses]

ChronoInitial == [cpt |-> 0, valid |-> FALSE, rst |-> FALSE, s |-> FALSE,
                  tempo |-> Rien]

\* Slips: one period too strict for a short press, too lax for a long one.
ClasseTardive(cpt) == IF cpt >= Seuil THEN Long ELSE IF cpt > 1 THEN Court ELSE Rien
ClasseHative(cpt) == IF cpt + 1 >= Seuil THEN Long ELSE IF cpt > 0 THEN Court ELSE Rien

\* What the falling edge of the button makes of the count.
Classe(cpt) == IF cpt >= Seuil THEN Long ELSE IF cpt > 0 THEN Court ELSE Rien

\* Slip: the release does not reset the counter.
ChronoSansRaz(t, btn) ==
    [cpt   |-> Compteur(t.cpt, Max, FALSE, t.valid),
     valid |-> t.cpt # Max /\ btn,
     rst   |-> FALSE,
     s     |-> btn,
     tempo |-> IF FrontDescendant(btn, t.s) /\ t.tempo = Rien THEN Classe(t.cpt) ELSE Rien]

\* Slip: the reset of the counter is not held until the counter is seen at zero.
ChronoRazBreve(t, btn) ==
    LET fe == FrontDescendant(btn, t.s)
    IN  [cpt   |-> Compteur(t.cpt, Max, t.rst, t.valid),
         valid |-> t.cpt # Max /\ btn,
         rst   |-> t.cpt # 0 /\ fe,
         s     |-> btn,
         tempo |-> IF fe /\ t.tempo = Rien THEN Classe(t.cpt) ELSE Rien]

\* Slip: the answer is not withdrawn after one period.
ChronoReponseTenue(t, btn) ==
    LET fe == FrontDescendant(btn, t.s)
    IN  [cpt   |-> Compteur(t.cpt, Max, t.rst, t.valid),
         valid |-> t.cpt # Max /\ btn,
         rst   |-> t.cpt # 0 /\ (fe \/ t.rst),
         s     |-> btn,
         tempo |-> IF fe THEN Classe(t.cpt) ELSE t.tempo]

\* A rising edge of the clock outside reset: every register is computed from the
\* values before the edge, and of two assignments the last one wins.
ChronoHorloge(t, btn) ==
    LET fe == FrontDescendant(btn, t.s)
    IN  [cpt   |-> Compteur(t.cpt, Max, t.rst, t.valid),
         valid |-> t.cpt # Max /\ btn,
         rst   |-> t.cpt # 0 /\ (fe \/ t.rst),
         s     |-> btn,
         tempo |-> IF fe /\ t.tempo = Rien THEN Classe(t.cpt)
                   ELSE Rien]

\* Slip: the asynchronous reset forgets the answer.
ChronoRazPartielle(t) ==
    [cpt |-> 0, valid |-> t.valid, rst |-> t.rst, s |-> t.s, tempo |-> t.tempo]

\* The asynchronous reset clears the answer and the counter, nothing else.
ChronoRaz(t) == [cpt |-> 0, valid |-> t.valid, rst |-> t.rst, s |-> t.s, tempo |-> Rien]

\* A rising edge of the clock during reset: only the edge detector, which has no
\* reset, is clocked.
ChronoHorlogeRaz(t, btn) ==
    [cpt |-> 0, valid |-> t.valid, rst |-> t.rst, s |-> btn, tempo |-> Rien]
=============================================================================
