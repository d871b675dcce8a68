-------------------------- MODULE AppuiBouton_proofs --------------------------
(***************************************************************************)
(* The timer of a button, for every threshold and every counter width: the *)
(* invariant InvAppui relates the counter to the number of samples of the  *)
(* press, and every property of AppuiBouton.tla follows from it.           *)
(***************************************************************************)
EXTENDS AppuiBouton, TLAPS

\* The registers of a timer keep their types through an edge of the clock, the counter
\* bounded by Max.
LEMMA ChronoHorlogeType ==
    ASSUME NEW c \in Chronos, NEW b \in BOOLEAN
    PROVE  ChronoHorloge(c, b) \in Chronos
BY SeuilAssumption
   DEF ChronoHorloge, Chronos, Compteur, FrontDescendant, Classe, Reponses, Rien, Court, Long

\* The reset keeps the type of the registers.
LEMMA ChronoRazType ==
    ASSUME NEW c \in Chronos
    PROVE  ChronoRaz(c) \in Chronos
BY SeuilAssumption DEF ChronoRaz, Chronos, Reponses

\* An edge outside reset preserves the relation between count and duration.
LEMMA HorlogeInv ==
    ASSUME InvAppui, Horloge
    PROVE  InvAppui'
<1> USE SeuilAssumption
<1>1. /\ t \in Chronos /\ t' = ChronoHorloge(t, btn) /\ btn \in BOOLEAN /\ duree \in 0..(Max+1)
      /\ btn' = btn /\ raz_n /\ raz_n' = raz_n
      /\ duree' = IF ~btn THEN 0 ELSE IF duree > Max THEN duree ELSE duree + 1
  BY DEF InvAppui, TypeOK, Horloge
<1>2. TypeOK'
  BY <1>1, ChronoHorlogeType DEF TypeOK, InvAppui
<1>3. /\ t'.cpt = IF t.rst \/ (t.valid /\ t.cpt = Max) THEN 0
                  ELSE IF t.valid THEN t.cpt + 1 ELSE t.cpt
      /\ t'.valid <=> (t.cpt # Max /\ btn)
      /\ t'.rst <=> (t.cpt # 0 /\ ((t.s /\ ~btn) \/ t.rst))
      /\ t'.s <=> btn
      /\ t'.tempo = IF (t.s /\ ~btn) /\ t.tempo = Rien THEN Classe(t.cpt) ELSE Rien
  BY <1>1 DEF ChronoHorloge, Compteur, FrontDescendant
<1>4. /\ t.cpt \in 0..Max /\ t.valid \in BOOLEAN /\ t.rst \in BOOLEAN /\ t.s \in BOOLEAN
  BY <1>1 DEF Chronos
<1>5. Compte
  BY DEF InvAppui
<1>6. raz_n' /\ (t'.tempo # Rien => ~t'.s)
  BY <1>1, <1>3
<1>7. CASE btn = TRUE
  <2>1. t'.s /\ t'.tempo = Rien
    BY <1>7, <1>3
  <2>4. duree' > 0
    BY <1>7, <1>1
  <2>2. t'.rst => t'.cpt = 0 /\ duree' <= 1
    BY <1>7, <1>1, <1>3, <1>4, <1>5 DEF Compte
  <2>3. ASSUME ~t'.rst, duree' \in 1..Max
        PROVE  t'.valid /\ t'.cpt <= duree' /\ duree' <= t'.cpt + 2
    <3>1. duree \in 0..(Max - 1) /\ duree' = duree + 1 /\ t.cpt \in 0..Max
      BY <2>3, <1>7, <1>1, <1>4
    <3>2. CASE t.rst
      BY <3>1, <3>2, <2>3, <1>7, <1>3, <1>4, <1>5 DEF Compte
    <3>3. CASE ~t.rst /\ duree = 0
      BY <3>1, <3>3, <2>3, <1>7, <1>3, <1>4, <1>5 DEF Compte
    <3>4. CASE ~t.rst /\ duree # 0
      BY <3>1, <3>4, <2>3, <1>7, <1>3, <1>4, <1>5 DEF Compte
    <3> QED BY <3>2, <3>3, <3>4
  <2>5. Compte'
    BY <2>1, <2>2, <2>3, <2>4, <1>6 DEF Compte
  <2> QED BY <2>5, <1>2 DEF InvAppui
<1>8. CASE btn = FALSE
  <2>1. ~t'.s /\ ~t'.valid /\ duree' = 0
    BY <1>8, <1>1, <1>3
  <2>2. ~t'.rst => t'.cpt = 0 \/ t'.cpt = 1
    BY <1>8, <1>1, <1>3, <1>4, <1>5 DEF Compte
  <2> QED BY <2>1, <2>2, <1>2, <1>6 DEF Compte, InvAppui
<1> QED BY <1>7, <1>8, <1>1

\* The inductive step: no action of the timer or of its surroundings breaks it.
LEMMA EtapeInv == InvAppui /\ [Next]_vars => InvAppui'
<1> SUFFICES ASSUME InvAppui, [Next]_vars PROVE InvAppui'
  OBVIOUS
<1> USE SeuilAssumption
<1>1. CASE Horloge
  BY <1>1, HorlogeInv
<1>2. t \in Chronos /\ btn \in BOOLEAN /\ raz_n \in BOOLEAN
  BY DEF InvAppui, TypeOK
<1>3. CASE HorlogeEnRaz
  <2>1. t' = ChronoHorlogeRaz(t, btn) /\ raz_n' \in BOOLEAN /\ btn' = btn /\ duree' = duree
    BY <1>3 DEF HorlogeEnRaz
  <2>2. t' \in Chronos
    BY <1>2, <2>1 DEF ChronoHorlogeRaz, Chronos, Reponses
  <2>3. t'.cpt = 0 /\ t'.tempo = Rien
    BY <2>1 DEF ChronoHorlogeRaz
  <2>4. duree = 0
    BY <1>3 DEF HorlogeEnRaz, InvAppui, Compte
  <2> QED BY <1>2, <2>1, <2>2, <2>3, <2>4 DEF InvAppui, TypeOK, Compte
<1>4. CASE Bouton
  BY <1>4 DEF Bouton, InvAppui, TypeOK, Compte
<1>5. CASE Raz
  <2>1. raz_n' \in BOOLEAN /\ btn' = btn /\ duree' = 0
    BY <1>5 DEF Raz
  <2>2. PICK c \in {t, ChronoHorloge(t, btn)} : t' = ChronoRaz(c)
    BY <1>5 DEF Raz
  <2>3. t' \in Chronos
    BY <1>2, <2>2, ChronoRazType, ChronoHorlogeType
  <2>4. t'.cpt = 0 /\ t'.tempo = Rien
    BY <2>2 DEF ChronoRaz
  <2>5. TypeOK'
    BY <1>2, <2>1, <2>3 DEF TypeOK
  <2>6. Compte'
    BY <2>1, <2>4 DEF Compte
  <2> QED BY <2>5, <2>6 DEF InvAppui
<1>6. CASE UNCHANGED vars
  BY <1>6 DEF vars, InvAppui, TypeOK, Compte
<1> QED BY <1>1, <1>3, <1>4, <1>5, <1>6 DEF Next

\* The inductive invariant of the timer.
THEOREM Invariant == Spec => []InvAppui
<1>1. Init => InvAppui
  <2>1. ChronoInitial \in Chronos
    BY SeuilAssumption DEF ChronoInitial, Chronos, Reponses
  <2>2. ChronoInitial.cpt = 0 /\ ChronoInitial.tempo = Rien /\ ~ChronoInitial.rst
    BY DEF ChronoInitial
  <2>3. Init => raz_n \in BOOLEAN
    BY DEF Init
  <2>4. Init => TypeOK
    BY <2>1, <2>3, SeuilAssumption DEF Init, TypeOK
  <2>5. Init => Compte
    BY <2>2, SeuilAssumption DEF Init, Compte
  <2> QED BY <2>4, <2>5 DEF InvAppui
<1> QED BY <1>1, EtapeInv, PTL DEF Spec

\* The registers keep their types: the counter stays within its width.
THEOREM TypeCorrect == Spec => []TypeOK
<1>1. InvAppui => TypeOK
  BY DEF InvAppui
<1> QED BY <1>1, Invariant, PTL

\* Whatever glitches, presses and resets came before, at most one period is left
\* in the counter when no press is under way (gestion_temps_appui_bouton.vhd:53-73).
THEOREM PasDeReste == Spec => []SansReste
<1>1. InvAppui => SansReste
  BY SeuilAssumption DEF InvAppui, TypeOK, Compte, SansReste, Chronos
<1> QED BY <1>1, Invariant, PTL

\* What an edge that sees the release answers, from the invariant.
LEMMA Reponse ==
    ASSUME InvAppui, Relachement
    PROVE  /\ t'.tempo = Classe(t.cpt)
           /\ t.cpt \in 0..Max /\ duree \in 0..(Max + 1)
           /\ duree = 0 => t.cpt = 0
           /\ duree \in 2..Max => t.cpt <= duree /\ duree <= t.cpt + 2
           /\ duree = 1 => t.cpt <= 1
<1> USE SeuilAssumption
<1>1. /\ t \in Chronos /\ duree \in 0..(Max+1) /\ t.s /\ ~btn /\ btn \in BOOLEAN
      /\ t' = ChronoHorloge(t, btn)
  BY DEF InvAppui, TypeOK, Relachement, Horloge
<1>2. /\ t.cpt \in 0..Max /\ t.rst \in BOOLEAN /\ t.s \in BOOLEAN
  BY <1>1 DEF Chronos
<1>3. Compte
  BY DEF InvAppui
<1>4. t.tempo = Rien
  BY <1>1, <1>3 DEF Compte
<1>5. t'.tempo = Classe(t.cpt)
  BY <1>1, <1>4 DEF ChronoHorloge, FrontDescendant
<1> QED BY <1>1, <1>2, <1>3, <1>5 DEF Compte

\* Every press of three samples or more that the counter can hold is answered at
\* the edge that sees its release (gestion_temps_appui_bouton.vhd:58-67).
THEOREM ToutePressionEntendue == Spec => PressionEntendue
<1>1. InvAppui /\ [Next]_vars =>
        [Relachement /\ duree \in 3..Max => t'.tempo # Rien]_vars
  <2> SUFFICES ASSUME InvAppui, Relachement, duree \in 3..Max PROVE t'.tempo # Rien
    OBVIOUS
  <2>1. t.cpt \in 0..Max /\ t.cpt > 0 /\ t'.tempo = Classe(t.cpt)
    BY Reponse, SeuilAssumption
  <2> QED BY <2>1 DEF Classe, Rien, Court, Long
<1> QED BY <1>1, Invariant, PTL DEF Spec, PressionEntendue

\* Only the edge that sees a release changes the answer from none to some, and the
\* other steps can only keep or erase it.
LEMMA ReponseParHorloge ==
    ASSUME InvAppui, Next, t'.tempo # Rien, t'.tempo # t.tempo
    PROVE  Relachement
<1> USE SeuilAssumption
<1>1. t \in Chronos /\ btn \in BOOLEAN
  BY DEF InvAppui, TypeOK
<1>2. CASE Horloge
  BY <1>1, <1>2 DEF Horloge, ChronoHorloge, FrontDescendant, Relachement
<1>3. CASE HorlogeEnRaz
  BY <1>1, <1>3 DEF HorlogeEnRaz, ChronoHorlogeRaz
<1>4. CASE Bouton
  BY <1>4 DEF Bouton
<1>5. CASE Raz
  BY <1>1, <1>5 DEF Raz, ChronoRaz
<1> QED BY <1>2, <1>3, <1>4, <1>5 DEF Next

\* Long and short are told apart within two periods of the threshold, as long as
\* the counter does not overflow (gestion_temps_appui_bouton.vhd:59-65).
THEOREM ClassementFidele == Spec => ClasseFidele
<1> DEFINE A == /\ Relachement /\ duree \in (Seuil + 2)..Max => t'.tempo = Long
                /\ t'.tempo = Long /\ duree <= Max => t.tempo = Long \/ duree >= Seuil
<1>1. InvAppui /\ [Next]_vars => [A]_vars
  <2> SUFFICES ASSUME InvAppui, Next PROVE A
    OBVIOUS
  <2> USE SeuilAssumption
  <2>1. ASSUME Relachement, duree \in (Seuil + 2)..Max PROVE t'.tempo = Long
    BY <2>1, Reponse DEF Classe
  <2>2. ASSUME t'.tempo = Long, duree <= Max, t.tempo # Long PROVE duree >= Seuil
    <3>1. Relachement
      BY <2>2, ReponseParHorloge DEF Long, Rien
    <3>2. t.cpt >= Seuil
      BY <2>2, <3>1, Reponse DEF Classe, Long, Court, Rien
    <3> QED BY <2>2, <3>1, <3>2, Reponse
  <2> QED BY <2>1, <2>2
<1> QED BY <1>1, Invariant, PTL DEF Spec, ClasseFidele

\* An answer always comes from a press sampled since the last reset.
THEOREM ReponsesJustifiees == Spec => ReponseJustifiee
<1>1. InvAppui /\ [Next]_vars =>
        [t'.tempo # Rien /\ t.tempo = Rien => Relachement /\ duree > 0]_vars
  <2> SUFFICES ASSUME InvAppui, Next, t'.tempo # Rien, t.tempo = Rien
               PROVE  Relachement /\ duree > 0
    OBVIOUS
  <2>1. Relachement
    BY ReponseParHorloge
  <2> QED BY <2>1, Reponse, SeuilAssumption DEF Classe
<1> QED BY <1>1, Invariant, PTL DEF Spec, ReponseJustifiee
================================================================================
