------------------------------ MODULE Capteur_proofs ------------------------------
(***************************************************************************)
(* Proofs about the sensors: their types, the exactness of the measure and *)
(* of the heading, the obedience to the commands and the way back to zero  *)
(* without wind, for every period, width and rate of the processor's       *)
(* writes that CapteurAssumption allows.                                   *)
(***************************************************************************)
EXTENDS Capteur, TLAPS

\* The measure does not overflow: the time counted so far is no more than the pulse, and
\* the edges counted in a period are no more than there were.
Mesure ==
    /\ vrai \in Nat
    /\ MesureJuste
    /\ capteur = "compas" => vrai <= Usec * MaxTemps /\ (sync => vrai < Usec * MaxTemps)
    /\ capteur = "anemometre" => vrai <= MaxTemps

\* How far the acquisition machine has come since the last write.  Its latch is decoded
\* from its state, but for the period in which the reset is left in continuous mode.
Decode == next_st = Suivant(current_st, continu, start_stop, current_st)

Continu ==
    IF start_stop
    THEN /\ depuis >= 2 => current_st # "st_stop_aq"
         /\ depuis >= 3 => current_st # "st_acquisition"
         /\ depuis >= 4 => current_st # "st_start_aq"
    ELSE /\ depuis >= 2 => current_st # "st_acquisition"
         /\ depuis >= 3 => current_st # "st_start_aq"
         /\ depuis >= 4 => current_st # "st_stop_aq"

Arret ==
    /\ depuis >= 1 => current_st \notin {"st_continu", "st_acquisition"}
    /\ depuis >= 2 => current_st # "st_start_aq"

Depart ==
    /\ current_st \in {"st_continu", "st_stop_aq"} => depuis = 0 /\ faites = 0
    /\ current_st = "st_acquisition" => depuis = 1 /\ faites = 1
    /\ current_st = "st_start_aq" => faites = 1

Machine ==
    raz_n =>
        /\ Decode \/ (continu /\ depuis = 0 /\ current_st = "st_continu")
        /\ continu => Continu
        /\ ~continu /\ ~start_stop => Arret
        /\ ~continu /\ start_stop => Depart

\* The inductive invariant.
IInv == TypeOK /\ Mesure /\ Machine

-----------------------------------------------------------------------------------
\* counter.vhd: the register stays within its width and obeys its reset (counter.vhd:21).
LEMMA CompteurType ==
    ASSUME NEW max \in Nat, NEW q \in 0..max, NEW r \in BOOLEAN, NEW en \in BOOLEAN
    PROVE  Compteur(q, max, r, en) \in 0..max
BY DEF Compteur

\* def_etats.vhd: the decoding gives a state.
LEMMA SuivantType ==
    ASSUME NEW st \in Etats, NEW c \in BOOLEAN, NEW ss \in BOOLEAN, NEW tenu \in Etats
    PROVE  Suivant(st, c, ss, tenu) \in Etats
BY DEF Suivant, Etats

\* conversion_degres.vhd: a heading is within the width of the registers.
LEMMA DegresType ==
    ASSUME NEW t \in 0..MaxTemps PROVE Degres(t) \in 0..(Cap - 1)
<1> DEFINE a == (t - Base) % (MaxTemps + 1)
           b == a \div Pas
<1>1. t - Base \in Int /\ MaxTemps + 1 \in Nat /\ MaxTemps + 1 > 0 /\ Pas \in Nat /\ Pas > 0
      /\ Cap \in Nat /\ Cap > 0
  BY CapteurAssumption
<1>2. a \in Nat
  BY <1>1
<1> HIDE DEF a
<1>3. b \in Int
  BY <1>1, <1>2
<1> HIDE DEF b
<1>4. b % Cap \in 0..(Cap - 1)
  BY <1>1, <1>3
<1> QED BY <1>4 DEF Degres, a, b

\* The first state.
LEMMA InitIInv == Init => IInv
<1> SUFFICES ASSUME Init PROVE IInv
  OBVIOUS
<1>a. /\ 0 \in 0..(Usec - 1) /\ 0 \in 0..MaxTemps /\ 0 \in 0..(Sec - 1)
      /\ Delai \in 0..Delai /\ 0 \in 0..2
  BY CapteurAssumption
<1>b. {raz_n, continu, start_stop, sync, s} \subseteq BOOLEAN
  BY DEF Init
<1>c. {periode, seconde, data} \subseteq 0..MaxTemps \cup 0..(Cap - 1)
  BY <1>a DEF Init
<1>1. TypeOK
  BY <1>a, <1>b, <1>c DEF Init, TypeOK, Etats
<1>2. Mesure
  BY CapteurAssumption DEF Init, Mesure, MesureJuste
<1>3. Machine
  BY DEF Init, Machine
<1> QED BY <1>1, <1>2, <1>3 DEF IInv

-----------------------------------------------------------------------------------
\* A step leads to a state of the right types, but for those of the counters of the
\* measure, proved apart.
LEMMA EcritType ==
    ASSUME TypeOK, Ecrit
    PROVE  /\ {raz_n', continu', start_stop'} \subseteq BOOLEAN
           /\ depuis' \in 0..Delai
<1>1. CASE depuis >= Ecart - 1 /\ raz_n' \in BOOLEAN /\ continu' \in BOOLEAN
           /\ start_stop' \in BOOLEAN /\ depuis' = 0
  <2>1. 0 \in 0..Delai
    BY CapteurAssumption
  <2> QED BY <1>1, <2>1
<1>2. CASE UNCHANGED <<raz_n, continu, start_stop>>
           /\ depuis' = IF depuis < Delai THEN depuis + 1 ELSE depuis
  <2>1. depuis' \in 0..Delai
    BY <1>2, CapteurAssumption DEF TypeOK
  <2> QED BY <1>2, <2>1 DEF TypeOK
<1>3. CASE raz_n' = FALSE /\ continu' = FALSE /\ start_stop' = FALSE /\ depuis' = 0
  <2>1. 0 \in 0..Delai
    BY CapteurAssumption
  <2>2. {raz_n', continu', start_stop'} \subseteq BOOLEAN
    BY <1>3
  <2> QED BY <1>3, <2>1, <2>2
<1> QED BY <1>1, <1>2, <1>3 DEF Ecrit

\* The refresh is a Boolean, whichever sensor this is.
LEMMA RafraichitType == TypeOK => Rafraichit \in BOOLEAN
BY DEF Rafraichit

\* A clock edge of the compass keeps its counters and its flip-flops in their types.
LEMMA CompasType ==
    ASSUME TypeOK, Mesure, NEW e \in BOOLEAN, Compas(e), capteur = "compas"
    PROVE  /\ sync' \in BOOLEAN /\ s' \in BOOLEAN
           /\ usec' \in 0..(Usec - 1) /\ temps' \in 0..MaxTemps
           /\ periode' \in 0..MaxTemps \cup 0..(Cap - 1)
<1>1. usec' \in 0..(Usec - 1)
  BY CapteurAssumption DEF TypeOK, Compas, Compteur
<1>2. temps' \in 0..MaxTemps
  <2>1. (~sync) \in BOOLEAN /\ (usec = Usec - 1) \in BOOLEAN /\ temps \in 0..MaxTemps
        /\ MaxTemps \in Nat
    BY CapteurAssumption DEF TypeOK
  <2> QED BY <2>1, CompteurType DEF Compas
<1>3. Degres(temps) \in 0..(Cap - 1)
  BY DegresType DEF TypeOK
<1>4. periode' \in 0..MaxTemps \cup 0..(Cap - 1)
  BY <1>3 DEF Compas, TypeOK
<1>5. sync' \in BOOLEAN /\ s' \in BOOLEAN
  BY DEF Compas, TypeOK
<1> QED BY <1>1, <1>2, <1>4, <1>5

\* So does a clock edge of the anemometer.
LEMMA AnemometreType ==
    ASSUME TypeOK, NEW e \in BOOLEAN, Anemometre(e)
    PROVE  /\ sync' \in BOOLEAN /\ s' \in BOOLEAN
           /\ usec' \in 0..(Usec - 1) /\ temps' \in 0..MaxTemps
           /\ periode' \in 0..MaxTemps \cup 0..(Cap - 1)
<1>1. FrontMontant(e, s) \in BOOLEAN
  BY DEF FrontMontant, TypeOK
<1>2. temps \in 0..MaxTemps /\ MaxTemps \in Nat /\ Rafraichit \in BOOLEAN
  BY CapteurAssumption, RafraichitType DEF TypeOK
<1>3. temps' \in 0..MaxTemps
  BY <1>1, <1>2, CompteurType DEF Anemometre
<1>4. sync' \in BOOLEAN /\ s' \in BOOLEAN /\ usec' = usec /\ periode' = periode
  BY DEF Anemometre, TypeOK
<1> QED BY <1>3, <1>4 DEF TypeOK

\* A clock edge out of reset keeps every variable in its type.
LEMMA AvanceType ==
    ASSUME TypeOK, Mesure, NEW e \in BOOLEAN, Avance(e),
           {raz_n', continu', start_stop'} \subseteq BOOLEAN, depuis' \in 0..Delai,
           faites' \in 0..2, capteur' = capteur
    PROVE  TypeOK'
<1>1. /\ sync' \in BOOLEAN /\ s' \in BOOLEAN
      /\ usec' \in 0..(Usec - 1) /\ temps' \in 0..MaxTemps
      /\ periode' \in 0..MaxTemps \cup 0..(Cap - 1)
  <2>1. CASE capteur = "compas"
    BY <2>1, CompasType DEF Avance
  <2>2. CASE capteur # "compas"
    BY <2>2, AnemometreType DEF Avance
  <2> QED BY <2>1, <2>2
<1>2. sec' \in 0..(Sec - 1)
  BY CapteurAssumption DEF TypeOK, Avance, Compteur, Rafraichit
<1>3. seconde' \in 0..MaxTemps \cup 0..(Cap - 1)
  BY DEF TypeOK, Avance
<1>4. data' \in 0..MaxTemps \cup 0..(Cap - 1)
  BY DEF TypeOK, Avance
<1>5. current_st' \in Etats /\ next_st' \in Etats
  <2>1. next_st \in Etats /\ continu' \in BOOLEAN /\ start_stop' \in BOOLEAN
    BY DEF TypeOK
  <2> QED BY <2>1, SuivantType DEF Avance
<1>6. capteur' \in {"compas", "anemometre"}
  BY DEF TypeOK
<1> QED BY <1>1, <1>2, <1>3, <1>4, <1>5, <1>6 DEF TypeOK

\* So does a clock edge in reset, which clears the counters.
LEMMA EnRazType ==
    ASSUME TypeOK, NEW e \in BOOLEAN, EnRaz(e),
           {raz_n', continu', start_stop'} \subseteq BOOLEAN, depuis' \in 0..Delai,
           faites' \in 0..2, capteur' = capteur
    PROVE  TypeOK'
<1>1. sync' \in BOOLEAN /\ s' \in BOOLEAN
  BY DEF TypeOK, EnRaz
<1>2. /\ 0 \in 0..(Usec - 1) /\ 0 \in 0..MaxTemps /\ 0 \in 0..(Sec - 1)
  BY CapteurAssumption
<1>3. current_st' \in Etats /\ next_st' \in Etats
  <2> DEFINE charge == IF raz_n THEN next_st ELSE "st_continu"
             x == Suivant(charge, continu', start_stop', next_st)
  <2>1. next_st \in Etats /\ continu' \in BOOLEAN /\ start_stop' \in BOOLEAN
        /\ "st_continu" \in Etats
    BY DEF TypeOK, Etats
  <2>2. charge \in Etats
    BY <2>1
  <2> HIDE DEF charge
  <2>3. x \in Etats
    BY <2>1, <2>2, SuivantType
  <2> HIDE DEF x
  <2>4. Suivant("st_continu", continu', start_stop', x) \in Etats
    BY <2>1, <2>3, SuivantType
  <2> QED BY <2>1, <2>4 DEF EnRaz, x, charge
<1>4. /\ usec' = 0 /\ temps' = 0 /\ sec' = 0 /\ periode' = 0 /\ seconde' = 0 /\ data' = 0
  BY DEF EnRaz
<1>5. capteur' \in {"compas", "anemometre"}
  BY DEF TypeOK
<1>6. {periode', seconde', data'} \subseteq 0..MaxTemps \cup 0..(Cap - 1)
  BY <1>2, <1>4
<1> QED BY <1>1, <1>2, <1>3, <1>4, <1>5, <1>6 DEF TypeOK

-----------------------------------------------------------------------------------
\* The compass: one more edge of the pulse is one more edge of the clock of
\* microseconds, wherever this clock was when the pulse began (cascadeCompteurs.vhd:28).
LEMMA CompasMesure ==
    ASSUME TypeOK, Mesure, NEW e \in BOOLEAN, Mesurable(e), Compas(e), capteur = "compas",
           capteur' = capteur
    PROVE  Mesure'
<1> DEFINE T == temps * Usec
<1>1. /\ Usec \in Nat /\ MaxTemps \in Nat /\ usec \in 0..(Usec - 1) /\ temps \in 0..MaxTemps
      /\ vrai \in Nat /\ Usec > 0 /\ Usec <= 64 /\ sync \in BOOLEAN /\ MaxTemps > 0
  BY CapteurAssumption DEF TypeOK, Mesure
<1>2. T \in Nat /\ Usec * MaxTemps \in Nat
  BY <1>1
<1>3. T + usec - vrai \in 0..(Usec - 1)
  BY DEF Mesure, MesureJuste
<1>4. sync => vrai < Usec * MaxTemps
  BY DEF Mesure
<1>5. sync' => vrai < Usec * MaxTemps - 1
  BY DEF Mesurable, Compas
<1>6. sync' \in BOOLEAN
  BY DEF Compas
<1>7. usec' = IF usec = Usec - 1 THEN 0 ELSE usec + 1
  BY <1>1 DEF Compas, Compteur
<1>8. vrai' = IF sync THEN vrai + 1 ELSE 0
  BY DEF Compas
<1>9. ASSUME temps = MaxTemps PROVE ~sync \/ usec # Usec - 1
  <2>1. T = Usec * MaxTemps
    BY <1>1, <1>9
  <2> HIDE DEF T
  <2> QED BY <1>1, <1>2, <1>3, <1>4, <2>1
<1>10. temps' = IF ~sync THEN 0 ELSE IF usec = Usec - 1 THEN temps + 1 ELSE temps
  BY <1>1, <1>9 DEF Compas, Compteur
<1>11. temps' * Usec = IF ~sync THEN 0 ELSE IF usec = Usec - 1 THEN T + Usec ELSE T
  <2>1. (temps + 1) * Usec = T + Usec
    BY <1>1
  <2>2. 0 * Usec = 0
    BY <1>1
  <2> QED BY <1>10, <2>1, <2>2
<1> HIDE DEF T
<1>12. temps' * Usec + usec' - vrai' \in 0..(Usec - 1)
  BY <1>1, <1>2, <1>3, <1>7, <1>8, <1>11
<1>13. vrai' \in Nat
  BY <1>1, <1>8
<1>14. vrai' <= Usec * MaxTemps /\ (sync' => vrai' < Usec * MaxTemps)
  <2>1. 0 < Usec * MaxTemps
    BY <1>1
  <2> QED BY <1>1, <1>2, <1>4, <1>5, <1>8, <2>1
<1> QED BY <1>12, <1>13, <1>14 DEF Mesure, MesureJuste

\* The anemometer: the edge that falls on the end of a period, at which the reset of
\* the counter beats its enable, is the only one to be lost (ConversionVitesseVent.vhd:38).
LEMMA AnemometreMesure ==
    ASSUME TypeOK, Mesure, NEW e \in BOOLEAN, Mesurable(e), Anemometre(e),
           capteur = "anemometre", capteur' = capteur
    PROVE  Mesure'
<1> DEFINE f == FrontMontant(e, s)
<1>1. /\ MaxTemps \in Nat /\ temps \in 0..MaxTemps /\ vrai \in Nat /\ f \in BOOLEAN
      /\ MaxTemps > 0 /\ Rafraichit \in BOOLEAN
  BY CapteurAssumption, RafraichitType DEF TypeOK, Mesure, FrontMontant
<1>2. vrai - temps \in {0, 1} /\ vrai <= MaxTemps
  BY DEF Mesure, MesureJuste
<1>3. f => vrai < MaxTemps
  BY DEF Mesurable
<1>4. vrai' = (IF Rafraichit THEN 0 ELSE vrai) + (IF f THEN 1 ELSE 0)
  BY DEF Anemometre
<1>5. temps' = Compteur(temps, MaxTemps, Rafraichit, f)
  BY DEF Anemometre
<1> HIDE DEF f
<1>6. temps' = IF Rafraichit THEN 0 ELSE IF f THEN temps + 1 ELSE temps
  BY <1>1, <1>2, <1>3, <1>5 DEF Compteur
<1>7. vrai' - temps' \in {0, 1} /\ vrai' <= MaxTemps /\ vrai' \in Nat
  BY <1>1, <1>2, <1>3, <1>4, <1>6
<1> QED BY <1>7 DEF Mesure, MesureJuste

\* In reset the counters of the measure are held at zero, and so is what they should hold.
LEMMA EnRazMesure ==
    ASSUME TypeOK, NEW e \in BOOLEAN, EnRaz(e), capteur' = capteur
    PROVE  Mesure'
<1>1. usec' = 0 /\ temps' = 0 /\ vrai' = 0
  BY DEF EnRaz
<1>2. Usec \in Nat /\ Usec > 0 /\ MaxTemps \in Nat /\ MaxTemps > 0
  BY CapteurAssumption
<1>3. 0 < Usec * MaxTemps
  BY <1>2
<1>4. 0 * Usec + 0 - 0 \in 0..(Usec - 1) /\ 0 - 0 \in {0, 1} /\ 0 \in Nat /\ 0 <= MaxTemps
  BY <1>2
<1>5. temps' * Usec + usec' - vrai' \in 0..(Usec - 1) /\ vrai' - temps' \in {0, 1}
  BY <1>1, <1>4
<1>6. vrai' \in Nat /\ vrai' <= MaxTemps /\ vrai' < Usec * MaxTemps /\ vrai' <= Usec * MaxTemps
  BY <1>1, <1>3, <1>4, <1>2
<1> QED BY <1>5, <1>6 DEF Mesure, MesureJuste

-----------------------------------------------------------------------------------
\* The machine comes closer to the state that is commanded at each edge.
LEMMA AvanceMachine ==
    ASSUME TypeOK, TypeOK', Machine, raz_n, raz_n',
           current_st' = next_st,
           next_st' = Suivant(next_st, continu', start_stop', next_st),
           Ecrit,
           faites' = IF <<raz_n, continu, start_stop>>' # <<raz_n, continu, start_stop>>
                     THEN IF current_st' = "st_acquisition" THEN 1 ELSE 0
                     ELSE IF current_st' = "st_acquisition" /\ faites < 2 THEN faites + 1
                     ELSE faites
    PROVE  Machine'
<1>1. Decode'
  BY DEF Decode
<1>2. depuis \in Nat /\ depuis' \in Nat /\ Delai >= 4 /\ Ecart >= 4 /\ faites \in 0..2
      /\ Ecart \in Nat /\ Delai \in Nat
  BY CapteurAssumption DEF TypeOK
<1>3. /\ Decode \/ (continu /\ depuis = 0 /\ current_st = "st_continu")
      /\ continu => Continu
      /\ ~continu /\ ~start_stop => Arret
      /\ ~continu /\ start_stop => Depart
  BY DEF Machine
<1>4. current_st \in Etats /\ next_st \in Etats /\ {continu, start_stop} \subseteq BOOLEAN
      /\ {continu', start_stop'} \subseteq BOOLEAN /\ raz_n \in BOOLEAN
  BY DEF TypeOK
<1>5. CASE UNCHANGED <<raz_n, continu, start_stop>>
           /\ depuis' = IF depuis < Delai THEN depuis + 1 ELSE depuis
  <2>1. CASE continu
    BY <1>1, <1>2, <1>3, <1>4, <1>5, <2>1 DEF Machine, Continu, Decode, Suivant, Etats
  <2>2. CASE ~continu /\ ~start_stop
    BY <1>1, <1>2, <1>3, <1>4, <1>5, <2>2 DEF Machine, Arret, Decode, Suivant, Etats
  <2>3. CASE ~continu /\ start_stop
    BY <1>1, <1>2, <1>3, <1>4, <1>5, <2>3 DEF Machine, Depart, Decode, Suivant, Etats
  <2> QED BY <1>4, <2>1, <2>2, <2>3
<1>6. CASE depuis >= Ecart - 1 /\ depuis' = 0
  <2>1. depuis >= 3
    BY <1>2, <1>6
  <2>2. next_st = IF continu THEN "st_continu" ELSE IF start_stop THEN "st_start_aq"
                  ELSE "st_stop_aq"
    BY <1>2, <1>3, <1>4, <2>1 DEF Continu, Arret, Depart, Decode, Suivant, Etats
  <2>3. ~continu' /\ start_stop' => Depart'
    <3>1. CASE UNCHANGED <<raz_n, continu, start_stop>>
      BY <1>2, <1>3, <1>4, <1>6, <2>1, <2>2, <3>1 DEF Depart, Etats
    <3>2. CASE <<raz_n, continu, start_stop>>' # <<raz_n, continu, start_stop>>
      BY <1>2, <1>4, <1>6, <2>2, <3>2 DEF Depart
    <3> QED BY <3>1, <3>2
  <2>4. Continu' /\ Arret'
    BY <1>6 DEF Continu, Arret
  <2> QED BY <1>1, <2>3, <2>4 DEF Machine
<1> QED BY <1>5, <1>6 DEF Ecrit

\* In reset the acquisition machine is in its idle state: the count of edges restarts.
LEMMA EnRazMachine ==
    ASSUME TypeOK, TypeOK', Ecrit, ~(raz_n /\ raz_n'), NEW e \in BOOLEAN, EnRaz(e),
           faites' = IF <<raz_n, continu, start_stop>>' # <<raz_n, continu, start_stop>>
                     THEN IF current_st' = "st_acquisition" THEN 1 ELSE 0
                     ELSE IF current_st' = "st_acquisition" /\ faites < 2 THEN faites + 1
                     ELSE faites
    PROVE  Machine'
<1> SUFFICES ASSUME raz_n' PROVE Machine'
  BY DEF Machine
<1>1. ~raz_n
  OBVIOUS
<1>2. depuis' = 0 /\ ~ UNCHANGED <<raz_n, continu, start_stop>>
  BY <1>1 DEF Ecrit, TypeOK
<1>3. current_st' = "st_continu"
  BY DEF EnRaz
<1>4. faites' = 0
  BY <1>2, <1>3
<1>5. \E x : next_st' = Suivant("st_continu", continu', start_stop', x)
  BY DEF EnRaz
<1>6. ~continu' => Decode'
  BY <1>3, <1>5 DEF Decode, Suivant
<1>7. Continu' /\ Arret' /\ Depart'
  BY <1>2, <1>3, <1>4 DEF Continu, Arret, Depart
<1> QED BY <1>2, <1>3, <1>6, <1>7 DEF Machine

-----------------------------------------------------------------------------------
\* Every step keeps the inductive invariant.
LEMMA NextIInv == IInv /\ [Next]_vars => IInv'
<1> SUFFICES ASSUME IInv, [Next]_vars PROVE IInv'
  OBVIOUS
<1>0. TypeOK /\ Mesure /\ Machine
  BY DEF IInv
<1>1. CASE Next
  <2>1. PICK e \in BOOLEAN :
          /\ Mesurable(e)
          /\ Ecrit
          /\ IF raz_n /\ raz_n' THEN Avance(e) ELSE EnRaz(e)
          /\ faites' = IF <<raz_n, continu, start_stop>>' # <<raz_n, continu, start_stop>>
                       THEN IF current_st' = "st_acquisition" THEN 1 ELSE 0
                       ELSE IF current_st' = "st_acquisition" /\ faites < 2 THEN faites + 1
                       ELSE faites
          /\ UNCHANGED capteur
    BY <1>1 DEF Next, Horloge
  <2>2. {raz_n', continu', start_stop'} \subseteq BOOLEAN /\ depuis' \in 0..Delai
    BY <1>0, <2>1, EcritType
  <2>3. faites' \in 0..2
    BY <1>0, <2>1 DEF TypeOK
  <2>4. CASE raz_n /\ raz_n'
    <3>1. Avance(e)
      BY <2>1, <2>4
    <3>2. TypeOK'
      BY <1>0, <2>1, <2>2, <2>3, <3>1, AvanceType
    <3>3. Mesure'
      <4>1. CASE capteur = "compas"
        BY <1>0, <2>1, <3>1, <4>1, CompasMesure DEF Avance
      <4>2. CASE capteur = "anemometre"
        BY <1>0, <2>1, <3>1, <4>2, AnemometreMesure DEF Avance
      <4> QED BY <1>0, <4>1, <4>2 DEF TypeOK
    <3>4. current_st' = next_st
          /\ next_st' = Suivant(next_st, continu', start_stop', next_st)
      BY <3>1 DEF Avance
    <3>5. Machine'
      BY <1>0, <2>1, <2>4, <3>2, <3>4, AvanceMachine
    <3> QED BY <3>2, <3>3, <3>5 DEF IInv
  <2>5. CASE ~(raz_n /\ raz_n')
    <3>1. EnRaz(e)
      BY <2>1, <2>5
    <3>2. TypeOK'
      BY <1>0, <2>1, <2>2, <2>3, <3>1, EnRazType
    <3>3. Mesure'
      BY <1>0, <2>1, <3>1, EnRazMesure
    <3>4. Machine'
      BY <1>0, <2>1, <2>5, <3>1, <3>2, EnRazMachine
    <3> QED BY <3>2, <3>3, <3>4 DEF IInv
  <2> QED BY <2>4, <2>5
<1>2. CASE UNCHANGED vars
  <2>1. TypeOK'
    BY <1>0, <1>2 DEF TypeOK, vars, mesure, sorties
  <2>2. Mesure'
    BY <1>0, <1>2 DEF Mesure, MesureJuste, vars, mesure
  <2>3. Machine'
    BY <1>0, <1>2 DEF Machine, Decode, Continu, Arret, Depart, vars
  <2> QED BY <2>1, <2>2, <2>3 DEF IInv
<1> QED BY <1>1, <1>2

\* The types, the measure and the account of the acquisition machine, together, hold in
\* every state.
THEOREM Invariant == Spec => []IInv
BY InitIInv, NextIInv, PTL DEF Spec

\* The registers of both sensors keep their widths, the states their type.
THEOREM TypesDuCapteur == Spec => []TypeOK
BY Invariant, PTL DEF IInv

\* What is counted is the pulse within one microsecond, or the edges but one
\* (cascadeCompteurs.vhd:28, ConversionVitesseVent.vhd:38), whatever the resets.
THEOREM MesureToujoursJuste == Spec => []MesureJuste
<1>1. IInv => MesureJuste
  BY DEF IInv, Mesure
<1> QED BY <1>1, Invariant, PTL

\* The machine, once the commands have been alone for Delai edges (def_etats.vhd:24).
LEMMA SuitLaCommande == IInv => CommandeSuivie
<1> SUFFICES ASSUME IInv, raz_n, depuis = Delai PROVE CommandeSuivie
  BY DEF CommandeSuivie
<1>1. Machine /\ current_st \in Etats /\ {continu, start_stop} \subseteq BOOLEAN
  BY DEF IInv, TypeOK
<1>2. Delai \in Nat /\ Delai >= 4
  BY CapteurAssumption
<1>3. CASE continu
  BY <1>1, <1>2, <1>3 DEF Machine, Continu, CommandeSuivie, Etats
<1>4. CASE ~continu /\ ~start_stop
  BY <1>1, <1>2, <1>4 DEF Machine, Arret, CommandeSuivie, Etats
<1>5. CASE ~continu /\ start_stop
  BY <1>1, <1>2, <1>5 DEF Machine, Depart, CommandeSuivie, Etats
<1> QED BY <1>1, <1>3, <1>4, <1>5

\* Commands left alone for Delai edges are obeyed, and a start makes one acquisition
\* (def_etats.vhd:24): four edges are enough, whatever the latch held before the reset.
THEOREM CommandesSuivies == Spec => []CommandeSuivie
BY SuitLaCommande, Invariant, PTL
-----------------------------------------------------------------------------------
\* From the pulse to the heading.

\* What division by a positive number means.
LEMMA Division ==
    ASSUME NEW m \in Nat, 0 < m, NEW x \in Nat
    PROVE  /\ x \div m \in Nat /\ x % m \in 0..(m - 1)
           /\ x = m * (x \div m) + (x % m)
OBVIOUS

\* Only one multiple of m lies between x and x + m excluded.
LEMMA Multiple ==
    ASSUME NEW m \in Nat, 0 < m, NEW a \in Int, NEW b \in Int,
           m * a < m * b + m
    PROVE  a <= b
<1> SUFFICES ASSUME a >= b + 1 PROVE FALSE
  OBVIOUS
<1> DEFINE d == a - b - 1
<1>1. d \in Nat /\ a = b + 1 + d
  OBVIOUS
<1> HIDE DEF d
<1>2. m * a = m * b + m + m * d
  BY <1>1
<1>3. m * d \in Nat /\ m * a \in Int /\ m * b \in Int
  BY <1>1
<1> QED BY <1>2, <1>3

\* The time counted is the length of the pulse rounded down or up to a microsecond.
LEMMA TempsArrondi ==
    ASSUME TypeOK, MesureJuste, capteur = "compas", vrai \in Nat
    PROVE  /\ temps \in {vrai \div Usec, (vrai + Usec - 1) \div Usec}
           /\ temps \in {vrai \div Usec, vrai \div Usec + 1}
<1> DEFINE q == vrai \div Usec
           r == vrai % Usec
           w == vrai + Usec - 1
           p == w \div Usec
           z == w % Usec
           T == temps * Usec
<1>1. /\ Usec \in Nat /\ 0 < Usec /\ temps \in Nat /\ usec \in 0..(Usec - 1) /\ w \in Nat
  BY CapteurAssumption DEF TypeOK
<1>2. /\ q \in Nat /\ r \in 0..(Usec - 1) /\ vrai = Usec * q + r
      /\ p \in Nat /\ z \in 0..(Usec - 1) /\ w = Usec * p + z
  BY <1>1, Division
<1>3. T + usec - vrai \in 0..(Usec - 1)
  BY DEF MesureJuste
<1>4. T = Usec * temps /\ T \in Int /\ Usec * q \in Int /\ Usec * p \in Int
  BY <1>1, <1>2
<1> HIDE DEF q, r, p, z, T
<1>5. q <= temps
  <2>1. Usec * q < Usec * temps + Usec
    BY <1>1, <1>2, <1>3, <1>4
  <2> QED BY <1>1, <1>2, <2>1, Multiple
<1>6. temps <= p
  <2>1. Usec * temps < Usec * p + Usec
    BY <1>1, <1>2, <1>3, <1>4
  <2> QED BY <1>1, <1>2, <2>1, Multiple
<1>7. p <= q + 1
  <2>1. Usec * (q + 1) = Usec * q + Usec
    BY <1>1, <1>2
  <2>2. Usec * p < Usec * (q + 1) + Usec
    BY <1>1, <1>2, <1>4, <2>1
  <2> QED BY <1>1, <1>2, <2>2, Multiple
<1>8. temps = q \/ temps = p
  BY <1>1, <1>2, <1>5, <1>6, <1>7
<1>9. temps = q \/ temps = q + 1
  BY <1>1, <1>2, <1>5, <1>6, <1>7
<1> QED BY <1>8, <1>9 DEF q, p, w

\* A pulse that is not shorter than that of the heading 0 counts as one.
LEMMA TempsSuffit ==
    ASSUME TypeOK, MesureJuste, capteur = "compas", vrai \in Nat, vrai >= Base * Usec
    PROVE  Base <= temps
<1> DEFINE T == temps * Usec
<1>1. /\ Usec \in Nat /\ 0 < Usec /\ temps \in Nat /\ usec \in 0..(Usec - 1) /\ Base \in Nat
  BY CapteurAssumption DEF TypeOK
<1>2. T + usec - vrai \in 0..(Usec - 1)
  BY DEF MesureJuste
<1>3. T = Usec * temps /\ Base * Usec = Usec * Base /\ T \in Int /\ Usec * Base \in Int
  BY <1>1
<1> HIDE DEF T
<1>4. Usec * Base < Usec * temps + Usec
  BY <1>1, <1>2, <1>3
<1> QED BY <1>1, <1>4, Multiple

\* Where the subtraction of conversion_degres.vhd:19 does not wrap, the register is
\* given the heading of the time counted.
LEMMA DegresCap ==
    ASSUME NEW t \in Base..MaxTemps PROVE Degres(t) = CapDe(t)
<1>1. Base \in Nat /\ MaxTemps \in Nat
  BY CapteurAssumption
<1>2. t - Base \in 0..MaxTemps
  BY <1>1
<1>3. (t - Base) % (MaxTemps + 1) = t - Base
  BY <1>1, <1>2
<1> QED BY <1>3 DEF Degres, CapDe

\* The heading that reaches the register is the one of the pulse, to one microsecond, for
\* every length of the microsecond and every phase of its clock (Conversion_Adaptation.vhd).
THEOREM CapToujoursJuste == Spec => CapJuste
<1> DEFINE A == capteur = "compas" /\ raz_n /\ raz_n' /\ FrontDescendant(sync, s)
                  /\ vrai >= Base * Usec
                => periode' \in {CapDe(vrai \div Usec), CapDe((vrai + Usec - 1) \div Usec)}
<1>1. IInv /\ [Next]_vars => [A]_vars
  <2> SUFFICES ASSUME IInv, Next, capteur = "compas", raz_n, raz_n', FrontDescendant(sync, s),
                      vrai >= Base * Usec
               PROVE  periode' \in {CapDe(vrai \div Usec), CapDe((vrai + Usec - 1) \div Usec)}
    OBVIOUS
  <2>1. TypeOK /\ MesureJuste /\ vrai \in Nat
    BY DEF IInv, Mesure
  <2>2. temps \in Base..MaxTemps
    BY <2>1, TempsSuffit, CapteurAssumption DEF TypeOK
  <2>3. periode' = Degres(temps)
    BY DEF Next, Horloge, Avance, Compas
  <2>4. periode' = CapDe(temps)
    BY <2>2, <2>3, DegresCap
  <2> QED BY <2>1, <2>4, TempsArrondi
<1> QED BY <1>1, Invariant, PTL DEF Spec, CapJuste

\* One microsecond more or less is one degree more or less, at most, and only at the limit
\* of two degrees: a heading is never more than one degree above that of the pulse rounded
\* down (conversion_degres.vhd:19).
LEMMA UnDegre ==
    ASSUME NEW x \in Nat
    PROVE  (x + 1) \div Pas \in {x \div Pas, x \div Pas + 1}
<1> DEFINE q == x \div Pas
           r == x % Pas
           y == x + 1
           p == y \div Pas
           z == y % Pas
<1>1. Pas \in Nat /\ 0 < Pas /\ y \in Nat
  BY CapteurAssumption
<1>2. /\ q \in Nat /\ r \in 0..(Pas - 1) /\ x = Pas * q + r
      /\ p \in Nat /\ z \in 0..(Pas - 1) /\ y = Pas * p + z
  BY <1>1, Division
<1>3. Pas * q \in Int /\ Pas * p \in Int /\ Pas * (q + 1) = Pas * q + Pas
  BY <1>1, <1>2
<1> HIDE DEF q, r, p, z
<1>4. q <= p
  BY <1>1, <1>2, <1>3, Multiple
<1>5. p <= q + 1
  BY <1>1, <1>2, <1>3, Multiple
<1> QED BY <1>2, <1>4, <1>5 DEF q, p

\* In degrees: the heading that reaches the register is never more than one degree off
\* that of the pulse rounded down, one above it (conversion_degres.vhd:19).
THEOREM CapAUnDegrePres ==
    Spec => [][ capteur = "compas" /\ raz_n /\ raz_n' /\ FrontDescendant(sync, s)
                /\ vrai >= Base * Usec
                => \E d \in {0, 1} :
                     periode' = ((vrai \div Usec - Base) \div Pas + d) % Cap ]_vars
<1> DEFINE A == capteur = "compas" /\ raz_n /\ raz_n' /\ FrontDescendant(sync, s)
                /\ vrai >= Base * Usec
                => \E d \in {0, 1} :
                     periode' = ((vrai \div Usec - Base) \div Pas + d) % Cap
<1>1. IInv /\ [Next]_vars => [A]_vars
  <2> SUFFICES ASSUME IInv, Next, capteur = "compas", raz_n, raz_n', FrontDescendant(sync, s),
                      vrai >= Base * Usec
               PROVE  \E d \in {0, 1} :
                        periode' = ((vrai \div Usec - Base) \div Pas + d) % Cap
    OBVIOUS
  <2> DEFINE q == vrai \div Usec
             x == q - Base
  <2>1. TypeOK /\ MesureJuste /\ vrai \in Nat
    BY DEF IInv, Mesure
  <2>2. temps \in Base..MaxTemps
    BY <2>1, TempsSuffit, CapteurAssumption DEF TypeOK
  <2>3. periode' = Degres(temps)
    BY DEF Next, Horloge, Avance, Compas
  <2>4. periode' = ((temps - Base) \div Pas) % Cap
    BY <2>2, <2>3, DegresCap DEF CapDe
  <2>5. q \in Nat /\ Base \in Nat /\ Usec \in Nat /\ 0 < Usec
    BY <2>1, CapteurAssumption, Division
  <2>6. Base <= q
    <3>1. /\ vrai % Usec \in 0..(Usec - 1) /\ vrai = Usec * q + (vrai % Usec)
      BY <2>1, <2>5, Division
    <3>2. Usec * q \in Int /\ Usec * Base \in Int /\ Base * Usec = Usec * Base
      BY <2>5
    <3> HIDE DEF q
    <3>3. Usec * Base < Usec * q + Usec
      BY <2>1, <2>5, <3>1, <3>2
    <3> QED BY <2>5, <3>3, Multiple
  <2>7. temps = q \/ temps = q + 1
    BY <2>1, TempsArrondi
  <2> HIDE DEF q
  <2>8. x \in Nat /\ (temps - Base = x \/ temps - Base = x + 1)
    BY <2>5, <2>6, <2>7
  <2>9. x \div Pas \in Int
    BY <2>8, CapteurAssumption
  <2>10. periode' = (x \div Pas) % Cap \/ periode' = (x \div Pas + 1) % Cap
    <3>1. (x + 1) \div Pas \in {x \div Pas, x \div Pas + 1}
      BY <2>8, UnDegre
    <3> HIDE DEF x
    <3> QED BY <2>4, <2>8, <3>1
  <2>11. x \div Pas + 0 = x \div Pas
    BY <2>9
  <2> QED BY <2>10, <2>11 DEF x, q
<1> QED BY <1>1, Invariant, PTL DEF Spec

-----------------------------------------------------------------------------------
\* No wind.  What VentNul says under fairness rests on a count of the edges still to
\* come before the last register reads zero: those of two periods and two more at most.
Rang == IF temps # 0 THEN (Sec - sec) + Sec + 1
        ELSE IF seconde # 0 THEN (Sec - sec) + 1
        ELSE IF data # 0 THEN 1 ELSE 0

\* An edge without wind, in continuous mode, once the machine has followed the command.
Calme == /\ capteur = "anemometre" /\ raz_n /\ raz_n' /\ continu /\ depuis = Delai
         /\ ~s /\ ~s'

\* What such an edge does to the chain of registers.
LEMMA EdgeCalme ==
    ASSUME IInv, Next, Calme
    PROVE  /\ temps' = IF sec >= Sec - 1 THEN 0 ELSE temps
           /\ sec' = IF sec >= Sec - 1 THEN 0 ELSE sec + 1
           /\ seconde' = IF sec >= Sec - 1 THEN temps ELSE seconde
           /\ data' = seconde
<1>1. PICK e \in BOOLEAN : Avance(e)
  BY DEF Next, Horloge, Calme
<1>2. Anemometre(e) /\ capteur = "anemometre" /\ capteur # "compas"
  BY <1>1 DEF Avance, Calme
<1>3. e = FALSE
  BY <1>2 DEF Anemometre, Calme
<1>4. temps' = Compteur(temps, MaxTemps, Rafraichit, FALSE)
  BY <1>2, <1>3 DEF Anemometre, FrontMontant
<1>5. current_st = "st_continu"
  BY SuitLaCommande DEF Calme, CommandeSuivie
<1>6. data' = seconde
  BY <1>1, <1>5 DEF Avance, Acquisition
<1>7. sec' = Compteur(sec, MaxSec, Rafraichit, TRUE) /\ sec \in 0..(Sec - 1) /\ Sec <= MaxSec
      /\ Sec \in Nat /\ MaxSec \in Nat
  BY <1>1, CapteurAssumption DEF Avance, IInv, TypeOK
<1>8. sec' = IF sec >= Sec - 1 THEN 0 ELSE sec + 1
  BY <1>7 DEF Compteur, Rafraichit
<1>9. seconde' = IF sec >= Sec - 1 THEN temps ELSE seconde
  BY <1>1, <1>2 DEF Avance, Rafraichit
<1> QED BY <1>4, <1>6, <1>8, <1>9 DEF Compteur, Rafraichit

\* Every edge without wind brings the zero nearer, and the zero stays
\* (ConversionVitesseVent.vhd:38 and :89).
THEOREM VentRetombe ==
    Spec => /\ [](Rang \in 0..(2 * Sec + 1) /\ (Rang = 0 => data = 0))
            /\ [][Calme => Rang' < Rang \/ (Rang = 0 /\ Rang' = 0)]_vars
<1>1. IInv => Rang \in 0..(2 * Sec + 1) /\ (Rang = 0 => data = 0)
  <2> SUFFICES ASSUME IInv PROVE Rang \in 0..(2 * Sec + 1) /\ (Rang = 0 => data = 0)
    OBVIOUS
  <2>1. Sec \in Nat /\ 0 < Sec /\ sec \in 0..(Sec - 1)
    BY CapteurAssumption DEF IInv, TypeOK
  <2> QED BY <2>1 DEF Rang
<1>2. IInv /\ [Next]_vars => [Calme => Rang' < Rang \/ (Rang = 0 /\ Rang' = 0)]_vars
  <2> SUFFICES ASSUME IInv, Next, Calme PROVE Rang' < Rang \/ (Rang = 0 /\ Rang' = 0)
    OBVIOUS
  <2>1. Sec \in Nat /\ 0 < Sec /\ sec \in 0..(Sec - 1)
    BY CapteurAssumption DEF IInv, TypeOK
  <2>2. /\ temps' = IF sec >= Sec - 1 THEN 0 ELSE temps
        /\ sec' = IF sec >= Sec - 1 THEN 0 ELSE sec + 1
        /\ seconde' = IF sec >= Sec - 1 THEN temps ELSE seconde
        /\ data' = seconde
    BY EdgeCalme
  <2>3. CASE temps # 0
    BY <2>1, <2>2, <2>3 DEF Rang
  <2>4. CASE temps = 0 /\ seconde # 0
    BY <2>1, <2>2, <2>4 DEF Rang
  <2>5. CASE temps = 0 /\ seconde = 0
    BY <2>1, <2>2, <2>5 DEF Rang
  <2> QED BY <2>3, <2>4, <2>5
<1> QED BY <1>1, <1>2, Invariant, PTL DEF Spec

===================================================================================
