--------------------------- MODULE GestionLeds_proofs ---------------------------
(***************************************************************************)
(* The LEDs, for every duration and counter width, whatever the latches of *)
(* gestion_leds.vhd catch of a period that ends, whenever the mode changes *)
(* or the reset comes: no flash and no dark is left half-way, the blinking *)
(* is lit or dark, manual steering is shown, and lit, dark and flash end   *)
(* within a number of edges that the theorems give.                        *)
(***************************************************************************)
EXTENDS GestionLeds, Bip_lemmes

\* What InvLeds says of the gestion_bip of the flashes, and of the blinking.
Plein(b) == /\ b \in Bips /\ b.un <= UneSec /\ b.demi <= DemiSec
            /\ b.act \/ b.un \in {0, UneSec}
            /\ b.att \/ b.demi \in {0, DemiSec}

Alterne(b) == Plein(b) /\ b.att = ~b.act

\* The counters advance with the latches closed: a counter whose latch is open stays
\* within its duration, one whose latch is closed stays at an end.
LEMMA CompteursPleins ==
    ASSUME NEW b, Plein(b)
    PROVE  LET m == BipCompteurs(b)
           IN  /\ Plein(m) /\ m.act = b.act /\ m.att = b.att
               /\ Re1(b) => m.un = 0
               /\ Re05(b) => m.demi = 0
<1> USE BipAssumption
<1> DEFINE m == BipCompteurs(b)
<1>1. b \in Bips /\ b.un \in 0..UneSec /\ b.demi \in 0..DemiSec
  BY Champs DEF Plein
<1>2. /\ m \in Bips /\ m.act = b.act /\ m.att = b.att
      /\ m.un = IF b.un = UneSec THEN 0 ELSE IF b.act THEN b.un + 1 ELSE b.un
      /\ m.demi = IF b.demi = DemiSec THEN 0 ELSE IF b.att THEN b.demi + 1 ELSE b.demi
  BY <1>1, CompteursAvancent DEF Plein
<1>3. (b.act \/ b.un \in {0, UneSec}) /\ (b.att \/ b.demi \in {0, DemiSec})
  BY DEF Plein
<1> HIDE DEF m
<1>4. m.un <= UneSec /\ m.demi <= DemiSec
  BY <1>1, <1>2
<1>5. (m.act \/ m.un \in {0, UneSec}) /\ (m.att \/ m.demi \in {0, DemiSec})
  BY <1>1, <1>2, <1>3
<1>6. (Re1(b) => m.un = 0) /\ (Re05(b) => m.demi = 0)
  BY <1>1, <1>2 DEF Re1, Re05, FrontMontant, FinUn, FinDemi
<1> QED BY <1>2, <1>4, <1>5, <1>6 DEF Plein, m

\* A latch of the flashes closes only when its counter is at an end.
LEMMA VerrouPlein ==
    ASSUME NEW b, Plein(b), NEW a, NEW r1 \in BOOLEAN, NEW r05 \in BOOLEAN,
           r1 => b.un \in {0, UneSec}, r05 => b.demi \in {0, DemiSec}
    PROVE  LET f == Verrou(b, a, r1, r05)
           IN  Plein(f) /\ f.un = b.un /\ f.demi = b.demi
<1> DEFINE f == Verrou(b, a, r1, r05)
<1>1. b \in Bips /\ b.un <= UneSec /\ b.demi <= DemiSec
      /\ (b.act \/ b.un \in {0, UneSec}) /\ (b.att \/ b.demi \in {0, DemiSec})
  BY DEF Plein
<1>2. f \in Bips
  BY <1>1, VerrouType
<1>3. /\ f.un = b.un /\ f.demi = b.demi
      /\ f.act <=> r05 \/ (~r1 /\ (b.act \/ Simple(a) \/ Double(a)))
      /\ f.att <=> ~r05 /\ (b.att \/ (r1 /\ b.choix))
  BY VerrouEffet
<1> HIDE DEF f
<1>4. f.act \/ f.un \in {0, UneSec}
  BY <1>1, <1>3
<1>5. f.att \/ f.demi \in {0, DemiSec}
  BY <1>1, <1>3
<1> QED BY <1>1, <1>2, <1>3, <1>4, <1>5 DEF Plein, f

\* The end that a counter reaches shows in its value.
LEMMA FinPleine ==
    ASSUME NEW b, Plein(b)
    PROVE  (Re1(b) => b.un = UneSec) /\ (Re05(b) => b.demi = DemiSec)
<1>1. b \in Bips /\ b.un \in 0..UneSec /\ b.demi \in 0..DemiSec
  BY Champs, BipAssumption DEF Plein
<1> QED BY <1>1, BipAssumption DEF Re1, Re05, FrontMontant, FinUn, FinDemi

\* An edge of the clock, enabled or frozen, leaves no flash half-way.
LEMMA LedHorlogePleine ==
    ASSUME NEW b, Plein(b), NEW en1 \in BOOLEAN, NEW en \in BOOLEAN, NEW av, NEW ap,
           NEW f \in LedHorloge(b, en1, en, av, ap)
    PROVE  Plein(f)
<1> DEFINE m == BipCompteurs(b)
<1>1. /\ Plein(m) /\ (Re1(b) => m.un = 0) /\ (Re05(b) => m.demi = 0)
  BY CompteursPleins
<1>2. CASE ~en
  <2>1. CASE f = m
    BY <1>1, <2>1
  <2>2. ASSUME NEW a, f \in {BipMilieu(b, Entree(a)), BipHorloge(b, Entree(a))} PROVE Plein(f)
    <3> DEFINE p == Verrou(m, Entree(a), FALSE, FALSE)
    <3>1. Plein(p)
      <4> HIDE DEF m
      <4> QED BY <1>1, VerrouPlein
    <3>2. f = p \/ f = Verrou(p, Entree(a), Re1(p), Re05(p))
      BY <2>2 DEF BipMilieu, BipHorloge, BipFin, Re1, Re05
    <3> HIDE DEF p
    <3>3. Re1(p) \in BOOLEAN /\ Re05(p) \in BOOLEAN
      BY DEF Re1, Re05, FrontMontant
    <3>4. Plein(Verrou(p, Entree(a), Re1(p), Re05(p)))
      BY <3>1, <3>3, FinPleine, VerrouPlein
    <3> QED BY <3>1, <3>2, <3>4
  <2>3. \/ f = m
        \/ f \in {BipMilieu(b, Entree(av)), BipHorloge(b, Entree(av))}
        \/ f \in {BipMilieu(b, Entree(ap)), BipHorloge(b, Entree(ap))}
    <3> HIDE DEF m
    <3> QED BY <1>2 DEF LedHorloge, m
  <2> QED BY <2>1, <2>2, <2>3
<1>3. CASE en
  <2>1. PICK a \in {av, ap}, r \in BOOLEAN :
            f = BipFin(Verrou(m, Entree(a), r /\ Re1(b), r /\ Re05(b)), Entree(ap))
    BY <1>3 DEF LedHorloge
  <2> DEFINE p == Verrou(m, Entree(a), r /\ Re1(b), r /\ Re05(b))
  <2>2. (r /\ Re1(b)) \in BOOLEAN /\ (r /\ Re05(b)) \in BOOLEAN
    OBVIOUS
  <2> HIDE DEF m
  <2>3. Plein(p)
    BY <1>1, <2>2, VerrouPlein
  <2>4. f = Verrou(p, Entree(ap), Re1(p), Re05(p))
    BY <2>1 DEF BipFin, Re1, Re05, m
  <2> HIDE DEF p
  <2>5. Re1(p) \in BOOLEAN /\ Re05(p) \in BOOLEAN
    BY DEF Re1, Re05, FrontMontant
  <2> QED BY <2>3, <2>4, <2>5, FinPleine, VerrouPlein
<1> QED BY <1>2, <1>3

\* Nor does the reset, which keeps attente_bip.
LEMMA RazPleine ==
    ASSUME NEW b, Plein(b), NEW f \in {BipRaz(b), BipHorlogeRaz(b)}
    PROVE  Plein(f)
<1>1. b \in Bips
  BY DEF Plein
<1>2. f \in Bips
  <2>1. BipRaz(b) \in Bips
    BY <1>1, BipAssumption DEF BipRaz, Bips
  <2>2. BipHorlogeRaz(b) \in Bips
    BY <1>1, BipAssumption DEF BipHorlogeRaz, Bips, FinUn, FinDemi
  <2> QED BY <2>1, <2>2
<1>3. f.un = 0 /\ f.demi = 0
  BY DEF BipRaz, BipHorlogeRaz
<1> QED BY <1>2, <1>3, BipAssumption DEF Plein

--------------------------------------------------------------------------------
\* The blinking.

\* The flip-flops of the edge detectors take no part in it.
LEMMA FlipFlops ==
    ASSUME NEW b, Alterne(b), NEW u \in BOOLEAN, NEW v \in BOOLEAN
    PROVE  Alterne([b EXCEPT !.s1 = u, !.s05 = v])
<1> DEFINE f == [b EXCEPT !.s1 = u, !.s05 = v]
<1>1. b \in Bips
  BY DEF Alterne, Plein
<1>3. f \in Bips /\ f.act = b.act /\ f.att = b.att /\ f.un = b.un /\ f.demi = b.demi
  BY <1>1 DEF Bips
<1> QED BY <1>3 DEF Alterne, Plein

\* Its latches stay opposite, and close only when their counters are at an end.
LEMMA EclairAlterne ==
    ASSUME NEW b, Alterne(b), NEW r1 \in BOOLEAN, NEW r05 \in BOOLEAN,
           r1 => b.un \in {0, UneSec}, r05 => b.demi \in {0, DemiSec}
    PROVE  LET f == Eclair(b, r1, r05)
           IN  Alterne(f) /\ f.un = b.un /\ f.demi = b.demi
<1> DEFINE f == Eclair(b, r1, r05)
<1>1. /\ b \in Bips /\ b.un <= UneSec /\ b.demi <= DemiSec
      /\ (b.act \/ b.un \in {0, UneSec}) /\ (b.att \/ b.demi \in {0, DemiSec})
      /\ b.att = ~b.act
  BY DEF Alterne, Plein
<1>2. b.act \in BOOLEAN /\ b.att \in BOOLEAN
  BY <1>1, Champs
<1>3. /\ f \in Bips /\ f.un = b.un /\ f.demi = b.demi
      /\ f.act = (r05 \/ (~r1 /\ b.act))
      /\ f.att = (~r05 /\ (b.att \/ r1))
  BY <1>1, <1>2 DEF Eclair, Bips
<1> HIDE DEF f
<1>4. f.act \in BOOLEAN /\ f.att \in BOOLEAN
  BY <1>3, Champs
<1>5. f.att = ~f.act
  BY <1>1, <1>2, <1>3, <1>4
<1>6. f.act \/ f.un \in {0, UneSec}
  BY <1>1, <1>3
<1>7. f.att \/ f.demi \in {0, DemiSec}
  BY <1>1, <1>3
<1> QED BY <1>1, <1>3, <1>5, <1>6, <1>7 DEF Alterne, Plein, f

\* An edge of the clock, in standby or not, keeps it lit or dark.
LEMMA ClignoteHorlogeAlterne ==
    ASSUME NEW b, Alterne(b), NEW en1 \in BOOLEAN, NEW en \in BOOLEAN,
           NEW f \in ClignoteHorloge(b, en1, en)
    PROVE  Alterne(f)
<1> DEFINE m == BipCompteurs(b)
<1>1. /\ Alterne(m) /\ (Re1(b) => m.un = 0) /\ (Re05(b) => m.demi = 0)
  BY CompteursPleins DEF Alterne
<1>2. CASE ~en
  <2>1. f = m \/ f = Eclair(m, Re1(m), Re05(m))
    BY <1>2 DEF ClignoteHorloge
  <2>2. Re1(m) \in BOOLEAN /\ Re05(m) \in BOOLEAN
    BY DEF Re1, Re05, FrontMontant
  <2> HIDE DEF m
  <2>3. (Re1(m) => m.un = UneSec) /\ (Re05(m) => m.demi = DemiSec)
    BY <1>1, FinPleine DEF Alterne
  <2> QED BY <1>1, <2>1, <2>2, <2>3, EclairAlterne
<1>3. CASE en
  <2>1. PICK r \in BOOLEAN :
            f = Eclair(Eclair(m, r /\ Re1(b), r /\ Re05(b)), Re1(m), Re05(m))
    BY <1>3 DEF ClignoteHorloge
  <2> DEFINE p == Eclair(m, r /\ Re1(b), r /\ Re05(b))
  <2>2. (r /\ Re1(b)) \in BOOLEAN /\ (r /\ Re05(b)) \in BOOLEAN
    OBVIOUS
  <2>3. Re1(m) \in BOOLEAN /\ Re05(m) \in BOOLEAN
    BY DEF Re1, Re05, FrontMontant
  <2> HIDE DEF m
  <2>4. Alterne(p) /\ p.un = m.un /\ p.demi = m.demi
    BY <1>1, <2>2, EclairAlterne
  <2>5. (Re1(m) => p.un = UneSec) /\ (Re05(m) => p.demi = DemiSec)
    BY <1>1, <2>4, FinPleine DEF Alterne
  <2>6. f = Eclair(p, Re1(m), Re05(m))
    BY <2>1
  <2> HIDE DEF p
  <2> QED BY <2>3, <2>4, <2>5, <2>6, EclairAlterne
<1> QED BY <1>2, <1>3

\* So does the reset, which holds the counters and neither latch.
LEMMA ClignoteRazAlterne ==
    ASSUME NEW b, Alterne(b), NEW f \in ClignoteRaz(b) \cup ClignoteHorlogeRaz(b)
    PROVE  Alterne(f)
<1>1. ASSUME NEW g \in ClignoteRaz(b) PROVE Alterne(g) /\ g.un = 0 /\ g.demi = 0
  <2>1. PICK r \in BOOLEAN :
            g = [Eclair(b, r /\ Re1(b), r /\ Re05(b)) EXCEPT !.un = 0, !.demi = 0]
    BY <1>1 DEF ClignoteRaz
  <2> DEFINE p == Eclair(b, r /\ Re1(b), r /\ Re05(b))
  <2>2. (r /\ Re1(b)) \in BOOLEAN /\ (r /\ Re05(b)) \in BOOLEAN
    OBVIOUS
  <2>3. (Re1(b) => b.un = UneSec) /\ (Re05(b) => b.demi = DemiSec)
    BY FinPleine DEF Alterne
  <2>4. Alterne(p)
    BY <2>2, <2>3, EclairAlterne
  <2>5. g = [p EXCEPT !.un = 0, !.demi = 0]
    BY <2>1
  <2> HIDE DEF p
  <2>6. p \in Bips /\ p.att = ~p.act
    BY <2>4 DEF Alterne, Plein
  <2>7. g \in Bips /\ g.un = 0 /\ g.demi = 0 /\ g.att = p.att /\ g.act = p.act
    <3>1. 0 \in 0..MaxUn /\ 0 \in 0..MaxDemi
      BY BipAssumption
    <3>2. p \in Bips
      BY <2>6
    <3> QED BY <2>5, <3>1, <3>2 DEF Bips
  <2>8. g.att = ~g.act
    BY <2>6, <2>7
  <2>9. Plein(g)
    BY <2>7, BipAssumption DEF Plein
  <2> QED BY <2>7, <2>8, <2>9 DEF Alterne
<1>2. CASE f \in ClignoteRaz(b)
  BY <1>1, <1>2
<1>3. CASE f \in ClignoteHorlogeRaz(b)
  <2>1. PICK g \in ClignoteRaz(b) : f = [g EXCEPT !.s1 = FinUn(b), !.s05 = FinDemi(b)]
    BY <1>3 DEF ClignoteHorlogeRaz
  <2>2. FinUn(b) \in BOOLEAN /\ FinDemi(b) \in BOOLEAN
    BY DEF FinUn, FinDemi
  <2> QED BY <1>1, <2>1, <2>2, FlipFlops
<1> QED BY <1>2, <1>3

--------------------------------------------------------------------------------
\* The block.

\* The machine seen by the LEDs keeps its types.
LEMMA VueType ==
    ASSUME TypeOK, [Next]_vars
    PROVE  /\ raz_n' \in BOOLEAN /\ btn' \in [Cotes -> BOOLEAN] /\ barre' \in Reponses
           /\ cur' \in Etats /\ next' \in Etats
<1> USE DEF TypeOK, Etats, EtatsVeille, EtatsTransitoires, EtatsTransitoires1, EtatsTransitoires10
<1>1. ASSUME NEW n \in Etats, NEW e \in Etats, NEW bt PROVE Settle(n, e, bt) \subseteq Etats
  <2>1. Suivants(e, bt) \subseteq Etats
    BY DEF Suivants
  <2> QED BY <1>1, <2>1 DEF Settle
<1>2. CASE Horloge
  BY <1>1, <1>2 DEF Horloge, VueHorloge
<1>3. CASE HorlogeEnRaz
  BY <1>3 DEF HorlogeEnRaz, VueHorlogeEnRaz
<1>4. CASE Raz
  <2>1. "STBY" \in Etats
    OBVIOUS
  <2>2. next' \in Etats
    BY <1>1, <1>4, <2>1 DEF Raz, VueRaz
  <2> QED BY <1>4, <2>1, <2>2 DEF Raz, VueRaz, Reponses
<1>5. ASSUME NEW x \in Cotes, Bouton(x) PROVE next' \in Etats /\ btn' \in [Cotes -> BOOLEAN]
                                              /\ UNCHANGED <<raz_n, barre, cur>>
  BY <1>1, <1>5 DEF Bouton, VueBouton
<1>6. CASE \E x \in Cotes : Bouton(x)
  BY <1>5, <1>6
<1>7. CASE UNCHANGED vars
  BY <1>7 DEF vars
<1> QED BY <1>2, <1>3, <1>4, <1>6, <1>7 DEF Next

\* The starboard latch holds a level.
LEMMA VoyantsType ==
    ASSUME TypeOK, [Next]_vars, l' \in Bips, btn' \in [Cotes -> BOOLEAN]
    PROVE  trib' \in BOOLEAN
<1>1. l'.act \in BOOLEAN
  BY Champs
<1>2. ASSUME Voyants PROVE trib' \in BOOLEAN
  BY <1>1, <1>2 DEF Voyants, Tribord, TypeOK, Cotes
<1>3. CASE UNCHANGED vars
  BY <1>3 DEF vars, TypeOK
<1> QED BY <1>2, <1>3 DEF Next, Horloge, HorlogeEnRaz, Raz, Bouton

\* The inductive step.
LEMMA EtapeInv == InvLeds /\ [Next]_vars => InvLeds'
<1> SUFFICES ASSUME InvLeds, [Next]_vars PROVE InvLeds'
  OBVIOUS
<1>1. TypeOK /\ Plein(l) /\ Alterne(c)
  BY DEF InvLeds, TypeOK, FlashPlein, ClignoteSain, Plein, Alterne
<1>2. Plein(l') /\ Alterne(c')
  <2>1. CASE Horloge
    <3>1. /\ ModeLeds(next) \in BOOLEAN /\ (~ModeLeds(next)) \in BOOLEAN
          /\ ModeLeds(cur) \in BOOLEAN /\ (~ModeLeds(cur)) \in BOOLEAN
      BY DEF ModeLeds
    <3>2. /\ l' \in LedHorloge(l, ModeLeds(cur), ModeLeds(next), barre, barre')
          /\ c' \in ClignoteHorloge(c, ~ModeLeds(cur), ~ModeLeds(next))
      BY <2>1 DEF Horloge
    <3>3. Plein(l')
      BY <1>1, <3>1, <3>2, LedHorlogePleine
    <3>4. Alterne(c')
      BY <1>1, <3>1, <3>2, ClignoteHorlogeAlterne
    <3> QED BY <3>3, <3>4
  <2>2. CASE HorlogeEnRaz
    <3>1. Plein(l')
      BY <1>1, <2>2, RazPleine DEF HorlogeEnRaz
    <3>2. FinUn(c) \in BOOLEAN /\ FinDemi(c) \in BOOLEAN
      BY DEF FinUn, FinDemi
    <3>3. Alterne(c')
      BY <1>1, <2>2, <3>2, FlipFlops DEF HorlogeEnRaz
    <3> QED BY <3>1, <3>3
  <2>3. CASE Raz
    <3>1. l' \in {BipRaz(l), BipHorlogeRaz(l)} /\ c' \in ClignoteRaz(c) \cup ClignoteHorlogeRaz(c)
      BY <2>3 DEF Raz
    <3> QED BY <1>1, <3>1, RazPleine, ClignoteRazAlterne
  <2>4. CASE (\E x \in Cotes : Bouton(x)) \/ UNCHANGED vars
    <3>1. l' = l /\ c' = c
      BY <2>4 DEF Bouton, vars
    <3> QED BY <1>1, <3>1
  <2> QED BY <2>1, <2>2, <2>3, <2>4 DEF Next
<1>3. /\ l' \in Bips /\ c' \in Bips
  BY <1>2 DEF Plein, Alterne
<1>4. TypeOK'
  BY <1>1, <1>3, VueType, VoyantsType DEF TypeOK
<1> QED BY <1>2, <1>4 DEF InvLeds, FlashPlein, ClignoteSain, Plein, Alterne

\* The inductive invariant of the LEDs: types, flashes and blinking, resets and changes
\* of mode included.
THEOREM Invariant == Spec => []InvLeds
<1>1. Init => InvLeds
  <2> SUFFICES ASSUME Init PROVE InvLeds
    OBVIOUS
  <2>1. /\ l \in Bips /\ l.un = 0 /\ l.demi = 0 /\ ~l.act /\ ~l.att
        /\ c \in Bips /\ c.un = 0 /\ c.demi = 0 /\ c.act = TRUE /\ c.att = FALSE
    <3>1. BipInitial \in Bips /\ ClignoteInitial = [BipInitial EXCEPT !.act = TRUE]
      BY BipInitialSain DEF ClignoteInitial
    <3>2. ClignoteInitial \in Bips
      BY <3>1 DEF Bips
    <3>3. /\ ClignoteInitial.un = 0 /\ ClignoteInitial.demi = 0
          /\ ClignoteInitial.act = TRUE /\ ClignoteInitial.att = FALSE
      BY DEF ClignoteInitial, BipInitial
    <3> QED BY <3>1, <3>2, <3>3 DEF Init, BipInitial
  <2>2. TypeOK
    BY <2>1 DEF Init, VueInit, TypeOK, Etats, EtatsVeille, Reponses
  <2>3. FlashPlein /\ ClignoteSain
    BY <2>1 DEF FlashPlein, ClignoteSain
  <2> QED BY <2>1, <2>2, <2>3, BipAssumption DEF InvLeds
<1> QED BY <1>1, EtapeInv, PTL DEF Spec

\* Registers and latches of the LEDs keep their types, no counter leaves its width.
THEOREM TypeCorrect == Spec => []TypeOK
<1>1. InvLeds => TypeOK
  BY DEF InvLeds
<1> QED BY <1>1, Invariant, PTL

--------------------------------------------------------------------------------
\* Manual steering is shown.

\* What BarreMontree rests on: STBY_tribord is on its way from standby only, and never
\* while port is down.
InvMontree ==
    /\ BarreMontree
    /\ next = "STBY_tribord" => cur \in {"STBY", "STBY_tribord"}
    /\ next = "STBY_tribord" /\ cur = "STBY" => ~btn["babord"]

\* What the decoding of the next state gives the two states of manual steering: each
\* is kept while its button is down, and STBY_tribord comes from standby with port up.
LEMMA SettleCotes ==
    ASSUME NEW e \in Etats, NEW n, NEW bt, NEW m \in Settle(n, e, bt)
    PROVE  /\ e = "STBY_babord" /\ m = e => n = e /\ bt["babord"]
           /\ e = "STBY_tribord" /\ m = e => n = e /\ bt["tribord"]
           /\ m = "STBY_tribord" => n = m \/ e = "STBY"
           /\ m = "STBY_tribord" /\ e = "STBY" => ~bt["babord"]
<1> USE DEF Etats, EtatsVeille, EtatsTransitoires, EtatsTransitoires1, EtatsTransitoires10
<1>1. CASE m \in Suivants(e, bt)
  <2>1. CASE e = "STBY"
    BY <1>1, <2>1 DEF Suivants
  <2>2. CASE e # "STBY"
    BY <1>1, <2>2 DEF Suivants
  <2> QED BY <2>1, <2>2
<1>2. CASE m = n /\ Tient(e, bt)
  BY <1>2 DEF Tient
<1> QED BY <1>1, <1>2 DEF Settle

\* The inductive step.
LEMMA EtapeMontree == TypeOK /\ InvMontree /\ [Next]_vars => InvMontree'
<1> SUFFICES ASSUME TypeOK, InvMontree, [Next]_vars PROVE InvMontree'
  OBVIOUS
<1>1. CASE UNCHANGED vars
  BY <1>1 DEF vars, InvMontree, BarreMontree, Babord, ModeLeds
<1>2. CASE Horloge
  <2>1. /\ cur' = next /\ btn' = btn /\ next' \in Settle(next, next, btn)
        /\ trib' = Tribord(trib, next, l', btn) /\ next \in Etats
    BY <1>2 DEF Horloge, VueHorloge, Voyants, TypeOK
  <2>2. /\ next = "STBY_babord" /\ next' = next => btn["babord"]
        /\ next = "STBY_tribord" /\ next' = next => btn["tribord"]
        /\ next' = "STBY_tribord" => next = next' \/ next = "STBY"
        /\ next' = "STBY_tribord" /\ next = "STBY" => ~btn["babord"]
    BY <2>1, SettleCotes
  <2>3. next = "STBY_tribord" /\ cur = "STBY_tribord" => trib
    BY DEF InvMontree, BarreMontree
  <2>4. next = "STBY_tribord" /\ next' = next => trib'
    BY <2>1, <2>2, <2>3 DEF Tribord, ModeLeds, EtatsVeille, InvMontree
  <2> QED BY <2>1, <2>2, <2>4 DEF InvMontree, BarreMontree, Babord, Tribord, ModeLeds, EtatsVeille
<1>3. CASE HorlogeEnRaz
  BY <1>3 DEF HorlogeEnRaz, VueHorlogeEnRaz, Voyants, InvMontree, BarreMontree, Babord, Tribord,
              ModeLeds, EtatsVeille, TypeOK
<1>4. CASE Raz
  <2>1. /\ cur' = "STBY" /\ btn' = btn /\ trib' = Tribord(trib, "STBY", l', btn)
        /\ \E n \in Etats : next' \in Settle(n, "STBY", btn)
    BY <1>4 DEF Raz, VueRaz, Voyants
  <2>2. "STBY" \in Etats
    BY DEF Etats, EtatsVeille
  <2>3. next' = "STBY_tribord" => ~btn["babord"]
    BY <2>1, <2>2, SettleCotes
  <2> QED BY <2>1, <2>3 DEF InvMontree, BarreMontree, Tribord, ModeLeds, EtatsVeille
<1>5. ASSUME NEW x \in Cotes, Bouton(x) PROVE InvMontree'
  <2>1. /\ cur' = cur /\ next' \in Settle(next, cur, btn') /\ cur \in Etats
        /\ trib' = Tribord(trib, cur, l', btn')
    BY <1>5 DEF Bouton, VueBouton, Voyants, TypeOK
  <2>2. /\ cur = "STBY_babord" /\ next' = cur => next = cur /\ btn'["babord"]
        /\ cur = "STBY_tribord" /\ next' = cur => next = cur /\ btn'["tribord"]
        /\ next' = "STBY_tribord" => next = next' \/ cur = "STBY"
        /\ next' = "STBY_tribord" /\ cur = "STBY" => ~btn'["babord"]
    BY <2>1, SettleCotes
  <2>3. next = "STBY_tribord" /\ cur = "STBY_tribord" => trib
    BY DEF InvMontree, BarreMontree
  <2> QED BY <2>1, <2>2, <2>3 DEF InvMontree, BarreMontree, Babord, Tribord, ModeLeds,
             EtatsVeille
<1> QED BY <1>1, <1>2, <1>3, <1>4, <1>5 DEF Next

\* While the machine stays in STBY_babord or STBY_tribord the LED of that side is lit, in
\* whatever order the buttons went down (the latch of gestion_leds.vhd:98-105).
THEOREM BarreToujoursMontree == Spec => []BarreMontree
<1>1. Init => InvMontree
  BY DEF Init, VueInit, InvMontree, BarreMontree
<1>2. InvMontree => BarreMontree
  BY DEF InvMontree
<1> QED BY <1>1, <1>2, EtapeMontree, TypeCorrect, PTL DEF Spec
--------------------------------------------------------------------------------
\* How long: the blinking.

\* The edges of the clock before a counter reaches its end, one that stands at its end
\* starting again.
ResteUn(d)   == IF d.un = UneSec THEN UneSec + 1 ELSE UneSec - d.un
ResteDemi(d) == IF d.demi = DemiSec THEN DemiSec + 1 ELSE DemiSec - d.demi

\* What is left of the lit or of the dark under way, and how long either lasts.
Phase(d)    == IF d.act THEN ResteUn(d) ELSE ResteDemi(d)
Entiere(d)  == IF d.act THEN UneSec ELSE DemiSec

\* A phase that automatic mode froze at its very end, or let run past it.
AuBout(d) == IF d.act THEN d.un = UneSec ELSE d.demi = DemiSec

\* The two latches after an edge in standby: the end of a counter switches them, and so
\* may one that the period before left standing.
LEMMA EclairEffet ==
    ASSUME NEW b, Alterne(b), NEW en1 \in BOOLEAN, NEW en \in BOOLEAN, en,
           NEW f \in ClignoteHorloge(b, en1, en)
    PROVE  LET m == BipCompteurs(b)
           IN  /\ f.un = m.un /\ f.demi = m.demi
               /\ \E x, y \in BOOLEAN :
                    /\ x => b.un = UneSec
                    /\ y => b.demi = DemiSec
                    /\ f.act <=> \/ m.demi = DemiSec
                                 \/ m.un # UneSec /\ (y \/ (~x /\ b.act))
<1> DEFINE m == BipCompteurs(b)
<1>1. PICK r \in BOOLEAN :
          f = Eclair(Eclair(m, r /\ Re1(b), r /\ Re05(b)), Re1(m), Re05(m))
  BY DEF ClignoteHorloge
<1> DEFINE x == r /\ Re1(b)
           y == r /\ Re05(b)
<1>2. Alterne(m) /\ m.act = b.act
  BY CompteursPleins DEF Alterne
<1>3. b \in Bips /\ b.un \in 0..UneSec /\ b.demi \in 0..DemiSec
  BY Champs, BipAssumption DEF Alterne, Plein
<1>4. /\ m.un = IF b.un = UneSec THEN 0 ELSE IF b.act THEN b.un + 1 ELSE b.un
      /\ m.demi = IF b.demi = DemiSec THEN 0 ELSE IF b.att THEN b.demi + 1 ELSE b.demi
      /\ m.s1 <=> b.un = UneSec
      /\ m.s05 <=> b.demi = DemiSec
      /\ m \in Bips
  BY <1>3, CompteursAvancent
<1>5. x \in BOOLEAN /\ y \in BOOLEAN /\ (x => b.un = UneSec) /\ (y => b.demi = DemiSec)
  BY FinPleine DEF Alterne
<1> HIDE DEF m
<1>6. m.un \in 0..UneSec /\ m.demi \in 0..DemiSec
  BY <1>2, <1>4, Champs, BipAssumption DEF Alterne, Plein
<1>7. (Re1(m) <=> m.un = UneSec) /\ (Re05(m) <=> m.demi = DemiSec)
  BY <1>3, <1>4, <1>6, BipAssumption DEF Re1, Re05, FrontMontant, FinUn, FinDemi
<1> HIDE DEF x, y
<1> DEFINE p == Eclair(m, x, y)
<1>8. p.un = m.un /\ p.demi = m.demi /\ (p.act <=> (y \/ (~x /\ m.act))) /\ p \in Bips
  <2>1. m.act \in BOOLEAN /\ m.att \in BOOLEAN
    BY <1>4, Champs
  <2> QED BY <1>4, <1>5, <2>1 DEF Eclair, Bips
<1>9. f = Eclair(p, Re1(m), Re05(m))
  BY <1>1 DEF x, y
<1> HIDE DEF p
<1>10. f.un = p.un /\ f.demi = p.demi /\ (f.act <=> (Re05(m) \/ (~Re1(m) /\ p.act)))
  BY <1>8, <1>9 DEF Eclair, Bips
<1>11. f.un = m.un /\ f.demi = m.demi
  BY <1>8, <1>10
<1>12. f.act <=> (m.demi = DemiSec \/ (m.un # UneSec /\ (y \/ (~x /\ b.act))))
  BY <1>2, <1>7, <1>8, <1>10
<1> QED BY <1>5, <1>11, <1>12 DEF m

\* One edge in standby: the phase goes on, one edge shorter, or the next one begins.
LEMMA Rythme ==
    ASSUME NEW b, Alterne(b), NEW en1 \in BOOLEAN, NEW en \in BOOLEAN, en,
           NEW f \in ClignoteHorloge(b, en1, en)
    PROVE  \/ (f.act <=> b.act) /\ Phase(f) = Phase(b) - 1
           \/ /\ ~(f.act <=> b.act)
              /\ Phase(b) = 1 \/ AuBout(b)
              /\ Phase(f) = Entiere(f)
<1> USE BipAssumption
<1> DEFINE m == BipCompteurs(b)
<1>1. b \in Bips /\ b.un \in 0..UneSec /\ b.demi \in 0..DemiSec
  BY Champs DEF Alterne, Plein
<1>2. (b.act \/ b.un \in {0, UneSec}) /\ (b.att \/ b.demi \in {0, DemiSec})
      /\ (b.att <=> ~b.act)
  BY <1>1, Champs DEF Alterne, Plein
<1>3. /\ m.un = IF b.un = UneSec THEN 0 ELSE IF b.act THEN b.un + 1 ELSE b.un
      /\ m.demi = IF b.demi = DemiSec THEN 0 ELSE IF b.att THEN b.demi + 1 ELSE b.demi
  BY <1>1, CompteursAvancent
<1>4. f.un = m.un /\ f.demi = m.demi
  BY EclairEffet
<1>5. PICK x, y \in BOOLEAN :
          /\ x => b.un = UneSec
          /\ y => b.demi = DemiSec
          /\ f.act <=> \/ m.demi = DemiSec
                       \/ m.un # UneSec /\ (y \/ (~x /\ b.act))
  BY EclairEffet
<1> HIDE DEF m
<1>6. CASE b.act
  <2>1. m.demi = 0 /\ f.demi = 0
    BY <1>2, <1>3, <1>4, <1>6
  <2>2. CASE b.un = UneSec
    <3>1. m.un = 0 /\ f.un = 0
      BY <1>3, <1>4, <2>2
    <3>2. Phase(b) = UneSec + 1 /\ AuBout(b)
      BY <1>6, <2>2 DEF Phase, ResteUn, AuBout
    <3>3. f.act => Phase(f) = UneSec
      BY <3>1 DEF Phase, ResteUn
    <3>4. ~f.act => Phase(f) = DemiSec /\ Entiere(f) = DemiSec
      BY <2>1 DEF Phase, ResteDemi, Entiere
    <3> QED BY <1>6, <3>2, <3>3, <3>4
  <2>3. CASE b.un = UneSec - 1
    <3>1. m.un = UneSec
      BY <1>1, <1>3, <1>6, <2>3
    <3>2. ~f.act
      BY <1>5, <2>1, <3>1
    <3>3. Phase(b) = 1
      BY <1>6, <2>3 DEF Phase, ResteUn
    <3>4. Phase(f) = DemiSec /\ Entiere(f) = DemiSec
      BY <2>1, <3>2 DEF Phase, ResteDemi, Entiere
    <3> QED BY <1>6, <3>2, <3>3, <3>4
  <2>4. CASE b.un < UneSec - 1
    <3>1. m.un = b.un + 1 /\ f.un = b.un + 1 /\ m.un # UneSec /\ b.un # UneSec
      BY <1>1, <1>3, <1>4, <1>6, <2>4
    <3>2. f.act
      BY <1>5, <1>6, <3>1
    <3>3. Phase(b) = UneSec - b.un
      BY <1>6, <3>1 DEF Phase, ResteUn
    <3>4. Phase(f) = UneSec - (b.un + 1)
      BY <3>1, <3>2 DEF Phase, ResteUn
    <3> QED BY <1>1, <1>6, <3>2, <3>3, <3>4
  <2> QED BY <1>1, <2>2, <2>3, <2>4
<1>7. CASE ~b.act
  <2>1. m.un = 0 /\ f.un = 0 /\ m.un # UneSec
    BY <1>2, <1>3, <1>4, <1>7
  <2>2. CASE b.demi = DemiSec
    <3>1. m.demi = 0 /\ f.demi = 0
      BY <1>3, <1>4, <2>2
    <3>2. Phase(b) = DemiSec + 1 /\ AuBout(b)
      BY <1>7, <2>2 DEF Phase, ResteDemi, AuBout
    <3>3. ~f.act => Phase(f) = DemiSec
      BY <3>1 DEF Phase, ResteDemi
    <3>4. f.act => Phase(f) = UneSec /\ Entiere(f) = UneSec
      BY <2>1 DEF Phase, ResteUn, Entiere
    <3> QED BY <1>7, <3>2, <3>3, <3>4
  <2>3. CASE b.demi = DemiSec - 1
    <3>1. m.demi = DemiSec
      BY <1>1, <1>2, <1>3, <1>7, <2>3
    <3>2. f.act
      BY <1>5, <3>1
    <3>3. Phase(b) = 1
      BY <1>7, <2>3 DEF Phase, ResteDemi
    <3>4. Phase(f) = UneSec /\ Entiere(f) = UneSec
      BY <2>1, <3>2 DEF Phase, ResteUn, Entiere
    <3> QED BY <1>7, <3>2, <3>3, <3>4
  <2>4. CASE b.demi < DemiSec - 1
    <3>1. m.demi = b.demi + 1 /\ f.demi = b.demi + 1 /\ m.demi # DemiSec /\ b.demi # DemiSec
      BY <1>1, <1>2, <1>3, <1>4, <1>7, <2>4
    <3>2. ~f.act
      BY <1>5, <1>7, <3>1
    <3>3. Phase(b) = DemiSec - b.demi
      BY <1>7, <3>1 DEF Phase, ResteDemi
    <3>4. Phase(f) = DemiSec - (b.demi + 1)
      BY <3>1, <3>2 DEF Phase, ResteDemi
    <3> QED BY <1>1, <1>7, <3>2, <3>3, <3>4
  <2> QED BY <1>1, <2>2, <2>3, <2>4
<1> QED BY <1>6, <1>7

\* What the invariant says of the two records.
LEMMA InvPlein == InvLeds => Plein(l) /\ Alterne(c)
BY DEF InvLeds, TypeOK, FlashPlein, ClignoteSain, Plein, Alterne

\* The rhythm of the LED of STBY/AUTO, to the edge: in standby a phase is one edge
\* shorter at every edge of the clock, and when it is over the other one begins in full;
\* the first phase after automatic mode lasts one edge more than in full at most, and may
\* be cut short if automatic mode left it at its end (gestion_leds.vhd:111-119).
THEOREM RythmeTenu ==
    Spec => /\ [](Phase(c) \in 1..(Entiere(c) + 1))
            /\ [][ Horloge /\ ~ModeLeds(next)
                   => \/ (c'.act <=> c.act) /\ Phase(c') = Phase(c) - 1
                      \/ /\ ~(c'.act <=> c.act)
                         /\ Phase(c) = 1 \/ AuBout(c)
                         /\ Phase(c') = Entiere(c') ]_vars
<1> DEFINE A == Horloge /\ ~ModeLeds(next)
                => \/ (c'.act <=> c.act) /\ Phase(c') = Phase(c) - 1
                   \/ /\ ~(c'.act <=> c.act)
                      /\ Phase(c) = 1 \/ AuBout(c)
                      /\ Phase(c') = Entiere(c')
<1>1. InvLeds => Phase(c) \in 1..(Entiere(c) + 1)
  <2> SUFFICES ASSUME InvLeds PROVE Phase(c) \in 1..(Entiere(c) + 1)
    OBVIOUS
  <2>1. c \in Bips /\ c.un <= UneSec /\ c.demi <= DemiSec
    BY InvPlein DEF Alterne, Plein
  <2>2. c.un \in Nat /\ c.demi \in Nat
    BY <2>1, Champs
  <2> QED BY <2>1, <2>2, BipAssumption DEF Phase, Entiere, ResteUn, ResteDemi
<1>2. InvLeds /\ [Next]_vars => [A]_vars
  <2> SUFFICES ASSUME InvLeds, Horloge, ~ModeLeds(next)
               PROVE  \/ (c'.act <=> c.act) /\ Phase(c') = Phase(c) - 1
                      \/ /\ ~(c'.act <=> c.act)
                         /\ Phase(c) = 1 \/ AuBout(c)
                         /\ Phase(c') = Entiere(c')
    OBVIOUS
  <2>1. c' \in ClignoteHorloge(c, ~ModeLeds(cur), ~ModeLeds(next)) /\ Alterne(c)
    BY InvPlein DEF Horloge
  <2>2. (~ModeLeds(cur)) \in BOOLEAN /\ (~ModeLeds(next)) \in BOOLEAN
    BY DEF ModeLeds
  <2> QED BY <2>1, <2>2, Rythme
<1> QED BY <1>1, <1>2, Invariant, PTL DEF Spec
--------------------------------------------------------------------------------
\* How long: the flashes.

\* What is left of the sounds that the flashes owe.  A silence is followed by a flash at
\* most; a flash with a second one due, by a silence and a flash; and an end that an edge
\* in automatic mode may still catch when that mode comes back counts as not yet over.
ResteFlash(d) ==
    IF d.att THEN ResteDemi(d) + UneSec + 1
    ELSE IF d.choix /\ (d.act \/ d.un = UneSec) THEN ResteUn(d) + DemiSec + UneSec + 1
    ELSE IF d.act THEN ResteUn(d)
    ELSE IF d.demi = DemiSec THEN UneSec + 2
    ELSE 0

\* It is bounded, and null only in the dark.
LEMMA FlashBorne ==
    ASSUME NEW d, Plein(d)
    PROVE  /\ ResteFlash(d) \in 0..(UneSec + DemiSec + UneSec + 2)
           /\ ResteFlash(d) = 0 => ~d.act
<1>1. d \in Bips /\ d.un \in 0..UneSec /\ d.demi \in 0..DemiSec
  BY Champs, BipAssumption DEF Plein
<1>2. ResteUn(d) \in 1..(UneSec + 1) /\ ResteDemi(d) \in 1..(DemiSec + 1)
  BY <1>1, BipAssumption DEF ResteUn, ResteDemi
<1> QED BY <1>2, BipAssumption DEF ResteFlash

\* The answers of the timers of the rudder, none, reach the flashes as none.
LEMMA EntreeMuette == ~Simple(Entree(Rien)) /\ ~Double(Entree(Rien))
BY DEF Simple, Double, Entree, Boutons, Rien, Court, Long

\* The latches after an edge in automatic mode without an answer: act, att and choix are
\* what they were once they had caught, or missed, an end of the period before.
LEMMA LedEffet ==
    ASSUME NEW b, Plein(b), NEW en1 \in BOOLEAN, NEW en \in BOOLEAN, en,
           NEW f \in LedHorloge(b, en1, en, Rien, Rien)
    PROVE  LET m == BipCompteurs(b)
           IN  /\ f.un = m.un /\ f.demi = m.demi
               /\ \E x, y, act, att, choix \in BOOLEAN :
                    /\ x => b.un = UneSec
                    /\ y => b.demi = DemiSec
                    /\ act <=> y \/ (~x /\ b.act)
                    /\ att <=> ~y /\ (b.att \/ (x /\ b.choix))
                    /\ choix <=> ~y /\ b.choix
                    /\ f.act <=> m.demi = DemiSec \/ (m.un # UneSec /\ act)
                    /\ f.att <=> m.demi # DemiSec /\ (att \/ (m.un = UneSec /\ choix))
                    /\ f.choix <=> m.demi # DemiSec /\ choix
<1> DEFINE m == BipCompteurs(b)
<1>1. PICK r \in BOOLEAN :
          f = BipFin(Verrou(m, Entree(Rien), r /\ Re1(b), r /\ Re05(b)), Entree(Rien))
  BY DEF LedHorloge
<1> DEFINE x == r /\ Re1(b)
           y == r /\ Re05(b)
           a == Entree(Rien)
<1>2. Plein(m)
  BY CompteursPleins
<1>3. b \in Bips /\ b.un \in 0..UneSec /\ b.demi \in 0..DemiSec
  BY Champs, BipAssumption DEF Plein
<1>4. /\ m.un = IF b.un = UneSec THEN 0 ELSE IF b.act THEN b.un + 1 ELSE b.un
      /\ m.demi = IF b.demi = DemiSec THEN 0 ELSE IF b.att THEN b.demi + 1 ELSE b.demi
      /\ m.act = b.act /\ m.att = b.att /\ m.choix = b.choix
      /\ m.s1 <=> b.un = UneSec
      /\ m.s05 <=> b.demi = DemiSec
      /\ m \in Bips
  BY <1>3, CompteursAvancent
<1>5. x \in BOOLEAN /\ y \in BOOLEAN /\ (x => b.un = UneSec) /\ (y => b.demi = DemiSec)
  BY FinPleine
<1>6. ~Simple(a) /\ ~Double(a)
  BY EntreeMuette
<1> HIDE DEF m, x, y, a
<1> DEFINE p == Verrou(m, a, x, y)
<1>7. f = BipFin(p, a)
  BY <1>1 DEF x, y, a
<1>8. p = Verrou(m, a, x, y)
  OBVIOUS
<1>9. p \in Bips
  BY <1>4, <1>5, VerrouType
<1> HIDE DEF p
<1>10. /\ p.un = m.un /\ p.demi = m.demi /\ p.s1 = m.s1 /\ p.s05 = m.s05
       /\ p.act <=> y \/ (~x /\ (m.act \/ Simple(a) \/ Double(a)))
       /\ p.att <=> ~y /\ (m.att \/ (x /\ m.choix))
       /\ p.choix <=> ~y /\ (m.choix \/ Double(a))
  BY <1>8, VerrouEffet
<1>11. /\ p.act <=> y \/ (~x /\ b.act)
       /\ p.att <=> ~y /\ (b.att \/ (x /\ b.choix))
       /\ p.choix <=> ~y /\ b.choix
  BY <1>4, <1>6, <1>10
<1>12. f = Verrou(p, a, Re1(p), Re05(p))
  BY <1>7 DEF BipFin, Re1, Re05
<1>13. /\ f.un = p.un /\ f.demi = p.demi
       /\ f.act <=> Re05(p) \/ (~Re1(p) /\ (p.act \/ Simple(a) \/ Double(a)))
       /\ f.att <=> ~Re05(p) /\ (p.att \/ (Re1(p) /\ p.choix))
       /\ f.choix <=> ~Re05(p) /\ (p.choix \/ Double(a))
  BY <1>12, VerrouEffet
<1>14. m.un \in 0..UneSec /\ m.demi \in 0..DemiSec
  BY <1>2, <1>4, Champs, BipAssumption DEF Plein
<1>15. (Re1(p) <=> m.un = UneSec) /\ (Re05(p) <=> m.demi = DemiSec)
  BY <1>3, <1>4, <1>10, <1>14, BipAssumption DEF Re1, Re05, FrontMontant, FinUn, FinDemi
<1>16. /\ f.act <=> m.demi = DemiSec \/ (m.un # UneSec /\ p.act)
       /\ f.att <=> m.demi # DemiSec /\ (p.att \/ (m.un = UneSec /\ p.choix))
       /\ f.choix <=> m.demi # DemiSec /\ p.choix
  BY <1>6, <1>13, <1>15
<1>17. f.un = m.un /\ f.demi = m.demi
  BY <1>10, <1>13
<1>18. p.act \in BOOLEAN /\ p.att \in BOOLEAN /\ p.choix \in BOOLEAN
  BY <1>9, Champs
<1> QED BY <1>5, <1>11, <1>16, <1>17, <1>18 DEF m
\* One edge in automatic mode without an answer: less is left, or nothing for good.
LEMMA FlashSEteint ==
    ASSUME NEW b, Plein(b), NEW en1 \in BOOLEAN, NEW en \in BOOLEAN, en,
           NEW f \in LedHorloge(b, en1, en, Rien, Rien)
    PROVE  ResteFlash(f) < ResteFlash(b) \/ (ResteFlash(b) = 0 /\ ResteFlash(f) = 0)
<1> USE BipAssumption
<1> DEFINE m == BipCompteurs(b)
<1>1. b \in Bips /\ b.un \in 0..UneSec /\ b.demi \in 0..DemiSec
  BY Champs DEF Plein
<1>2. (b.act \/ b.un \in {0, UneSec}) /\ (b.att \/ b.demi \in {0, DemiSec})
  BY DEF Plein
<1>3. /\ m.un = IF b.un = UneSec THEN 0 ELSE IF b.act THEN b.un + 1 ELSE b.un
      /\ m.demi = IF b.demi = DemiSec THEN 0 ELSE IF b.att THEN b.demi + 1 ELSE b.demi
  BY <1>1, CompteursAvancent
<1>4. f.un = m.un /\ f.demi = m.demi
  BY LedEffet
<1>5. PICK x, y, act, att, choix \in BOOLEAN :
          /\ x => b.un = UneSec
          /\ y => b.demi = DemiSec
          /\ act <=> y \/ (~x /\ b.act)
          /\ att <=> ~y /\ (b.att \/ (x /\ b.choix))
          /\ choix <=> ~y /\ b.choix
          /\ f.act <=> m.demi = DemiSec \/ (m.un # UneSec /\ act)
          /\ f.att <=> m.demi # DemiSec /\ (att \/ (m.un = UneSec /\ choix))
          /\ f.choix <=> m.demi # DemiSec /\ choix
  BY LedEffet
<1> HIDE DEF m
<1>6. m.un \in 0..UneSec /\ m.demi \in 0..DemiSec
  BY <1>1, <1>3
<1>7. ResteUn(f) \in 1..(UneSec + 1) /\ ResteDemi(f) \in 1..(DemiSec + 1)
  BY <1>4, <1>6 DEF ResteUn, ResteDemi
<1>8. ResteFlash(f) \in Nat
  BY <1>7 DEF ResteFlash
\* Once no second flash is due, a flash is all that may be left.
<1>9. ~f.att /\ ~f.choix /\ (f.act \/ f.demi # DemiSec) => ResteFlash(f) <= UneSec + 1
  BY <1>7 DEF ResteFlash
<1>10. CASE b.att
  <2>1. ResteFlash(b) = ResteDemi(b) + UneSec + 1
    BY <1>10 DEF ResteFlash
  <2>2. CASE b.demi = DemiSec
    <3>1. m.demi = 0 /\ f.demi = 0 /\ ResteDemi(b) = DemiSec + 1
      BY <1>3, <1>4, <2>2 DEF ResteDemi
    <3>2. CASE y
      <4>1. ~f.att /\ ~f.choix
        BY <1>5, <3>2
      <4> QED BY <1>9, <1>8, <2>1, <3>1, <4>1
    <3>3. CASE ~y
      <4>1. f.att
        BY <1>5, <1>10, <3>1, <3>3
      <4>2. ResteFlash(f) = DemiSec + UneSec + 1
        BY <3>1, <4>1 DEF ResteFlash, ResteDemi
      <4> QED BY <2>1, <3>1, <4>2
    <3> QED BY <3>2, <3>3
  <2>3. CASE b.demi = DemiSec - 1
    <3>1. m.demi = DemiSec /\ ResteDemi(b) = 1
      BY <1>1, <1>3, <1>10, <2>3 DEF ResteDemi
    <3>2. f.act /\ ~f.att /\ ~f.choix
      BY <1>5, <3>1
    <3> QED BY <1>9, <1>8, <2>1, <3>1, <3>2
  <2>4. CASE b.demi < DemiSec - 1
    <3>1. m.demi = b.demi + 1 /\ f.demi = b.demi + 1 /\ m.demi # DemiSec /\ b.demi # DemiSec
      BY <1>1, <1>3, <1>4, <1>10, <2>4
    <3>2. f.att
      BY <1>5, <1>10, <3>1
    <3>3. ResteDemi(b) = DemiSec - b.demi
      BY <3>1 DEF ResteDemi
    <3>4. ResteFlash(f) = (DemiSec - (b.demi + 1)) + UneSec + 1
      BY <3>1, <3>2 DEF ResteFlash, ResteDemi
    <3> QED BY <1>1, <2>1, <3>3, <3>4
  <2> QED BY <1>1, <2>2, <2>3, <2>4
<1>11. CASE ~b.att /\ b.choix /\ (b.act \/ b.un = UneSec)
  <2>1. ResteFlash(b) = ResteUn(b) + DemiSec + UneSec + 1
    BY <1>11 DEF ResteFlash
  <2>2. m.demi = 0 /\ f.demi = 0
    BY <1>2, <1>3, <1>4, <1>11
  <2>3. ResteUn(b) \in 1..(UneSec + 1)
    BY <1>1 DEF ResteUn
  <2>4. CASE f.att
    <3>1. ResteFlash(f) = DemiSec + UneSec + 1
      BY <2>2, <2>4 DEF ResteFlash, ResteDemi
    <3> QED BY <2>1, <2>3, <3>1
  <2>5. CASE ~f.att /\ ~f.choix
    <3>1. ResteFlash(f) <= UneSec + 1
      BY <1>9, <2>2, <2>5
    <3> QED BY <1>8, <2>1, <2>3, <3>1
  <2>6. CASE ~f.att /\ f.choix
    <3>1. choix /\ ~y
      BY <1>5, <2>6
    <3>2. m.un # UneSec /\ ~att
      BY <1>5, <2>2, <2>6, <3>1
    <3>3. CASE b.un = UneSec
      <4>1. m.un = 0 /\ f.un = 0 /\ ResteUn(b) = UneSec + 1
        BY <1>3, <1>4, <3>3 DEF ResteUn
      <4>2. ResteFlash(f) <= UneSec + DemiSec + UneSec + 1
        BY <2>2, <2>6, <4>1 DEF ResteFlash, ResteUn
      <4> QED BY <1>8, <2>1, <4>1, <4>2
    <3>4. CASE b.un # UneSec
      <4>1. b.act /\ m.un = b.un + 1 /\ f.un = b.un + 1 /\ ResteUn(b) = UneSec - b.un
        BY <1>3, <1>4, <1>11, <3>4 DEF ResteUn
      <4>2. f.act
        BY <1>5, <3>1, <3>2, <3>4, <4>1
      <4>3. ResteFlash(f) = (UneSec - (b.un + 1)) + DemiSec + UneSec + 1
        BY <2>6, <3>2, <4>1, <4>2 DEF ResteFlash, ResteUn
      <4> QED BY <1>1, <2>1, <4>1, <4>3
    <3> QED BY <3>3, <3>4
  <2> QED BY <2>4, <2>5, <2>6
<1>12. CASE ~b.att /\ ~b.choix /\ b.act
  <2>1. ResteFlash(b) = ResteUn(b)
    BY <1>12 DEF ResteFlash
  <2>2. m.demi = 0 /\ f.demi = 0
    BY <1>2, <1>3, <1>4, <1>12
  <2>3. ~f.att /\ ~f.choix
    BY <1>5, <1>12
  <2>4. CASE f.act
    <3>1. m.un # UneSec /\ f.un # UneSec
      BY <1>4, <1>5, <2>2, <2>4
    <3>2. ResteFlash(f) = UneSec - m.un
      BY <1>4, <2>3, <2>4, <3>1 DEF ResteFlash, ResteUn
    <3>3. CASE b.un = UneSec
      <4>1. m.un = 0 /\ ResteUn(b) = UneSec + 1
        BY <1>3, <3>3 DEF ResteUn
      <4> QED BY <2>1, <3>2, <4>1
    <3>4. CASE b.un # UneSec
      <4>1. m.un = b.un + 1 /\ ResteUn(b) = UneSec - b.un
        BY <1>3, <1>12, <3>4 DEF ResteUn
      <4> QED BY <1>1, <2>1, <3>2, <4>1
    <3> QED BY <3>3, <3>4
  <2>5. CASE ~f.act
    <3>1. ResteFlash(f) = 0
      BY <2>2, <2>3, <2>5 DEF ResteFlash
    <3>2. ResteUn(b) > 0
      BY <1>1 DEF ResteUn
    <3> QED BY <2>1, <3>1, <3>2
  <2> QED BY <2>4, <2>5
<1>13. CASE ~b.att /\ ~b.act /\ ~(b.choix /\ b.un = UneSec)
  <2>1. m.un = 0 /\ f.un = 0 /\ m.demi = 0 /\ f.demi = 0
    BY <1>2, <1>3, <1>4, <1>13
  <2>2. ~f.att
    BY <1>5, <1>13, <2>1
  <2>3. CASE b.demi = DemiSec
    <3>1. ResteFlash(b) = UneSec + 2
      BY <1>13, <2>3 DEF ResteFlash
    <3>2. f.act => ~f.choix
      BY <1>5, <1>13, <2>1
    <3>3. ResteFlash(f) <= UneSec
      BY <2>1, <2>2, <3>2 DEF ResteFlash, ResteUn
    <3> QED BY <1>8, <3>1, <3>3
  <2>4. CASE b.demi # DemiSec
    <3>1. ~f.act
      BY <1>5, <1>13, <2>1, <2>4
    <3>2. ResteFlash(f) = 0 /\ ResteFlash(b) = 0
      BY <1>13, <2>1, <2>2, <2>4, <3>1 DEF ResteFlash
    <3> QED BY <3>2
  <2> QED BY <2>3, <2>4
<1> QED BY <1>10, <1>11, <1>12, <1>13

\* A flash ends, even one that standby froze: in automatic mode every edge of the clock
\* without an answer lowers the count, which is at most two flashes and a silence and two
\* edges more, until it is null, and the LED dark, for good (gestion_leds.vhd:38-48).
THEOREM FlashToujoursFini ==
    Spec => /\ [](/\ ResteFlash(l) \in 0..(UneSec + DemiSec + UneSec + 2)
                  /\ ResteFlash(l) = 0 => ~l.act)
            /\ [][ Horloge /\ ModeLeds(next) /\ barre = Rien /\ barre' = Rien
                   => \/ ResteFlash(l') < ResteFlash(l)
                      \/ ResteFlash(l) = 0 /\ ResteFlash(l') = 0 ]_vars
<1> DEFINE A == Horloge /\ ModeLeds(next) /\ barre = Rien /\ barre' = Rien
                => \/ ResteFlash(l') < ResteFlash(l)
                   \/ ResteFlash(l) = 0 /\ ResteFlash(l') = 0
<1>1. InvLeds => /\ ResteFlash(l) \in 0..(UneSec + DemiSec + UneSec + 2)
                 /\ ResteFlash(l) = 0 => ~l.act
  BY InvPlein, FlashBorne
<1>2. InvLeds /\ [Next]_vars => [A]_vars
  <2> SUFFICES ASSUME InvLeds, Horloge, ModeLeds(next), barre = Rien, barre' = Rien
               PROVE  \/ ResteFlash(l') < ResteFlash(l)
                      \/ ResteFlash(l) = 0 /\ ResteFlash(l') = 0
    OBVIOUS
  <2>1. l' \in LedHorloge(l, ModeLeds(cur), ModeLeds(next), Rien, Rien) /\ Plein(l)
    BY InvPlein DEF Horloge
  <2>2. ModeLeds(cur) \in BOOLEAN /\ ModeLeds(next) \in BOOLEAN
    BY DEF ModeLeds
  <2> QED BY <2>1, <2>2, FlashSEteint
<1> QED BY <1>1, <1>2, Invariant, PTL DEF Spec
=================================================================================
