------------------------------- MODULE Bip_lemmes -------------------------------
(***************************************************************************)
(* What the operators of Bip.tla do, for every duration and counter width: *)
(* the effect of an edge of the clock, latch by latch, and the relations   *)
(* BipPlein and BipLie, which no edge and no reset breaks.                 *)
(***************************************************************************)
EXTENDS Bip, TLAPS

\* The fields of the record, for the steps that need them one by one.
LEMMA Champs ==
    ASSUME NEW c \in Bips
    PROVE  /\ c.act \in BOOLEAN /\ c.att \in BOOLEAN /\ c.choix \in BOOLEAN
           /\ c.s1 \in BOOLEAN /\ c.s05 \in BOOLEAN
           /\ c.un \in 0..MaxUn /\ c.demi \in 0..MaxDemi
BY DEF Bips

\* What an edge of the clock leaves in the counters, the latches being closed.
LEMMA CompteursAvancent ==
    ASSUME NEW c \in Bips, c.un <= UneSec, c.demi <= DemiSec
    PROVE  LET d == BipCompteurs(c)
           IN  /\ d \in Bips
               /\ d.act = c.act /\ d.att = c.att /\ d.choix = c.choix
               /\ d.un = IF c.un = UneSec THEN 0 ELSE IF c.act THEN c.un + 1 ELSE c.un
               /\ d.demi = IF c.demi = DemiSec THEN 0
                           ELSE IF c.att THEN c.demi + 1 ELSE c.demi
               /\ d.s1 <=> c.un = UneSec
               /\ d.s05 <=> c.demi = DemiSec
<1> USE BipAssumption
<1> DEFINE d == BipCompteurs(c)
<1>1. /\ c.act \in BOOLEAN /\ c.att \in BOOLEAN /\ c.choix \in BOOLEAN
      /\ c.un \in 0..MaxUn /\ c.demi \in 0..MaxDemi
  BY Champs
<1>2. /\ c.un \in Nat /\ c.demi \in Nat
      /\ FinUn(c) <=> c.un = UneSec
      /\ FinDemi(c) <=> c.demi = DemiSec
  BY <1>1 DEF FinUn, FinDemi
<1>3. /\ d.act = c.act /\ d.att = c.att /\ d.choix = c.choix
      /\ d.s1 <=> c.un = UneSec
      /\ d.s05 <=> c.demi = DemiSec
  BY <1>2 DEF BipCompteurs
<1>4. d.un = IF c.un = UneSec THEN 0 ELSE IF c.act THEN c.un + 1 ELSE c.un
  BY <1>1, <1>2 DEF BipCompteurs, Compteur
<1>5. d.demi = IF c.demi = DemiSec THEN 0 ELSE IF c.att THEN c.demi + 1 ELSE c.demi
  BY <1>1, <1>2 DEF BipCompteurs, Compteur
<1>6. d.un \in 0..MaxUn /\ d.demi \in 0..MaxDemi
  BY <1>1, <1>2, <1>4, <1>5
<1>7. d \in Bips
  BY <1>1, <1>6 DEF BipCompteurs, Bips, FinUn, FinDemi
<1> QED BY <1>3, <1>4, <1>5, <1>7

\* The latches keep the type of the record.
LEMMA VerrouType ==
    ASSUME NEW c \in Bips, NEW a, NEW r1 \in BOOLEAN, NEW r05 \in BOOLEAN
    PROVE  Verrou(c, a, r1, r05) \in Bips
BY DEF Verrou, Bips

\* What they hold once they have settled, field by field.
LEMMA VerrouEffet ==
    ASSUME NEW c, NEW a, NEW r1, NEW r05, NEW f, f = Verrou(c, a, r1, r05)
    PROVE  /\ f.un = c.un /\ f.demi = c.demi /\ f.s1 = c.s1 /\ f.s05 = c.s05
           /\ f.act <=> r05 \/ (~r1 /\ (c.act \/ Simple(a) \/ Double(a)))
           /\ f.att <=> ~r05 /\ (c.att \/ (r1 /\ c.choix))
           /\ f.choix <=> ~r05 /\ (c.choix \/ Double(a))
BY DEF Verrou

\* What an edge of the clock does to the whole block: once the two waves of the
\* latches are composed, the ends of the counters are those just reached.
LEMMA HorlogeEffet ==
    ASSUME NEW c \in Bips, NEW a, c.un <= UneSec, c.demi <= DemiSec,
           NEW d, d = BipCompteurs(c), NEW f, f = BipHorloge(c, a)
    PROVE  /\ f \in Bips
           /\ f.un = d.un /\ f.demi = d.demi
           /\ f.s1 <=> d.s1
           /\ f.s05 <=> d.s05
           /\ f.act <=> \/ d.demi = DemiSec
                        \/ /\ d.un # UneSec
                           /\ c.act \/ Simple(a) \/ Double(a)
           /\ f.att <=> /\ d.demi # DemiSec
                        /\ c.att \/ (d.un = UneSec /\ (c.choix \/ Double(a)))
           /\ f.choix <=> d.demi # DemiSec /\ (c.choix \/ Double(a))
<1> USE BipAssumption
<1> DEFINE m == BipMilieu(c, a)
           r1 == FrontMontant(FinUn(m), m.s1)
           r05 == FrontMontant(FinDemi(m), m.s05)
<1>1. /\ d \in Bips /\ d.act = c.act /\ d.att = c.att /\ d.choix = c.choix
      /\ d.un = IF c.un = UneSec THEN 0 ELSE IF c.act THEN c.un + 1 ELSE c.un
      /\ d.demi = IF c.demi = DemiSec THEN 0 ELSE IF c.att THEN c.demi + 1 ELSE c.demi
      /\ d.s1 <=> c.un = UneSec
      /\ d.s05 <=> c.demi = DemiSec
  BY CompteursAvancent
<1>2. m = Verrou(d, a, FALSE, FALSE)
  BY DEF BipMilieu
<1> HIDE DEF m
<1>3. /\ m \in Bips /\ m.un = d.un /\ m.demi = d.demi /\ m.s1 = d.s1 /\ m.s05 = d.s05
      /\ m.act <=> (c.act \/ Simple(a) \/ Double(a))
      /\ m.att <=> c.att
      /\ m.choix <=> (c.choix \/ Double(a))
  <2>1. m \in Bips
    BY <1>1, <1>2, VerrouType
  <2>2. /\ m.un = d.un /\ m.demi = d.demi /\ m.s1 = d.s1 /\ m.s05 = d.s05
        /\ m.act <=> (d.act \/ Simple(a) \/ Double(a))
        /\ m.att <=> d.att
        /\ m.choix <=> (d.choix \/ Double(a))
    BY <1>2 DEF Verrou
  <2> QED BY <1>1, <2>1, <2>2
<1>4. /\ c.un \in 0..UneSec /\ c.demi \in 0..DemiSec
  BY Champs
<1>5. /\ d.un \in 0..UneSec /\ d.demi \in 0..DemiSec
      /\ d.s1 => d.un = 0
      /\ d.s05 => d.demi = 0
  BY <1>1, <1>4
<1>6. (r1 <=> d.un = UneSec) /\ (r05 <=> d.demi = DemiSec)
  <2>1. (FinUn(m) <=> d.un = UneSec) /\ (FinDemi(m) <=> d.demi = DemiSec)
    BY <1>3, <1>5 DEF FinUn, FinDemi
  <2>2. (d.un = UneSec => ~m.s1) /\ (d.demi = DemiSec => ~m.s05)
    BY <1>3, <1>5
  <2> QED BY <2>1, <2>2 DEF FrontMontant
<1>7. r1 \in BOOLEAN /\ r05 \in BOOLEAN
  BY DEF FrontMontant
<1>8. f = Verrou(m, a, r1, r05)
  BY DEF BipHorloge, BipFin, m
<1> HIDE DEF r1, r05
<1>9. f \in Bips /\ f.un = d.un /\ f.demi = d.demi /\ f.s1 = d.s1 /\ f.s05 = d.s05
  <2>1. f \in Bips
    BY <1>3, <1>7, <1>8, VerrouType
  <2>2. f.un = m.un /\ f.demi = m.demi /\ f.s1 = m.s1 /\ f.s05 = m.s05
    BY <1>8 DEF Verrou
  <2> QED BY <1>3, <2>1, <2>2
<1>10. /\ f.act <=> r05 \/ (~r1 /\ (m.act \/ Simple(a) \/ Double(a)))
       /\ f.att <=> ~r05 /\ (m.att \/ (r1 /\ m.choix))
       /\ f.choix <=> ~r05 /\ (m.choix \/ Double(a))
  BY <1>8, VerrouEffet
<1>11. f.act <=> \/ d.demi = DemiSec
                 \/ d.un # UneSec /\ (c.act \/ Simple(a) \/ Double(a))
  BY <1>3, <1>6, <1>10
<1>12. f.att <=> /\ d.demi # DemiSec
                 /\ c.att \/ (d.un = UneSec /\ (c.choix \/ Double(a)))
  BY <1>3, <1>6, <1>10
<1>13. f.choix <=> d.demi # DemiSec /\ (c.choix \/ Double(a))
  BY <1>3, <1>6, <1>10
<1> QED BY <1>9, <1>11, <1>12, <1>13

\* An edge outside reset preserves the invariant: in particular a silence never ends
\* together with a bip, because a bip claimed during the silence started after it.
LEMMA HorlogeSaine ==
    ASSUME NEW b \in Bips, NEW a, BipPlein(b), BipLie(b)
    PROVE  LET f == BipHorloge(b, a)
           IN  f \in Bips /\ BipPlein(f) /\ BipLie(f)
<1> USE BipAssumption
<1> DEFINE d == BipCompteurs(b)
           f == BipHorloge(b, a)
<1>0. d = BipCompteurs(b) /\ f = BipHorloge(b, a)
  OBVIOUS
<1> HIDE DEF d, f
<1>1. BipPlein(b) /\ BipLie(b)
  OBVIOUS
<1>2. b.un \in 0..UneSec /\ b.demi \in 0..DemiSec
  BY <1>1, Champs DEF BipLie
<1>10. b.un <= UneSec /\ b.demi <= DemiSec
  BY <1>2
<1>3. /\ d.un = IF b.un = UneSec THEN 0 ELSE IF b.act THEN b.un + 1 ELSE b.un
      /\ d.demi = IF b.demi = DemiSec THEN 0 ELSE IF b.att THEN b.demi + 1 ELSE b.demi
      /\ d.s1 <=> b.un = UneSec
      /\ d.s05 <=> b.demi = DemiSec
  BY <1>0, <1>10, CompteursAvancent
<1>4. /\ f \in Bips /\ f.un = d.un /\ f.demi = d.demi
      /\ f.s1 <=> d.s1
      /\ f.s05 <=> d.s05
      /\ f.act <=> \/ d.demi = DemiSec
                   \/ d.un # UneSec /\ (b.act \/ Simple(a) \/ Double(a))
      /\ f.att <=> /\ d.demi # DemiSec
                   /\ b.att \/ (d.un = UneSec /\ (b.choix \/ Double(a)))
      /\ f.choix <=> d.demi # DemiSec /\ (b.choix \/ Double(a))
  BY <1>0, <1>10, HorlogeEffet
<1>5. /\ d.un \in 0..UneSec /\ d.demi \in 0..DemiSec
      /\ d.un = UneSec => b.act
      /\ d.demi = DemiSec => b.att
  BY <1>1, <1>2, <1>3 DEF BipPlein
<1>6. ~(d.un = UneSec /\ d.demi = DemiSec)
  BY <1>1, <1>2, <1>3, <1>5 DEF BipPlein, BipLie
<1>7. ~(d.un = UneSec /\ b.att)
  BY <1>1, <1>2, <1>3, <1>5 DEF BipPlein, BipLie
<1>8. BipLie(f)
  <2>1. /\ f.un <= UneSec /\ f.demi <= DemiSec
        /\ f.s1 => f.un = 0
        /\ f.s05 => f.demi = 0
    BY <1>2, <1>3, <1>4, <1>5
  <2>2. ASSUME f.att, f.un < UneSec PROVE f.un <= f.demi
    <3>1. b.att
      BY <2>2, <1>4
    <3>2. CASE b.un = UneSec
      BY <3>2, <1>2, <1>3, <1>4
    <3>3. CASE b.un # UneSec
      BY <3>1, <3>3, <1>1, <1>2, <1>3, <1>4 DEF BipPlein, BipLie
    <3> QED BY <3>2, <3>3
  <2>3. ASSUME f.att, f.un = UneSec PROVE f.demi = 0
    <3>1. ~b.att
      BY <2>3, <1>4, <1>7
    <3> QED BY <3>1, <1>1, <1>2, <1>3, <1>4 DEF BipPlein
  <2> QED BY <2>1, <2>2, <2>3 DEF BipLie
<1>9. BipPlein(f)
  <2>1. f.act \/ f.un \in {0, UneSec}
    BY <1>1, <1>2, <1>3, <1>4 DEF BipPlein
  <2>2. f.att \/ f.demi \in {0, DemiSec}
    BY <1>1, <1>2, <1>3, <1>4 DEF BipPlein
  <2>3. f.act => f.un < UneSec
    BY <1>2, <1>4, <1>5, <1>6
  <2>4. f.att => f.demi < DemiSec
    BY <1>4, <1>5
  <2>5. f.att => f.choix
    BY <1>1, <1>4 DEF BipPlein
  <2> QED BY <2>1, <2>2, <2>3, <2>4, <2>5 DEF BipPlein
<1> QED BY <1>4, <1>8, <1>9 DEF f


\* Neither reset breaks the relations, although attente_bip and temp_choix_btn keep
\* their values.
LEMMA RazSaine ==
    ASSUME NEW b \in Bips, BipPlein(b), BipLie(b), NEW f \in {BipRaz(b), BipHorlogeRaz(b)}
    PROVE  f \in Bips /\ BipPlein(f) /\ BipLie(f)
<1> USE BipAssumption
<1>1. BipHorlogeRaz(b) \in Bips
  BY DEF BipHorlogeRaz, Bips, FinUn, FinDemi
<1>2. BipRaz(b) \in Bips
  BY DEF BipRaz, Bips
<1>3. f.att = b.att /\ f.choix = b.choix /\ ~f.act /\ f.un = 0 /\ f.demi = 0
  BY DEF BipHorlogeRaz, BipRaz
<1>4. BipPlein(f) /\ BipLie(f)
  BY <1>3 DEF BipPlein, BipLie
<1> QED BY <1>1, <1>2, <1>4

\* The block as it starts.
LEMMA BipInitialSain == BipInitial \in Bips /\ BipPlein(BipInitial) /\ BipLie(BipInitial)
<1>1. BipInitial \in Bips
  BY BipAssumption DEF BipInitial, Bips
<1>2. BipPlein(BipInitial) /\ BipLie(BipInitial)
  BY BipAssumption DEF BipInitial, BipPlein, BipLie
<1> QED BY <1>1, <1>2

\* The three ways an edge outside reset can take: a bip ends, a
\* silence ends, or neither.
LEMMA HorlogeCas ==
    ASSUME NEW b \in Bips, NEW a, BipPlein(b), BipLie(b)
    PROVE  LET f == BipHorloge(b, a)
           IN \E s, w \in BOOLEAN :
              \/ /\ b.act /\ ~b.att /\ ~f.act
                 /\ f.att <=> (b.choix \/ w)
                 /\ f.choix <=> (b.choix \/ w)
              \/ b.att /\ f.act /\ ~f.att /\ ~f.choix
              \/ /\ f.act <=> (b.act \/ s \/ w)
                 /\ f.att <=> b.att
                 /\ f.choix <=> (b.choix \/ w)
<1> USE BipAssumption
<1> DEFINE d == BipCompteurs(b)
           f == BipHorloge(b, a)
<1>0. d = BipCompteurs(b) /\ f = BipHorloge(b, a)
  OBVIOUS
<1> HIDE DEF d, f
<1>1. BipPlein(b) /\ BipLie(b)
  OBVIOUS
<1>2. b.un \in 0..UneSec /\ b.demi \in 0..DemiSec
  BY <1>1, Champs DEF BipLie
<1>10. b.un <= UneSec /\ b.demi <= DemiSec
  BY <1>2
<1>3. /\ d.un = IF b.un = UneSec THEN 0 ELSE IF b.act THEN b.un + 1 ELSE b.un
      /\ d.demi = IF b.demi = DemiSec THEN 0 ELSE IF b.att THEN b.demi + 1 ELSE b.demi
  BY <1>0, <1>10, CompteursAvancent
<1>4. /\ f.act <=> \/ d.demi = DemiSec
                   \/ d.un # UneSec /\ (b.act \/ Simple(a) \/ Double(a))
      /\ f.att <=> /\ d.demi # DemiSec
                   /\ b.att \/ (d.un = UneSec /\ (b.choix \/ Double(a)))
      /\ f.choix <=> d.demi # DemiSec /\ (b.choix \/ Double(a))
  BY <1>0, <1>10, HorlogeEffet
<1> SUFFICES \E s, w \in BOOLEAN :
              \/ /\ b.act /\ ~b.att /\ ~f.act
                 /\ f.att <=> (b.choix \/ w)
                 /\ f.choix <=> (b.choix \/ w)
              \/ b.att /\ f.act /\ ~f.att /\ ~f.choix
              \/ /\ f.act <=> (b.act \/ s \/ w)
                 /\ f.att <=> b.att
                 /\ f.choix <=> (b.choix \/ w)
  BY DEF f
<1>5. /\ d.un = UneSec => b.act
      /\ d.demi = DemiSec => b.att
      /\ ~(d.un = UneSec /\ b.att)
  BY <1>1, <1>2, <1>3 DEF BipPlein, BipLie
<1>. Simple(a) \in BOOLEAN /\ Double(a) \in BOOLEAN
  BY DEF Simple, Double
<1>7. CASE d.un = UneSec
  <2>1. b.act /\ ~b.att /\ d.demi # DemiSec
    BY <1>5, <1>7
  <2>2. /\ ~f.act
        /\ f.att <=> (b.choix \/ Double(a))
        /\ f.choix <=> (b.choix \/ Double(a))
    BY <1>4, <1>7, <2>1
  <2> WITNESS Simple(a) \in BOOLEAN, Double(a) \in BOOLEAN
  <2> QED BY <2>1, <2>2
<1>8. CASE d.un # UneSec /\ d.demi = DemiSec
  <2>1. b.att /\ f.act /\ ~f.att /\ ~f.choix
    BY <1>4, <1>5, <1>8
  <2> WITNESS Simple(a) \in BOOLEAN, Double(a) \in BOOLEAN
  <2> QED BY <2>1
<1>9. CASE d.un # UneSec /\ d.demi # DemiSec
  <2>1. /\ f.act <=> (b.act \/ Simple(a) \/ Double(a))
        /\ f.att <=> b.att
        /\ f.choix <=> (b.choix \/ Double(a))
    BY <1>4, <1>9
  <2> WITNESS Simple(a) \in BOOLEAN, Double(a) \in BOOLEAN
  <2> QED BY <2>1
<1> QED BY <1>7, <1>8, <1>9
================================================================================
