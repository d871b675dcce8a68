-------------------------- MODULE GestionBarre_proofs --------------------------
(***************************************************************************)
(* The tiller, for every threshold, duration and counter width, every set  *)
(* of buttons in use and every choice of the stages that the latch next_st *)
(* may catch, unless a theorem says otherwise: the block alone, what it    *)
(* gives its timers, its bip and its LEDs, a press from the button to the  *)
(* course, and the way back to rest.                                       *)
(***************************************************************************)
EXTENDS BarreAppuis, Bip_lemmes

\* The registers of a timer keep their types through an edge of the clock, the counter
\* bounded by Max.
LEMMA ChronoHorlogeType ==
    ASSUME NEW c \in Chronos, NEW niveau \in BOOLEAN
    PROVE  ChronoHorloge(c, niveau) \in Chronos
BY SeuilAssumption
   DEF ChronoHorloge, Chronos, Compteur, FrontDescendant, Classe, Reponses, Rien, Court, Long

\* The reset keeps the type of the registers.
LEMMA ChronoRazType ==
    ASSUME NEW c \in Chronos
    PROVE  ChronoRaz(c) \in Chronos
BY SeuilAssumption DEF ChronoRaz, Chronos, Reponses

--------------------------------------------------------------------------------
\* The machine of states, as an operator.

\* Decoding moves at most to a successor in the diagram.
LEMMA DecodeDiagramme ==
    ASSUME NEW c \in Etats, NEW n \in {c} \cup Diagramme[c],
           NEW a, NEW act, NEW choix, NEW x
    PROVE  Decode(n, c, a, act, choix, x) \in {c} \cup Diagramme[c]
<1> USE DEF Etats, EtatsVeille, EtatsTransitoires, EtatsTransitoires1, EtatsTransitoires10
<1>1. CASE c = "STBY"
  <2>1. Decode(n, c, a, act, choix, x) = DepuisSTBY(n, a, act, x)
    BY <1>1 DEF Decode
  <2>2. Diagramme[c] = {"AUTO", "STBY_babord", "STBY_tribord"}
    BY <1>1 DEF Diagramme
  <2> QED BY <2>1, <2>2 DEF DepuisSTBY
<1>2. CASE c = "AUTO"
  <2>1. Decode(n, c, a, act, choix, x) = DepuisAUTO(n, a, act)
    BY <1>2 DEF Decode
  <2>2. Diagramme[c] = {"STBY"} \cup EtatsTransitoires
    BY <1>2 DEF Diagramme
  <2> QED BY <1>2, <2>1, <2>2 DEF DepuisAUTO
<1>3. CASE c \in {"STBY_babord", "STBY_tribord"}
  <2>1. \E cote : Decode(n, c, a, act, choix, x) = RetourSTBY(n, x, cote)
    BY <1>3 DEF Decode
  <2>2. Diagramme[c] = {"STBY"}
    BY <1>3 DEF Diagramme
  <2> QED BY <2>1, <2>2 DEF RetourSTBY
<1>4. CASE c \in EtatsTransitoires
  <2>1. \E cote : Decode(n, c, a, act, choix, x) = RetourAUTO(n, a, act, choix, cote)
    BY <1>4 DEF Decode
  <2>2. Diagramme[c] = {"AUTO"}
    BY <1>4 DEF Diagramme
  <2> QED BY <2>1, <2>2 DEF RetourAUTO
<1> QED BY <1>1, <1>2, <1>3, <1>4

\* The same for a stage that the latch may miss.
LEMMA EtageDiagramme ==
    ASSUME NEW c \in Etats, NEW n \in {c} \cup Diagramme[c],
           NEW a, NEW act, NEW choix, NEW x, NEW k, NEW g
    PROVE  Etage(k, g, n, Decode(n, c, a, act, choix, x)) \in {c} \cup Diagramme[c]
BY DecodeDiagramme DEF Etage

\* The diagram stays among the states.
LEMMA DiagrammeType == ASSUME NEW c \in Etats PROVE {c} \cup Diagramme[c] \subseteq Etats
BY DEF Diagramme, Etats, EtatsVeille, EtatsTransitoires, EtatsTransitoires1,
       EtatsTransitoires10

\* Decoding keeps the type of the latch.
LEMMA DecodeType ==
    ASSUME NEW c \in Etats, NEW n \in Etats, NEW a, NEW act, NEW choix, NEW x
    PROVE  Decode(n, c, a, act, choix, x) \in Etats
<1> USE DEF Etats, EtatsVeille, EtatsTransitoires, EtatsTransitoires1, EtatsTransitoires10
<1>1. CASE c = "STBY"
  BY <1>1 DEF Decode, DepuisSTBY
<1>2. CASE c = "AUTO"
  BY <1>2 DEF Decode, DepuisAUTO
<1>3. CASE c \in {"STBY_babord", "STBY_tribord"}
  BY <1>3 DEF Decode, RetourSTBY
<1>4. CASE c \in EtatsTransitoires
  BY <1>4 DEF Decode, RetourAUTO
<1> QED BY <1>1, <1>2, <1>3, <1>4

\* The same for a stage that the latch may miss.
LEMMA EtageType ==
    ASSUME NEW c \in Etats, NEW n \in Etats, NEW a, NEW act, NEW choix, NEW x, NEW k, NEW g
    PROVE  Etage(k, g, n, Decode(n, c, a, act, choix, x)) \in Etats
BY DecodeType DEF Etage

\* A course change is over only when no bip sounds and no second one is due.
LEMMA RetourJustifie ==
    ASSUME NEW c \in EtatsTransitoires, NEW n, n # "AUTO", NEW a, NEW act, NEW choix, NEW x,
           Decode(n, c, a, act, choix, x) = "AUTO"
    PROVE  ~act /\ ~choix
<1>1. \E cote : Decode(n, c, a, act, choix, x) = RetourAUTO(n, a, act, choix, cote)
  BY DEF Decode, EtatsTransitoires, EtatsTransitoires1, EtatsTransitoires10
<1> QED BY <1>1 DEF RetourAUTO

\* Decoded while a bip sounds, or without a short press on STBY/AUTO, no state makes
\* the latch leave its mode.
LEMMA DecodeMode ==
    ASSUME NEW c \in Etats, NEW n \in Etats, ModeLeds(n) = ModeLeds(c),
           NEW a, NEW act, NEW choix, NEW x, NEW k, NEW g, act \/ a["auto"] # Court
    PROVE  /\ Decode(n, c, a, act, choix, x) \in Etats
           /\ ModeLeds(Decode(n, c, a, act, choix, x)) = ModeLeds(c)
           /\ Etage(k, g, n, Decode(n, c, a, act, choix, x)) \in Etats
           /\ ModeLeds(Etage(k, g, n, Decode(n, c, a, act, choix, x))) = ModeLeds(c)
<1> DEFINE m == Decode(n, c, a, act, choix, x)
<1> USE DEF Etats, EtatsVeille, EtatsTransitoires, EtatsTransitoires1, EtatsTransitoires10
<1>1. m \in Etats
  BY DecodeType
<1>2. ModeLeds(m) = ModeLeds(c)
  <2>1. CASE c = "STBY"
    <3>1. m = DepuisSTBY(n, a, act, x)
      BY <2>1 DEF Decode
    <3> QED BY <2>1, <3>1 DEF DepuisSTBY, ModeLeds
  <2>2. CASE c = "AUTO"
    <3>1. m = DepuisAUTO(n, a, act)
      BY <2>2 DEF Decode
    <3>2. m \in EtatsTransitoires \cup {"AUTO", n}
      BY <3>1 DEF DepuisAUTO
    <3> QED BY <2>2, <3>2 DEF ModeLeds
  <2>3. CASE c \in {"STBY_babord", "STBY_tribord"}
    <3>1. \E cote : m = RetourSTBY(n, x, cote)
      BY <2>3 DEF Decode
    <3>2. m \in {"STBY", n}
      BY <3>1 DEF RetourSTBY
    <3> QED BY <2>3, <3>2 DEF ModeLeds
  <2>4. CASE c \in EtatsTransitoires
    <3>1. \E cote : m = RetourAUTO(n, a, act, choix, cote)
      BY <2>4 DEF Decode
    <3>2. m \in {"AUTO", n}
      BY <3>1 DEF RetourAUTO
    <3> QED BY <2>4, <3>2 DEF ModeLeds
  <2> QED BY <2>1, <2>2, <2>3, <2>4
<1> HIDE DEF m
<1>3. Etage(k, g, n, m) \in {n, m}
  BY DEF Etage
<1> QED BY <1>1, <1>2, <1>3 DEF m

\* A hub that decodes a short press on STBY/AUTO in silence points to the other one.
LEMMA BasculeDecodee ==
    ASSUME NEW n, NEW c \in {"STBY", "AUTO"}, NEW autre \in {"STBY", "AUTO"}, autre # c,
           NEW a, NEW act, NEW choix, NEW x, a["auto"] = Court, ~act
    PROVE  Decode(n, c, a, act, choix, x) = autre
BY DEF Decode, DepuisSTBY, DepuisAUTO

\* Where nothing competes with the press, the latch of a hub keeps what it has decoded
\* or points to the other hub.
LEMMA BasculeTenue ==
    ASSUME NEW n, NEW c \in {"STBY", "AUTO"}, NEW autre \in {"STBY", "AUTO"}, autre # c,
           NEW a, NEW act, NEW choix, NEW x, NEW k, NEW g,
           SansRival(c, a, x), a["auto"] # Long
    PROVE  /\ Decode(n, c, a, act, choix, x) \in {n, autre}
           /\ Etage(k, g, n, Decode(n, c, a, act, choix, x)) \in {n, autre}
<1> DEFINE m == Decode(n, c, a, act, choix, x)
<1>1. m \in {n, autre}
  <2>1. CASE c = "STBY"
    <3>1. m = DepuisSTBY(n, a, act, x)
      BY <2>1 DEF Decode
    <3> QED BY <2>1, <3>1 DEF DepuisSTBY, SansRival
  <2>2. CASE c = "AUTO"
    <3>1. m = DepuisAUTO(n, a, act)
      BY <2>2 DEF Decode
    <3> QED BY <2>2, <3>1 DEF DepuisAUTO, SansRival, Rien, Court, Long
  <2> QED BY <2>1, <2>2
<1> HIDE DEF m
<1>2. Etage(k, g, n, m) \in {n, m}
  BY DEF Etage
<1> QED BY <1>1, <1>2 DEF m

--------------------------------------------------------------------------------
\* The inductive invariant.

\* The answers of the timers, after an edge outside reset.
LEMMA AppuisBarre ==
    ASSUME TypeOK, t' = [x \in Boutons |-> ChronoHorloge(t[x], btn[x])]
    PROVE  /\ t' \in [Boutons -> Chronos]
           /\ \A x \in Boutons : t[x].tempo # Rien => t'[x].tempo = Rien
<1>1. PICK u : u = t' /\ u = [x \in Boutons |-> ChronoHorloge(t[x], btn[x])]
  OBVIOUS
<1>2. \A x \in Boutons : t[x] \in Chronos /\ btn[x] \in BOOLEAN
  BY DEF TypeOK
<1>3. u \in [Boutons -> Chronos]
  BY <1>1, <1>2, ChronoHorlogeType
<1>4. \A x \in Boutons : t[x].tempo # Rien => u[x].tempo = Rien
  BY <1>1 DEF ChronoHorloge
<1> QED BY <1>1, <1>3, <1>4

\* The stages through which the latch settles after an edge outside reset.
LEMMA HorlogeEtapes ==
    ASSUME Horloge
    PROVE  \E a, f, m, n1, n2, n3 : \E g \in Glitches :
              /\ a = Appuis(t') /\ f = b' /\ f = BipHorloge(b, a) /\ m = BipMilieu(b, a)
              /\ n1 = Etage(1, g, next, Decode(next, cur', Appuis(t), b.act, b.choix, btn))
              /\ n2 = Etage(2, g, n1, Decode(n1, cur', a, b.act, b.choix, btn))
              /\ n3 = Etage(3, g, n2, Decode(n2, cur', a, m.act, m.choix, btn))
              /\ next' = Decode(n3, cur', a, f.act, f.choix, btn)
BY DEF Horloge

\* An edge after which no bip is claimed while nothing was due: nothing waits, and
\* the bip that the edge starts, if any, is at its beginning.
LEMMA DebutDeBip ==
    ASSUME NEW c \in Bips, BipPlein(c), BipLie(c), ~c.act, ~c.choix, NEW a
    PROVE  ~BipHorloge(c, a).att /\ BipHorloge(c, a).un = 0
<1> DEFINE d == BipCompteurs(c)
           f == BipHorloge(c, a)
<1>1. d = BipCompteurs(c) /\ f = BipHorloge(c, a)
  OBVIOUS
<1> HIDE DEF d, f
<1>2. c.un <= UneSec /\ c.demi <= DemiSec
  BY DEF BipLie
<1>3. ~c.att /\ c.un \in {0, UneSec} /\ c.demi \in {0, DemiSec}
  BY DEF BipPlein
<1>4. d.un = 0 /\ d.demi = 0
  BY <1>1, <1>2, <1>3, CompteursAvancent
<1>5. f.un = 0
  BY <1>1, <1>2, <1>4, HorlogeEffet
<1>6. f.att <=> d.demi # DemiSec /\ (c.att \/ (d.un = UneSec /\ (c.choix \/ Double(a))))
  BY <1>1, <1>2, HorlogeEffet
<1>7. d.un # UneSec
  BY <1>4, BipAssumption
<1>8. ~f.att
  BY <1>3, <1>6, <1>7
<1> QED BY <1>1, <1>5, <1>8

\* The intermediate value of the bip sounds if it sounded, and owes what it owed.
LEMMA MilieuTient ==
    ASSUME NEW c, NEW a
    PROVE  /\ BipMilieu(c, a).act <=> (c.act \/ Simple(a) \/ Double(a))
           /\ BipMilieu(c, a).choix <=> (c.choix \/ Double(a))
BY DEF BipMilieu, BipCompteurs, Verrou

\* The inductive step at an edge outside reset.
LEMMA HorlogeInv == ASSUME InvBarre, Horloge PROVE InvBarre'
<1>1. /\ TypeOK /\ b \in Bips /\ BipPlein(b) /\ BipLie(b) /\ raz_n
      /\ cur \in Etats /\ next \in Etats /\ btn \in [Boutons -> BOOLEAN]
  BY DEF InvBarre, TypeOK, Horloge
<1>2. /\ cur' = next /\ btn' = btn /\ raz_n' = raz_n
      /\ t' \in [Boutons -> Chronos]
  BY <1>1, AppuisBarre DEF Horloge
<1>3. PICK a, f, m, n1, n2, n3 : \E g \in Glitches :
          /\ a = Appuis(t') /\ f = b' /\ f = BipHorloge(b, a) /\ m = BipMilieu(b, a)
          /\ n1 = Etage(1, g, next, Decode(next, cur', Appuis(t), b.act, b.choix, btn))
          /\ n2 = Etage(2, g, n1, Decode(n1, cur', a, b.act, b.choix, btn))
          /\ n3 = Etage(3, g, n2, Decode(n2, cur', a, m.act, m.choix, btn))
          /\ next' = Decode(n3, cur', a, f.act, f.choix, btn)
  BY HorlogeEtapes
<1>4. f = b' /\ f = BipHorloge(b, a) /\ m = BipMilieu(b, a)
  BY <1>3
<1>5. f \in Bips /\ BipPlein(f) /\ BipLie(f)
  BY <1>1, <1>4, HorlogeSaine
<1>6. PICK g \in Glitches :
          /\ n1 = Etage(1, g, next, Decode(next, cur', Appuis(t), b.act, b.choix, btn))
          /\ n2 = Etage(2, g, n1, Decode(n1, cur', a, b.act, b.choix, btn))
          /\ n3 = Etage(3, g, n2, Decode(n2, cur', a, m.act, m.choix, btn))
          /\ next' = Decode(n3, cur', a, f.act, f.choix, btn)
  BY <1>3
<1>7. n1 \in Etats /\ n2 \in Etats /\ n3 \in Etats /\ next' \in Etats
  <2>1. cur' \in Etats
    BY <1>1, <1>2
  <2>2. n1 \in Etats
    BY <2>1, <1>1, <1>6, EtageType
  <2>3. n2 \in Etats
    BY <2>1, <2>2, <1>6, EtageType
  <2>4. n3 \in Etats
    BY <2>1, <2>3, <1>6, EtageType
  <2>5. next' \in Etats
    BY <2>1, <2>4, <1>6, DecodeType
  <2> QED BY <2>2, <2>3, <2>4, <2>5
<1>8. TypeOK'
  BY <1>1, <1>2, <1>4, <1>5, <1>7 DEF TypeOK
<1>9. ASSUME next' = "AUTO", cur' \in EtatsTransitoires
      PROVE  ~f.att /\ (f.act => f.un = 0)
  <2>1. cur' # "AUTO"
    BY <1>9 DEF EtatsTransitoires, EtatsTransitoires1, EtatsTransitoires10
  <2>2. CASE n3 # "AUTO"
    <3>1. ~f.act /\ ~f.choix
      BY <1>6, <1>9, <2>2, RetourJustifie
    <3> QED BY <3>1, <1>5 DEF BipPlein
  <2>3. CASE n3 = "AUTO"
    <3>1. ~b.act /\ ~b.choix
      <4>1. CASE n1 = "AUTO"
        <5>1. /\ Decode(next, cur', Appuis(t), b.act, b.choix, btn) = "AUTO"
              /\ next # "AUTO"
          BY <1>2, <1>6, <2>1, <4>1 DEF Etage
        <5> QED BY <5>1, <1>9, RetourJustifie
      <4>2. CASE n1 # "AUTO" /\ n2 = "AUTO"
        <5>1. Decode(n1, cur', a, b.act, b.choix, btn) = "AUTO"
          BY <1>6, <4>2 DEF Etage
        <5> QED BY <5>1, <4>2, <1>9, RetourJustifie
      <4>3. CASE n2 # "AUTO"
        <5>1. Decode(n2, cur', a, m.act, m.choix, btn) = "AUTO"
          BY <1>6, <2>3, <4>3 DEF Etage
        <5>2. ~m.act /\ ~m.choix
          BY <5>1, <4>3, <1>9, RetourJustifie
        <5> QED BY <1>4, <5>2, MilieuTient
      <4> QED BY <4>1, <4>2, <4>3
    <3> QED BY <3>1, <1>1, <1>4, DebutDeBip
  <2> QED BY <2>2, <2>3
<1> QED BY <1>1, <1>2, <1>4, <1>5, <1>8, <1>9 DEF InvBarre

\* The inductive step when a reset begins, by the software or by the system.
LEMMA RazInv == ASSUME InvBarre, EcritRaz \/ RazSysteme PROVE InvBarre'
<1>1. /\ TypeOK /\ b \in Bips /\ BipPlein(b) /\ BipLie(b)
      /\ next \in Etats /\ btn \in [Boutons -> BOOLEAN]
      /\ \A x \in Boutons : t[x] \in Chronos /\ btn[x] \in BOOLEAN
  BY DEF InvBarre, TypeOK
<1>2. /\ cur' = "STBY" /\ btn' = btn /\ raz_n' = FALSE
      /\ b' \in {BipRaz(b), BipHorlogeRaz(b)}
  BY DEF EcritRaz, RazSysteme
<1>3. b' \in Bips /\ BipPlein(b') /\ BipLie(b')
  BY <1>1, <1>2, RazSaine
<1>4. t' \in [Boutons -> Chronos] /\ \A x \in Boutons : t'[x].tempo = Rien
  <2>1. CASE EcritRaz
    <3>1. PICK u : u = t' /\ u = [x \in Boutons |-> ChronoRaz(ChronoHorloge(t[x], btn[x]))]
      BY <2>1 DEF EcritRaz
    <3>2. u \in [Boutons -> Chronos]
      BY <1>1, <3>1, ChronoHorlogeType, ChronoRazType
    <3>3. \A x \in Boutons : u[x].tempo = Rien
      BY <3>1 DEF ChronoRaz
    <3> QED BY <3>1, <3>2, <3>3
  <2>2. CASE RazSysteme
    <3>1. PICK u : u = t' /\ u = [x \in Boutons |-> ChronoRaz(t[x])]
      BY <2>2 DEF RazSysteme
    <3>2. u \in [Boutons -> Chronos]
      BY <1>1, <3>1, ChronoRazType
    <3>3. \A x \in Boutons : u[x].tempo = Rien
      BY <3>1 DEF ChronoRaz
    <3> QED BY <3>1, <3>2, <3>3
  <2> QED BY <2>1, <2>2
<1>5. "STBY" \in Etats /\ "STBY" \notin EtatsTransitoires
  BY DEF Etats, EtatsVeille, EtatsTransitoires, EtatsTransitoires1, EtatsTransitoires10
<1>6. next' \in Etats
  <2>1. CASE EcritRaz
    <3>1. PICK a, n1, n2 : \E g \in Glitches :
            /\ n1 = Etage(1, g, next, Decode(next, next, Appuis(t), b.act, b.choix, btn))
            /\ n2 = Etage(2, g, n1, Decode(n1, "STBY", a, b.act, b.choix, btn))
            /\ next' = Decode(n2, "STBY", SansAppui, FALSE, b.choix, btn)
      BY <2>1 DEF EcritRaz
    <3>2. n1 \in Etats
      BY <1>1, <3>1, EtageType
    <3>3. n2 \in Etats
      BY <1>5, <3>1, <3>2, EtageType
    <3> QED BY <1>5, <3>1, <3>3, DecodeType
  <2>2. CASE RazSysteme
    <3>1. PICK n2 : \E g \in Glitches :
            /\ n2 = Etage(2, g, next, Decode(next, "STBY", Appuis(t), b.act, b.choix, btn))
            /\ next' = Decode(n2, "STBY", SansAppui, FALSE, b.choix, btn)
      BY <2>2 DEF RazSysteme
    <3>2. n2 \in Etats
      BY <1>1, <1>5, <3>1, EtageType
    <3> QED BY <1>5, <3>1, <3>2, DecodeType
  <2> QED BY <2>1, <2>2
<1>7. raz_n' \in BOOLEAN
  BY <1>2
<1>8. TypeOK'
  BY <1>1, <1>2, <1>3, <1>4, <1>5, <1>6, <1>7 DEF TypeOK
<1> QED BY <1>2, <1>3, <1>4, <1>5, <1>8 DEF InvBarre

\* The inductive step at an edge during reset.
LEMMA HorlogeEnRazInv == ASSUME InvBarre, HorlogeEnRaz PROVE InvBarre'
<1>1. /\ TypeOK /\ b \in Bips /\ BipPlein(b) /\ BipLie(b)
      /\ cur \in Etats /\ next \in Etats /\ btn \in [Boutons -> BOOLEAN]
      /\ \A x \in Boutons : t[x] \in Chronos /\ btn[x] \in BOOLEAN
      /\ cur = "STBY"
  BY DEF InvBarre, TypeOK, HorlogeEnRaz
<1>2. b' \in Bips /\ BipPlein(b') /\ BipLie(b')
  <2>1. b' \in {BipRaz(b), BipHorlogeRaz(b)}
    BY DEF HorlogeEnRaz
  <2> QED BY <1>1, <2>1, RazSaine
<1>3. PICK u : u = t' /\ u = [x \in Boutons |-> ChronoHorlogeRaz(t[x], btn[x])]
  BY DEF HorlogeEnRaz
<1>4. u \in [Boutons -> Chronos]
  <2>1. \A x \in Boutons : ChronoHorlogeRaz(t[x], btn[x]) \in Chronos
    BY <1>1, SeuilAssumption DEF ChronoHorlogeRaz, Chronos, Reponses
  <2> QED BY <1>3, <2>1
<1>5. \A x \in Boutons : u[x].tempo = Rien
  BY <1>3 DEF ChronoHorlogeRaz
<1>6. cur' = cur /\ next' = next /\ btn' = btn
  BY DEF HorlogeEnRaz
<1>7. raz_n' \in BOOLEAN
  BY DEF HorlogeEnRaz
<1>8. TypeOK'
  BY <1>1, <1>2, <1>3, <1>4, <1>6, <1>7 DEF TypeOK
<1>9. "STBY" \notin EtatsTransitoires
  BY DEF EtatsTransitoires, EtatsTransitoires1, EtatsTransitoires10
<1> QED BY <1>1, <1>2, <1>3, <1>5, <1>6, <1>8, <1>9 DEF InvBarre

\* The inductive step when a button moves.
LEMMA BoutonInv == ASSUME InvBarre, NEW x \in Boutons, Bouton(x) PROVE InvBarre'
<1>1. /\ TypeOK /\ b \in Bips /\ BipPlein(b) /\ BipLie(b)
      /\ cur \in Etats /\ next \in Etats /\ btn \in [Boutons -> BOOLEAN]
  BY DEF InvBarre, TypeOK
<1>2. /\ next' = Decode(next, cur, Appuis(t), b.act, b.choix, btn')
      /\ btn' = [btn EXCEPT ![x] = ~@]
      /\ raz_n' = raz_n /\ t' = t /\ b' = b /\ cur' = cur
  BY DEF Bouton
<1>3. next' \in Etats
  BY <1>1, <1>2, DecodeType
<1>4. btn' \in [Boutons -> BOOLEAN]
  BY <1>1, <1>2
<1>5. TypeOK'
  BY <1>1, <1>2, <1>3, <1>4 DEF TypeOK
<1>6. ASSUME next' = "AUTO", cur \in EtatsTransitoires PROVE ~b.att /\ (b.act => b.un = 0)
  <2>1. CASE next = "AUTO"
    BY <1>6, <2>1 DEF InvBarre
  <2>2. CASE next # "AUTO"
    <3>1. ~b.act /\ ~b.choix
      BY <1>2, <1>6, <2>2, RetourJustifie
    <3> QED BY <1>1, <3>1 DEF BipPlein
  <2> QED BY <2>1, <2>2
<1> QED BY <1>2, <1>5, <1>6 DEF InvBarre

\* Every step.
LEMMA EtapeInv == InvBarre /\ [Next]_vars => InvBarre'
<1> SUFFICES ASSUME InvBarre, [Next]_vars PROVE InvBarre'
  OBVIOUS
<1>1. CASE Horloge
  BY <1>1, HorlogeInv
<1>2. CASE HorlogeEnRaz
  BY <1>2, HorlogeEnRazInv
<1>3. CASE EcritRaz \/ RazSysteme
  BY <1>3, RazInv
<1>4. CASE \E x \in Actifs : Bouton(x)
  BY <1>4, BoutonInv, BarreAssumption
<1>5. CASE UNCHANGED vars
  BY <1>5 DEF vars, InvBarre, TypeOK
<1> QED BY <1>1, <1>2, <1>3, <1>4, <1>5 DEF Next

\* It holds when the block is configured.
LEMMA InitInv == Init => InvBarre
<1> SUFFICES ASSUME Init PROVE InvBarre
  OBVIOUS
<1>1. ChronoInitial \in Chronos /\ ChronoInitial.tempo = Rien
  BY SeuilAssumption DEF ChronoInitial, Chronos, Reponses
<1>2. t \in [Boutons -> Chronos] /\ \A x \in Boutons : t[x].tempo = Rien
  BY <1>1 DEF Init
<1>3. cur \in Etats /\ next \in Etats /\ cur \notin EtatsTransitoires
  BY DEF Init, Etats, EtatsVeille, EtatsTransitoires, EtatsTransitoires1,
         EtatsTransitoires10
<1>4. raz_n \in BOOLEAN
  BY DEF Init
<1>5. btn \in [Boutons -> BOOLEAN]
  BY DEF Init
<1> QED BY <1>2, <1>3, <1>4, <1>5, BipInitialSain DEF Init, InvBarre, TypeOK

\* The inductive invariant of the tiller.
THEOREM Invariant == Spec => []InvBarre
BY InitInv, EtapeInv, PTL DEF Spec

\* Registers, latches and states keep their types, whatever resets and presses do.
THEOREM TypeCorrect == Spec => []TypeOK
<1>1. InvBarre => TypeOK
  BY DEF InvBarre
<1> QED BY <1>1, Invariant, PTL

--------------------------------------------------------------------------------
\* A course change stays on the code that the software reads until its bips are
\* over, or until the instant when a press starts a new one
\* (Machine_etat.vhd:61-76), resets and any choice of stages included.
THEOREM CommandeToujoursTenue == Spec => CommandeTenue
<1> DEFINE A == cur' = "AUTO" /\ cur \in EtatsTransitoires => ~b.att /\ (b.act => b.un = 0)
<1>1. InvBarre /\ [Next]_vars => [A]_vars
  <2> SUFFICES ASSUME InvBarre, Next, cur' = "AUTO", cur \in EtatsTransitoires
               PROVE  ~b.att /\ (b.act => b.un = 0)
    OBVIOUS
  <2>1. cur # "AUTO"
    BY DEF EtatsTransitoires, EtatsTransitoires1, EtatsTransitoires10
  <2>2. Horloge
    BY <2>1 DEF Next, HorlogeEnRaz, EcritRaz, RazSysteme, Bouton
  <2>3. next = "AUTO"
    BY <2>2 DEF Horloge
  <2> QED BY <2>3 DEF InvBarre
<1> QED BY <1>1, Invariant, PTL DEF Spec, CommandeTenue

\* A press on STBY/AUTO has started a bip, unless one ended in the same period.
AppuiSonne == t["auto"].tempo # Rien => b.act \/ FinUn(b)

\* An edge that answers a press on STBY/AUTO makes AppuiSonne true, a reset withdraws
\* the answer.
LEMMA EtapeSonne == InvBarre /\ AppuiSonne /\ [Next]_vars => AppuiSonne'
<1> SUFFICES ASSUME InvBarre, AppuiSonne, [Next]_vars, t'["auto"].tempo # Rien
             PROVE  b'.act \/ FinUn(b')
  BY DEF AppuiSonne
<1>1. "auto" \in Boutons
  BY DEF Boutons
<1>2. b \in Bips /\ BipPlein(b) /\ BipLie(b) /\ b.un <= UneSec /\ b.demi <= DemiSec
  BY DEF InvBarre, TypeOK, BipLie
<1>3. CASE Horloge
  <2>1. PICK a, f, d : /\ a = Appuis(t') /\ f = b' /\ f = BipHorloge(b, a)
                       /\ d = BipCompteurs(b)
    BY <1>3 DEF Horloge
  <2>2. Simple(a)
    BY <1>1, <2>1 DEF Simple, Appuis
  <2>3. /\ f.un = d.un
        /\ f.act <=> \/ d.demi = DemiSec
                     \/ d.un # UneSec /\ (b.act \/ Simple(a) \/ Double(a))
    BY <1>2, <2>1, HorlogeEffet
  <2>4. f.act \/ f.un = UneSec
    BY <2>2, <2>3
  <2>5. f.un = UneSec => FinUn(f)
    BY BipAssumption DEF FinUn
  <2> QED BY <2>1, <2>4, <2>5
<1>4. CASE HorlogeEnRaz
  <2>1. PICK u : u = t' /\ u = [x \in Boutons |-> ChronoHorlogeRaz(t[x], btn[x])]
    BY <1>4 DEF HorlogeEnRaz
  <2>2. u["auto"].tempo = Rien
    BY <1>1, <2>1 DEF ChronoHorlogeRaz
  <2> QED BY <2>1, <2>2
<1>5. CASE EcritRaz
  <2>1. PICK u : u = t' /\ u = [x \in Boutons |-> ChronoRaz(ChronoHorloge(t[x], btn[x]))]
    BY <1>5 DEF EcritRaz
  <2>2. u["auto"].tempo = Rien
    BY <1>1, <2>1 DEF ChronoRaz
  <2> QED BY <2>1, <2>2
<1>6. CASE RazSysteme
  <2>1. PICK u : u = t' /\ u = [x \in Boutons |-> ChronoRaz(t[x])]
    BY <1>6 DEF RazSysteme
  <2>2. u["auto"].tempo = Rien
    BY <1>1, <2>1 DEF ChronoRaz
  <2> QED BY <2>1, <2>2
<1>7. CASE (\E x \in Actifs : Bouton(x)) \/ UNCHANGED vars
  <2>1. t' = t /\ b' = b
    BY <1>7 DEF Bouton, vars
  <2> QED BY <2>1 DEF AppuiSonne, FinUn
<1> QED BY <1>3, <1>4, <1>5, <1>6, <1>7 DEF Next

\* At all times.
LEMMA ToutAppuiSonne == Spec => []AppuiSonne
<1>1. Init => AppuiSonne
  <2> SUFFICES ASSUME Init PROVE AppuiSonne
    OBVIOUS
  <2>1. "auto" \in Boutons
    BY DEF Boutons
  <2>2. t["auto"].tempo = Rien
    BY <2>1 DEF Init, ChronoInitial
  <2> QED BY <2>2 DEF AppuiSonne
<1> QED BY <1>1, EtapeSonne, Invariant, PTL DEF Spec

\* The answer of a timer is withdrawn at the next edge.
LEMMA AutoRetire ==
    ASSUME Horloge, t["auto"].tempo # Rien
    PROVE  Appuis(t')["auto"] = Rien
<1>1. "auto" \in Boutons
  BY DEF Boutons
<1>2. PICK u : u = t' /\ u = [x \in Boutons |-> ChronoHorloge(t[x], btn[x])]
  BY DEF Horloge
<1>3. u["auto"].tempo = Rien
  BY <1>1, <1>2 DEF ChronoHorloge
<1> QED BY <1>1, <1>2, <1>3 DEF Appuis

\* One press on STBY/AUTO changes the mode once (Machine_etat.vhd:32 and :40): in the
\* new mode the guard activation_bip = 0 is closed while the answer stands, whatever
\* the latch catches and whenever resets come, unless a bip ended in the very period
\* of the answer (gestion_bip.vhd:92-93).
THEOREM BasculeToujoursUnique == Spec => UneSeuleBascule
<1> DEFINE A == Horloge /\ t["auto"].tempo = Court /\ ModeLeds(cur') # ModeLeds(cur)
                => ~Bascule' \/ FinUn(b)
<1>1. InvBarre /\ AppuiSonne /\ [Next]_vars => [A]_vars
  <2> SUFFICES ASSUME InvBarre, AppuiSonne, Horloge, t["auto"].tempo = Court, ~FinUn(b)
               PROVE  ModeLeds(next') = ModeLeds(cur')
    BY DEF Bascule
  <2>1. Court # Rien
    BY DEF Court, Rien
  <2>2. cur' = next /\ cur' \in Etats /\ next \in Etats
    BY DEF Horloge, InvBarre, TypeOK
  <2>3. PICK a, f, m, n1, n2, n3 : \E g \in Glitches :
          /\ a = Appuis(t') /\ f = b' /\ f = BipHorloge(b, a) /\ m = BipMilieu(b, a)
          /\ n1 = Etage(1, g, next, Decode(next, cur', Appuis(t), b.act, b.choix, btn))
          /\ n2 = Etage(2, g, n1, Decode(n1, cur', a, b.act, b.choix, btn))
          /\ n3 = Etage(3, g, n2, Decode(n2, cur', a, m.act, m.choix, btn))
          /\ next' = Decode(n3, cur', a, f.act, f.choix, btn)
    BY HorlogeEtapes
  <2>4. PICK g \in Glitches :
          /\ n1 = Etage(1, g, next, Decode(next, cur', Appuis(t), b.act, b.choix, btn))
          /\ n2 = Etage(2, g, n1, Decode(n1, cur', a, b.act, b.choix, btn))
          /\ n3 = Etage(3, g, n2, Decode(n2, cur', a, m.act, m.choix, btn))
          /\ next' = Decode(n3, cur', a, f.act, f.choix, btn)
    BY <2>3
  <2>5. ModeLeds(next) = ModeLeds(cur')
    BY <2>2
  <2>6. a["auto"] # Court
    BY <2>1, <2>3, AutoRetire
  <2>7. b.act
    BY <2>1 DEF AppuiSonne
  <2>8. n1 \in Etats /\ ModeLeds(n1) = ModeLeds(cur')
    <3>1. b.act \/ Appuis(t)["auto"] # Court
      BY <2>7
    <3>2. PICK appui, act : appui = Appuis(t) /\ act = b.act
      OBVIOUS
    <3>3. n1 = Etage(1, g, next, Decode(next, next, appui, act, b.choix, btn))
      BY <2>2, <2>4, <3>2
    <3>4. act \/ appui["auto"] # Court
      BY <3>1, <3>2
    <3>5. n1 \in Etats /\ ModeLeds(n1) = ModeLeds(next)
      BY <2>2, <3>3, <3>4, DecodeMode
    <3> QED BY <2>2, <3>5
  <2>9. n2 \in Etats /\ ModeLeds(n2) = ModeLeds(cur')
    BY <2>2, <2>6, <2>4, <2>8, DecodeMode
  <2>10. n3 \in Etats /\ ModeLeds(n3) = ModeLeds(cur')
    BY <2>2, <2>6, <2>4, <2>9, DecodeMode
  <2>11. ModeLeds(next') = ModeLeds(cur')
    BY <2>2, <2>6, <2>4, <2>10, DecodeMode
  <2> QED BY <2>11
<1> QED BY <1>1, Invariant, ToutAppuiSonne, PTL DEF Spec, UneSeuleBascule

\* The press excepted there is cancelled: the first stage of the next edge decodes its
\* answer again, this time in the new mode and in silence, and the latch points back to
\* the mode that the press left.
THEOREM BasculeToujoursAnnulee ==
    ASSUME \A g \in Glitches : 1 \in g
    PROVE  Spec => BasculeAnnulee
<1> DEFINE A == /\ Horloge /\ t["auto"].tempo = Court /\ FinUn(b)
                /\ {cur, cur'} = {"STBY", "AUTO"} /\ SansRival(cur', Appuis(t'), btn)
                => next' = cur
<1>1. InvBarre /\ [Next]_vars => [A]_vars
  <2> SUFFICES ASSUME InvBarre, Horloge, t["auto"].tempo = Court, FinUn(b),
                      {cur, cur'} = {"STBY", "AUTO"}, SansRival(cur', Appuis(t'), btn)
               PROVE  next' = cur
    OBVIOUS
  <2>1. "auto" \in Boutons /\ Court # Rien /\ Rien # Long
    BY DEF Boutons, Court, Rien, Long
  <2>2. /\ cur \in {"STBY", "AUTO"} /\ cur' \in {"STBY", "AUTO"} /\ cur # cur'
        /\ cur' = next
    BY DEF Horloge
  <2>3. ~b.act
    <3>1. b.un \in 0..MaxUn /\ (b.act => b.un < UneSec)
      BY Champs DEF InvBarre, TypeOK, BipPlein
    <3> QED BY <3>1, BipAssumption DEF FinUn
  <2>4. PICK a, f, m, n1, n2, n3 : \E g \in Glitches :
          /\ a = Appuis(t') /\ f = b' /\ f = BipHorloge(b, a) /\ m = BipMilieu(b, a)
          /\ n1 = Etage(1, g, next, Decode(next, cur', Appuis(t), b.act, b.choix, btn))
          /\ n2 = Etage(2, g, n1, Decode(n1, cur', a, b.act, b.choix, btn))
          /\ n3 = Etage(3, g, n2, Decode(n2, cur', a, m.act, m.choix, btn))
          /\ next' = Decode(n3, cur', a, f.act, f.choix, btn)
    BY HorlogeEtapes
  <2>5. a["auto"] # Long /\ SansRival(cur', a, btn)
    BY <2>1, <2>4, AutoRetire
  <2>6. n1 = cur
    <3>1. n1 = Decode(next, cur', Appuis(t), b.act, b.choix, btn)
      BY <2>4 DEF Etage
    <3>2. Appuis(t)["auto"] = Court
      BY <2>1 DEF Appuis
    <3> QED BY <2>2, <2>3, <3>1, <3>2, BasculeDecodee
  <2>7. n2 = cur
    BY <2>2, <2>4, <2>5, <2>6, BasculeTenue
  <2>8. n3 = cur
    BY <2>2, <2>4, <2>5, <2>7, BasculeTenue
  <2>9. next' = cur
    BY <2>2, <2>4, <2>5, <2>8, BasculeTenue
  <2> QED BY <2>9
<1> QED BY <1>1, Invariant, PTL DEF Spec, BasculeAnnulee

\* A bip that has just begun was not sounding before the edge.
LEMMA BipNouveau ==
    ASSUME NEW c \in Bips, BipPlein(c), BipLie(c), NEW a, BipHorloge(c, a).un = 0
    PROVE  ~c.act
<1> SUFFICES ASSUME c.act PROVE FALSE
  OBVIOUS
<1> DEFINE d == BipCompteurs(c)
           f == BipHorloge(c, a)
<1>1. d = BipCompteurs(c) /\ f = BipHorloge(c, a) /\ f.un = 0
  OBVIOUS
<1> HIDE DEF d, f
<1>2. c.un <= UneSec /\ c.demi <= DemiSec /\ c.un < UneSec /\ c.un \in 0..MaxUn
  BY Champs DEF BipLie, BipPlein
<1>3. d.un = IF c.un = UneSec THEN 0 ELSE IF c.act THEN c.un + 1 ELSE c.un
  BY <1>1, <1>2, CompteursAvancent
<1>4. d.un = c.un + 1
  BY <1>2, <1>3, BipAssumption
<1>5. f.un = d.un
  BY <1>1, <1>2, HorlogeEffet
<1> QED BY <1>1, <1>2, <1>4, <1>5

\* A hub whose latch points to the other mode keeps it so while the answer stands and
\* nothing competes with the press.
LEMMA ModeTenu ==
    ASSUME NEW n, NEW c \in {"STBY", "AUTO"}, ModeLeds(n) # ModeLeds(c),
           NEW a, NEW act, NEW choix, NEW x, NEW k, NEW g,
           SansRival(c, a, x), a["auto"] = Court
    PROVE  /\ ModeLeds(Decode(n, c, a, act, choix, x)) # ModeLeds(c)
           /\ ModeLeds(Etage(k, g, n, Decode(n, c, a, act, choix, x))) # ModeLeds(c)
<1>1. PICK autre \in {"STBY", "AUTO"} : autre # c
  OBVIOUS
<1>2. ModeLeds(autre) # ModeLeds(c)
  BY <1>1 DEF ModeLeds, EtatsVeille
<1>3. a["auto"] # Long
  BY DEF Court, Long
<1>4. /\ Decode(n, c, a, act, choix, x) \in {n, autre}
      /\ Etage(k, g, n, Decode(n, c, a, act, choix, x)) \in {n, autre}
  BY <1>1, <1>3, BasculeTenue
<1> QED BY <1>2, <1>4

\* The guard activation_bip = 0 (Machine_etat.vhd:32 and :40) is closed by the bip that
\* the press itself starts: the mode changes all the same, provided that the latch
\* catches the stage at which the answer of the timer has come and the bip has not, and
\* that nothing competes with the press.
THEOREM BasculeToujoursEntendue ==
    ASSUME \A g \in Glitches : 2 \in g
    PROVE  Spec => BasculeEntendue
<1> DEFINE A == /\ t'["auto"].tempo = Court /\ b'.act /\ b'.un = 0
                /\ cur' \in {"STBY", "AUTO"} /\ SansRival(cur', Appuis(t'), btn')
                /\ Horloge \/ Bascule
                => Bascule'
<1>1. InvBarre /\ [Next]_vars => [A]_vars
  <2> SUFFICES ASSUME InvBarre, Next,
                      t'["auto"].tempo = Court, b'.un = 0, cur' \in {"STBY", "AUTO"},
                      SansRival(cur', Appuis(t'), btn'), Horloge \/ Bascule
               PROVE  ModeLeds(next') # ModeLeds(cur')
    BY DEF Bascule
  <2>1. "auto" \in Boutons /\ Court # Rien
    BY DEF Boutons, Court, Rien
  <2>2. CASE Horloge
    <3>1. b \in Bips /\ BipPlein(b) /\ BipLie(b) /\ btn' = btn
      BY <2>2 DEF InvBarre, TypeOK, Horloge
    <3>2. PICK a, f, m, n1, n2, n3 : \E g \in Glitches :
          /\ a = Appuis(t') /\ f = b' /\ f = BipHorloge(b, a) /\ m = BipMilieu(b, a)
          /\ n1 = Etage(1, g, next, Decode(next, cur', Appuis(t), b.act, b.choix, btn))
          /\ n2 = Etage(2, g, n1, Decode(n1, cur', a, b.act, b.choix, btn))
          /\ n3 = Etage(3, g, n2, Decode(n2, cur', a, m.act, m.choix, btn))
          /\ next' = Decode(n3, cur', a, f.act, f.choix, btn)
      BY <2>2, HorlogeEtapes
    <3>3. PICK g \in Glitches :
          /\ n2 = Etage(2, g, n1, Decode(n1, cur', a, b.act, b.choix, btn))
          /\ n3 = Etage(3, g, n2, Decode(n2, cur', a, m.act, m.choix, btn))
          /\ next' = Decode(n3, cur', a, f.act, f.choix, btn)
      BY <3>2
    <3>4. a["auto"] = Court /\ SansRival(cur', a, btn)
      BY <2>1, <3>1, <3>2 DEF Appuis
    <3>5. ~b.act
      BY <3>1, <3>2, BipNouveau
    <3>6. ModeLeds(n2) # ModeLeds(cur')
      <4>1. n2 = Decode(n1, cur', a, b.act, b.choix, btn)
        BY <3>3 DEF Etage
      <4>2. PICK autre \in {"STBY", "AUTO"} : autre # cur'
        OBVIOUS
      <4>3. n2 = autre
        BY <3>4, <3>5, <4>1, <4>2, BasculeDecodee
      <4> QED BY <4>2, <4>3 DEF ModeLeds, EtatsVeille
    <3>7. ModeLeds(n3) # ModeLeds(cur')
      BY <3>3, <3>4, <3>6, ModeTenu
    <3>8. next' = Decode(n3, cur', a, f.act, f.choix, btn)
      BY <3>3
    <3>9. ModeLeds(Decode(n3, cur', a, f.act, f.choix, btn)) # ModeLeds(cur')
      BY <3>4, <3>7, ModeTenu
    <3> QED BY <3>8, <3>9
  <2>3. CASE HorlogeEnRaz
    <3>1. PICK u : u = t' /\ u = [x \in Boutons |-> ChronoHorlogeRaz(t[x], btn[x])]
      BY <2>3 DEF HorlogeEnRaz
    <3>2. u["auto"].tempo = Rien
      BY <2>1, <3>1 DEF ChronoHorlogeRaz
    <3> QED BY <2>1, <3>1, <3>2
  <2>4. CASE EcritRaz
    <3>1. PICK u : u = t' /\ u = [x \in Boutons |-> ChronoRaz(ChronoHorloge(t[x], btn[x]))]
      BY <2>4 DEF EcritRaz
    <3>2. u["auto"].tempo = Rien
      BY <2>1, <3>1 DEF ChronoRaz
    <3> QED BY <2>1, <3>1, <3>2
  <2>5. CASE RazSysteme
    <3>1. PICK u : u = t' /\ u = [x \in Boutons |-> ChronoRaz(t[x])]
      BY <2>5 DEF RazSysteme
    <3>2. u["auto"].tempo = Rien
      BY <2>1, <3>1 DEF ChronoRaz
    <3> QED BY <2>1, <3>1, <3>2
  <2>6. CASE (\E x \in Actifs : Bouton(x)) /\ ~Horloge
    <3>1. /\ cur' = cur /\ t' = t
          /\ next' = Decode(next, cur, Appuis(t), b.act, b.choix, btn')
      BY <2>6 DEF Bouton
    <3>2. ModeLeds(next) # ModeLeds(cur)
      BY <2>6 DEF Bascule
    <3>3. Appuis(t)["auto"] = Court /\ SansRival(cur, Appuis(t), btn')
      BY <2>1, <3>1 DEF Appuis
    <3> QED BY <3>1, <3>2, <3>3, ModeTenu
  <2> QED BY <2>2, <2>3, <2>4, <2>5, <2>6 DEF Next
<1> QED BY <1>1, Invariant, PTL DEF Spec, BasculeEntendue

\* Every step of the tiller is, for its bip, a step of GestionBip.tla: what is shown
\* there, for answers of any origin, holds here.
THEOREM BarreEntoureLeBip == Spec => EntoureLeBip
<1> USE DEF LeBip!BipHorloge, LeBip!BipFin, LeBip!BipMilieu, LeBip!BipCompteurs,
            LeBip!Verrou, LeBip!Simple, LeBip!Double, LeBip!FinUn, LeBip!FinDemi
<1>1. Init => LeBip!Init
  <2>1. ChronoInitial.tempo = Rien
    BY DEF ChronoInitial
  <2>2. Init => Appuis(t) = [x \in Boutons |-> Rien]
    BY <2>1 DEF Init, Appuis
  <2> QED BY <2>2, BarreAssumption DEF Init, LeBip!Init, LeBip!SansAppui, LeBip!Boutons, Boutons,
                      LeBip!Rien, Rien, LeBip!BipInitial, BipInitial
<1>2. InvBarre /\ InvBarre' /\ [Next]_vars => [LeBip!Next]_<<raz_n, Appuis(t), b>>
  <2> SUFFICES ASSUME InvBarre, InvBarre', [Next]_vars
               PROVE  [LeBip!Next]_<<raz_n, Appuis(t), b>>
    OBVIOUS
  <2>1. t \in [Boutons -> Chronos] /\ t' \in [Boutons -> Chronos]
    BY DEF InvBarre, TypeOK
  <2>2. LeBip!SansAppui = [x \in Boutons |-> Rien] /\ LeBip!Boutons = Boutons /\ LeBip!Rien = Rien
        /\ LeBip!Reponses = Reponses
    BY DEF LeBip!SansAppui, LeBip!Boutons, Boutons, LeBip!Rien, Rien, LeBip!Reponses,
           Reponses, LeBip!Court, Court, LeBip!Long, Long
  <2>3. CASE Horloge
    <3>1. PICK a : a = Appuis(t')
      OBVIOUS
    <3>2. b' = BipHorloge(b, a) /\ raz_n /\ raz_n' = raz_n
      BY <2>3, <3>1 DEF Horloge
    <3>3. a \in [Boutons -> Reponses]
      BY <2>1, <3>1 DEF Appuis, Chronos
    <3>4. \A x \in Boutons : t[x].tempo # Rien => t'[x].tempo = Rien
      BY <2>3, AppuisBarre DEF Horloge, InvBarre
    <3>5. \A x \in Boutons : Appuis(t)[x] # Rien => a[x] = Rien
      BY <3>1, <3>4 DEF Appuis
    <3>6. BipHorloge(b, a) = LeBip!BipHorloge(b, a)
      BY DEF BipHorloge, BipFin, BipMilieu, BipCompteurs, Verrou, Simple, Double, FinUn,
             FinDemi, FrontMontant, LeBip!FrontMontant, Compteur, LeBip!Compteur,
             Court, LeBip!Court, Long, LeBip!Long, Rien, LeBip!Rien
    <3>7. LeBip!Horloge
      BY <2>2, <3>1, <3>2, <3>3, <3>5, <3>6 DEF LeBip!Horloge
    <3> QED BY <3>7 DEF LeBip!Next
  <2>4. CASE HorlogeEnRaz
    <3>1. Appuis(t') = Appuis(t)
      BY <2>4 DEF InvBarre, HorlogeEnRaz, ChronoHorlogeRaz, Appuis
    <3>2. LeBip!HorlogeEnRaz
      BY <2>4, <3>1 DEF HorlogeEnRaz, LeBip!HorlogeEnRaz, BipHorlogeRaz,
         LeBip!BipHorlogeRaz, FinUn, FinDemi
    <3> QED BY <3>2 DEF LeBip!Next
  <2>5. CASE EcritRaz \/ RazSysteme
    <3>1. Appuis(t') = [x \in Boutons |-> Rien]
      <4>1. ~raz_n'
        BY <2>5 DEF EcritRaz, RazSysteme
      <4>2. \A x \in Boutons : t'[x].tempo = Rien
        BY <4>1 DEF InvBarre
      <4> QED BY <4>2 DEF Appuis
    <3>2. b' \in {LeBip!BipRaz(b), LeBip!BipHorlogeRaz(b)}
      BY <2>5 DEF EcritRaz, RazSysteme, BipHorlogeRaz, LeBip!BipHorlogeRaz, FinUn, FinDemi,
         BipRaz, LeBip!BipRaz
    <3>3. LeBip!Raz
      BY <2>2, <2>5, <3>1, <3>2 DEF EcritRaz, RazSysteme, LeBip!Raz
    <3> QED BY <3>3 DEF LeBip!Next
  <2>6. CASE \E x \in Actifs : Bouton(x)
    BY <2>6 DEF Bouton, Appuis
  <2>7. CASE UNCHANGED vars
    BY <2>7 DEF vars, Appuis
  <2> QED BY <2>3, <2>4, <2>5, <2>6, <2>7 DEF Next
<1> QED BY <1>1, <1>2, Invariant, PTL DEF Spec, EntoureLeBip

--------------------------------------------------------------------------------
\* The surroundings of the LEDs.

\* The buttons that the LEDs see.
Rames(x) == [c \in {"babord", "tribord"} |-> x[c]]

\* Decoding gives a successor that the view allows, or keeps the latch where it may.
LEMMA DecodeVue ==
    ASSUME NEW c \in Etats, NEW n, NEW a, NEW act, NEW choix, NEW x
    PROVE  \/ Decode(n, c, a, act, choix, x) \in LaVue!Suivants(c, Rames(x))
           \/ Decode(n, c, a, act, choix, x) = n /\ LaVue!Tient(c, Rames(x))
<1> USE DEF Etats, EtatsVeille, EtatsTransitoires, EtatsTransitoires1, EtatsTransitoires10,
            LaVue!EtatsTransitoires, LaVue!EtatsTransitoires1, LaVue!EtatsTransitoires10
<1>1. CASE c = "STBY"
  <2>1. Decode(n, c, a, act, choix, x) = DepuisSTBY(n, a, act, x)
    BY <1>1 DEF Decode
  <2> QED BY <1>1, <2>1 DEF DepuisSTBY, LaVue!Suivants, LaVue!Tient, Rames
<1>2. CASE c = "AUTO"
  <2>1. Decode(n, c, a, act, choix, x) = DepuisAUTO(n, a, act)
    BY <1>2 DEF Decode
  <2>2. LaVue!Tient(c, Rames(x)) /\ LaVue!Suivants(c, Rames(x)) = {"AUTO", "STBY"} \cup EtatsTransitoires
    BY <1>2 DEF LaVue!Suivants, LaVue!Tient
  <2> QED BY <2>1, <2>2 DEF DepuisAUTO
<1>3. CASE c = "STBY_babord"
  <2>1. Decode(n, c, a, act, choix, x) = RetourSTBY(n, x, "babord")
    BY <1>3 DEF Decode
  <2> QED BY <1>3, <2>1 DEF RetourSTBY, LaVue!Suivants, LaVue!Tient, Rames
<1>4. CASE c = "STBY_tribord"
  <2>1. Decode(n, c, a, act, choix, x) = RetourSTBY(n, x, "tribord")
    BY <1>4 DEF Decode
  <2> QED BY <1>4, <2>1 DEF RetourSTBY, LaVue!Suivants, LaVue!Tient, Rames
<1>5. CASE c \in EtatsTransitoires
  <2>1. \E cote : Decode(n, c, a, act, choix, x) = RetourAUTO(n, a, act, choix, cote)
    BY <1>5 DEF Decode
  <2>2. LaVue!Tient(c, Rames(x)) /\ LaVue!Suivants(c, Rames(x)) = {"AUTO"}
    BY <1>5 DEF LaVue!Suivants, LaVue!Tient
  <2> QED BY <2>1, <2>2 DEF RetourAUTO
<1> QED BY <1>1, <1>2, <1>3, <1>4, <1>5

\* So does decoding after stages that the latch caught or missed, m being what it held.
LEMMA SettleVue ==
    ASSUME NEW c \in Etats, NEW m, NEW x, NEW n \in {m} \cup LaVue!Settle(m, c, Rames(x)),
           NEW a, NEW act, NEW choix, NEW k, NEW g
    PROVE  /\ Decode(n, c, a, act, choix, x) \in LaVue!Settle(m, c, Rames(x))
           /\ Etage(k, g, n, Decode(n, c, a, act, choix, x)) \in {m} \cup LaVue!Settle(m, c, Rames(x))
<1>1. Decode(n, c, a, act, choix, x) \in LaVue!Settle(m, c, Rames(x))
  BY DecodeVue DEF LaVue!Settle
<1> QED BY <1>1 DEF Etage

\* The first stage starts from the latch itself.
LEMMA EtageVue ==
    ASSUME NEW c \in Etats, NEW m, NEW x, NEW a, NEW act, NEW choix, NEW k, NEW g, NEW n,
           n = Etage(k, g, m, Decode(m, c, a, act, choix, x))
    PROVE  n \in {m} \cup LaVue!Settle(m, c, Rames(x))
<1> DEFINE S == {m} \cup LaVue!Settle(m, c, Rames(x))
<1>1. m \in S
  OBVIOUS
<1>2. Decode(m, c, a, act, choix, x) \in LaVue!Settle(m, c, Rames(x))
  BY DecodeVue DEF LaVue!Settle
<1> QED BY <1>1, <1>2 DEF Etage

\* A latch that has settled does not move with the button of the mode.
LEMMA DecodeStable ==
    ASSUME NEW c \in Etats, NEW n, NEW a, NEW act, NEW choix, NEW x, NEW y,
           x["babord"] = y["babord"], x["tribord"] = y["tribord"],
           NEW d, d = Decode(n, c, a, act, choix, x)
    PROVE  Decode(d, c, a, act, choix, y) = d
<1> USE DEF Etats, EtatsVeille, EtatsTransitoires, EtatsTransitoires1, EtatsTransitoires10
<1>1. CASE c = "STBY"
  BY <1>1 DEF Decode, DepuisSTBY
<1>2. CASE c = "AUTO"
  BY <1>2 DEF Decode, DepuisAUTO
<1>3. CASE c \in {"STBY_babord", "STBY_tribord"}
  BY <1>3 DEF Decode, RetourSTBY
<1>4. CASE c \in EtatsTransitoires
  BY <1>4 DEF Decode, RetourAUTO
<1> QED BY <1>1, <1>2, <1>3, <1>4

\* Between two steps the latch has settled; nothing sounds in reset.
Pose == /\ next = Decode(next, cur, Appuis(t), b.act, b.choix, btn)
        /\ ~raz_n => b.act = FALSE

\* The inductive step.
LEMMA EtapePose == InvBarre /\ Pose /\ [Next]_vars => Pose'
<1> SUFFICES ASSUME InvBarre, Pose, [Next]_vars PROVE Pose'
  OBVIOUS
<1>1. InvBarre' /\ cur \in Etats /\ cur' \in Etats
  BY EtapeInv DEF InvBarre, TypeOK
<1>2. CASE Horloge
  <2>1. PICK n : next' = Decode(n, cur', Appuis(t'), b'.act, b'.choix, btn)
    BY <1>2 DEF Horloge
  <2>2. btn' = btn /\ raz_n' = raz_n /\ raz_n
    BY <1>2 DEF Horloge
  <2>3. next' = Decode(next', cur', Appuis(t'), b'.act, b'.choix, btn)
    BY <1>1, <2>1, DecodeStable
  <2> QED BY <2>2, <2>3 DEF Pose, Appuis
<1>3. CASE HorlogeEnRaz
  <2>1. /\ cur' = cur /\ next' = next /\ btn' = btn
        /\ b'.act = FALSE /\ b'.choix = b.choix /\ b.act = FALSE
    BY <1>3 DEF HorlogeEnRaz, BipHorlogeRaz, Pose
  <2>2. Appuis(t') = Appuis(t)
    BY <1>3 DEF InvBarre, HorlogeEnRaz, ChronoHorlogeRaz, Appuis
  <2>3. next = Decode(next, cur, Appuis(t), b.act, b.choix, btn)
    BY DEF Pose
  <2> QED BY <2>1, <2>2, <2>3 DEF Pose, Appuis
<1>4. CASE EcritRaz \/ RazSysteme
  <2>1. PICK n : next' = Decode(n, "STBY", SansAppui, FALSE, b.choix, btn)
    BY <1>4 DEF EcritRaz, RazSysteme
  <2>2. cur' = "STBY" /\ btn' = btn /\ ~raz_n' /\ b'.act = FALSE /\ b'.choix = b.choix
    <3>1. b' \in {BipRaz(b), BipHorlogeRaz(b)} /\ cur' = "STBY" /\ btn' = btn /\ ~raz_n'
      BY <1>4 DEF EcritRaz, RazSysteme
    <3> QED BY <3>1 DEF BipRaz, BipHorlogeRaz
  <2>3. \A x \in Boutons : t'[x].tempo = Rien
    BY <1>1, <2>2 DEF InvBarre
  <2>4. Appuis(t') = SansAppui
    BY <2>3 DEF Appuis, SansAppui
  <2>5. next' = Decode(next', "STBY", SansAppui, FALSE, b.choix, btn)
    <3>1. "STBY" \in Etats
      BY <1>1, <2>2
    <3>2. PICK act : act = FALSE
      OBVIOUS
    <3>3. next' = Decode(n, "STBY", SansAppui, act, b.choix, btn)
      BY <2>1, <3>2
    <3>4. Decode(next', "STBY", SansAppui, act, b.choix, btn) = next'
      BY <3>1, <3>3, DecodeStable
    <3> QED BY <3>2, <3>4
  <2> QED BY <2>2, <2>4, <2>5 DEF Pose, Appuis
<1>5. CASE \E x \in Actifs : Bouton(x)
  <2>1. /\ next' = Decode(next, cur, Appuis(t), b.act, b.choix, btn')
        /\ raz_n' = raz_n /\ t' = t /\ b' = b /\ cur' = cur
    BY <1>5 DEF Bouton
  <2>2. next' = Decode(next', cur, Appuis(t), b.act, b.choix, btn')
    BY <1>1, <2>1, DecodeStable
  <2> QED BY <2>1, <2>2 DEF Pose, Appuis
<1>6. CASE UNCHANGED vars
  BY <1>6 DEF vars, Pose, Appuis
<1> QED BY <1>2, <1>3, <1>4, <1>5, <1>6 DEF Next

\* Every step of the tiller is, for its LEDs, a step of BarreVue.tla: what GestionLeds
\* shows of the LEDs, for any such steps, holds here.
THEOREM BarreEntoureLesLeds == Spec => EntoureLesLeds
<1> USE DEF LaVue!Rien, Rien
<1>0. LaVue!Cotes = {"babord", "tribord"} /\ LaVue!Etats = Etats /\ LaVue!Reponses = Reponses
  BY DEF LaVue!Cotes, LaVue!Etats, LaVue!EtatsVeille, LaVue!EtatsTransitoires,
         LaVue!EtatsTransitoires1, LaVue!EtatsTransitoires10, Etats, EtatsVeille,
         EtatsTransitoires, EtatsTransitoires1, EtatsTransitoires10, LaVue!Reponses, Reponses,
         LaVue!Court, Court, LaVue!Long, Long
<1>a. BarreLue(SansAppui) = Rien
  BY DEF BarreLue, SansAppui, Double, Simple, Boutons, Court, Long
<1>b. \A a : BarreLue(a) \in Reponses
  BY DEF BarreLue, Reponses
<1>1. Init => LaVue!VueInit /\ Pose
  <2> SUFFICES ASSUME Init PROVE LaVue!VueInit /\ Pose
    OBVIOUS
  <2>1. Appuis(t) = SansAppui
    BY DEF Init, Appuis, SansAppui, ChronoInitial
  <2>2. raz_n = FALSE /\ cur = "STBY" /\ next = "STBY" /\ b.act = FALSE /\ b.choix = FALSE
        /\ btn = [x \in Boutons |-> FALSE]
    BY DEF Init, BipInitial
  <2>3. [x \in {"babord", "tribord"} |-> btn[x]] = [x \in {"babord", "tribord"} |-> FALSE]
    BY <2>2 DEF Boutons
  <2>4. LaVue!VueInit
    BY <1>0, <1>a, <2>1, <2>2, <2>3 DEF LaVue!VueInit
  <2>5. Decode("STBY", "STBY", SansAppui, FALSE, FALSE, btn) = "STBY"
    BY <2>2 DEF Decode, DepuisSTBY, SansAppui, Boutons, Court
  <2> QED BY <2>1, <2>2, <2>4, <2>5 DEF Pose
<1>2. InvBarre /\ Pose /\ [Next]_vars => [LaVue!VueNext]_(LaVue!vue)
  <2> SUFFICES ASSUME InvBarre, Pose, [Next]_vars PROVE [LaVue!VueNext]_(LaVue!vue)
    OBVIOUS
  <2>1. InvBarre' /\ cur \in Etats /\ next \in Etats /\ cur' \in Etats
        /\ btn \in [Boutons -> BOOLEAN]
    BY EtapeInv DEF InvBarre, TypeOK
  <2>2. CASE Horloge
    <3>1. /\ cur' = next /\ btn' = btn /\ raz_n /\ raz_n' = raz_n
      BY <2>2 DEF Horloge
    <3>2. PICK a, f, m, n1, n2, n3 : \E g \in Glitches :
          /\ a = Appuis(t') /\ f = b' /\ f = BipHorloge(b, a) /\ m = BipMilieu(b, a)
          /\ n1 = Etage(1, g, next, Decode(next, cur', Appuis(t), b.act, b.choix, btn))
          /\ n2 = Etage(2, g, n1, Decode(n1, cur', a, b.act, b.choix, btn))
          /\ n3 = Etage(3, g, n2, Decode(n2, cur', a, m.act, m.choix, btn))
          /\ next' = Decode(n3, cur', a, f.act, f.choix, btn)
      BY <2>2, HorlogeEtapes
    <3> DEFINE S == {next} \cup LaVue!Settle(next, cur', Rames(btn))
    <3>3. n1 \in S
      BY <2>1, <3>2, EtageVue
    <3>4. n2 \in S
      BY <2>1, <3>2, <3>3, SettleVue
    <3>5. n3 \in S
      BY <2>1, <3>2, <3>4, SettleVue
    <3>6. next' \in LaVue!Settle(next, cur', Rames(btn))
      <4>1. next' = Decode(n3, cur', a, f.act, f.choix, btn)
        BY <3>2
      <4>2. Decode(n3, cur', a, f.act, f.choix, btn) \in LaVue!Settle(next, cur', Rames(btn))
        BY <2>1, <3>5, SettleVue
      <4> QED BY <4>1, <4>2
    <3>7. LaVue!VueHorloge
      BY <1>0, <1>b, <3>1, <3>6 DEF LaVue!VueHorloge, Rames
    <3> QED BY <3>7 DEF LaVue!VueNext
  <2>3. CASE HorlogeEnRaz
    <3>1. Appuis(t') = Appuis(t)
      BY <2>3 DEF InvBarre, HorlogeEnRaz, ChronoHorlogeRaz, Appuis
    <3>2. LaVue!VueHorlogeEnRaz
      BY <2>3, <3>1 DEF HorlogeEnRaz, LaVue!VueHorlogeEnRaz
    <3> QED BY <3>2 DEF LaVue!VueNext
  <2>4. CASE EcritRaz \/ RazSysteme
    <3>1. raz_n /\ raz_n' = FALSE /\ cur' = "STBY" /\ btn' = btn
      BY <2>4 DEF EcritRaz, RazSysteme
    <3>2. \A x \in Boutons : t'[x].tempo = Rien
      BY <2>1, <3>1 DEF InvBarre
    <3>3. Appuis(t') = SansAppui
      BY <3>2 DEF Appuis, SansAppui
    <3>4. \E n \in Etats : next' \in LaVue!Settle(n, "STBY", Rames(btn))
      <4>1. CASE EcritRaz
        <5>1. PICK a, n1, n2 : \E g \in Glitches :
                /\ n1 = Etage(1, g, next, Decode(next, next, Appuis(t), b.act, b.choix, btn))
                /\ n2 = Etage(2, g, n1, Decode(n1, "STBY", a, b.act, b.choix, btn))
                /\ next' = Decode(n2, "STBY", SansAppui, FALSE, b.choix, btn)
          BY <4>1 DEF EcritRaz
        <5>2. n1 \in Etats
          BY <2>1, <5>1, EtageType
        <5>3. "STBY" \in Etats
          BY <2>1, <3>1
        <5>4. n2 \in {n1} \cup LaVue!Settle(n1, "STBY", Rames(btn))
          BY <5>1, <5>3, EtageVue
        <5>5. next' \in LaVue!Settle(n1, "STBY", Rames(btn))
          BY <5>1, <5>3, <5>4, SettleVue, ZenonT(60)
        <5> QED BY <5>2, <5>5
      <4>2. CASE RazSysteme
        <5>1. PICK n2 : \E g \in Glitches :
                /\ n2 = Etage(2, g, next, Decode(next, "STBY", Appuis(t), b.act, b.choix, btn))
                /\ next' = Decode(n2, "STBY", SansAppui, FALSE, b.choix, btn)
          BY <4>2 DEF RazSysteme
        <5>2. "STBY" \in Etats
          BY <2>1, <3>1
        <5>3. n2 \in {next} \cup LaVue!Settle(next, "STBY", Rames(btn))
          BY <5>1, <5>2, EtageVue
        <5>4. next' \in LaVue!Settle(next, "STBY", Rames(btn))
          BY <5>1, <5>2, <5>3, SettleVue
        <5> QED BY <2>1, <5>4
      <4> QED BY <2>4, <4>1, <4>2
    <3>5. LaVue!VueRaz
      BY <1>0, <1>a, <3>1, <3>3, <3>4 DEF LaVue!VueRaz, Rames
    <3> QED BY <3>5 DEF LaVue!VueNext
  <2>5. ASSUME NEW x \in Actifs, Bouton(x) PROVE [LaVue!VueNext]_(LaVue!vue)
    <3>1. /\ next' = Decode(next, cur, Appuis(t), b.act, b.choix, btn')
          /\ btn' = [btn EXCEPT ![x] = ~@] /\ x \in Boutons
          /\ raz_n' = raz_n /\ t' = t /\ b' = b /\ cur' = cur
      BY <2>5, BarreAssumption DEF Bouton
    <3>2. Appuis(t') = Appuis(t)
      BY <3>1 DEF Appuis
    <3>3. next' \in LaVue!Settle(next, cur, Rames(btn'))
      BY <2>1, <3>1, SettleVue
    <3>4. CASE x \in {"babord", "tribord"}
      <4>1. Rames(btn') = [Rames(btn) EXCEPT ![x] = ~@]
        BY <2>1, <3>1, <3>4 DEF Rames, Boutons
      <4>2. LaVue!VueBouton(x)
        BY <3>1, <3>2, <3>3, <4>1 DEF LaVue!VueBouton, Rames
      <4> QED BY <1>0, <3>4, <4>2 DEF LaVue!VueNext
    <3>5. CASE x = "auto"
      <4>1. btn'["babord"] = btn["babord"] /\ btn'["tribord"] = btn["tribord"]
        BY <2>1, <3>1, <3>5 DEF Boutons
      <4>2. next' = next
        <5>1. next = Decode(next, cur, Appuis(t), b.act, b.choix, btn)
          BY DEF Pose
        <5>2. Decode(next, cur, Appuis(t), b.act, b.choix, btn') = next
          BY <2>1, <4>1, <5>1, DecodeStable
        <5> QED BY <3>1, <5>2
      <4>3. Rames(btn') = Rames(btn)
        BY <4>1 DEF Rames
      <4> QED BY <3>1, <3>2, <4>2, <4>3 DEF LaVue!vue, Rames
    <3> QED BY <3>1, <3>4, <3>5 DEF Boutons
  <2>6. CASE UNCHANGED vars
    BY <2>6 DEF vars, LaVue!vue, Appuis
  <2> QED BY <2>2, <2>3, <2>4, <2>5, <2>6 DEF Next
<1> QED BY <1>1, <1>2, EtapePose, Invariant, PTL DEF Spec, EntoureLesLeds

--------------------------------------------------------------------------------
\* The timers, with the history of the presses.

\* What is proved of one timer, for each of the three.
PreuveAuto    == INSTANCE AppuiBouton_proofs WITH
                     btn <- btn["auto"], t <- t["auto"], duree <- duree["auto"]
PreuveBabord  == INSTANCE AppuiBouton_proofs WITH
                     btn <- btn["babord"], t <- t["babord"], duree <- duree["babord"]
PreuveTribord == INSTANCE AppuiBouton_proofs WITH
                     btn <- btn["tribord"], t <- t["tribord"], duree <- duree["tribord"]

\* A reset forgets the presses, and they stay forgotten until its end.
Oubli == ~raz_n => duree = AucunAppui

\* The steps of AppuiBouton.tla, in the terms of the tiller.
PasChrono(x) ==
    \/ /\ raz_n /\ raz_n' = raz_n /\ btn'[x] = btn[x]
       /\ t'[x] = ChronoHorloge(t[x], btn[x])
       /\ duree'[x] = Echantillon(duree[x], btn[x])
    \/ /\ ~raz_n /\ raz_n' \in BOOLEAN /\ btn'[x] = btn[x]
       /\ t'[x] = ChronoHorlogeRaz(t[x], btn[x])
       /\ duree'[x] = duree[x]
    \/ /\ raz_n /\ raz_n' = FALSE /\ btn'[x] = btn[x]
       /\ t'[x] \in {ChronoRaz(t[x]), ChronoRaz(ChronoHorloge(t[x], btn[x]))}
       /\ duree'[x] = 0
    \/ raz_n' = raz_n /\ t'[x] = t[x] /\ duree'[x] = duree[x] /\ btn'[x] = ~btn[x]
    \/ raz_n' = raz_n /\ t'[x] = t[x] /\ duree'[x] = duree[x] /\ btn'[x] = btn[x]

\* A step of the tiller is one of them for each timer.
LEMMA EtapeChrono ==
    ASSUME TypeOK, Oubli, [Next /\ Mesure]_varsAppuis, NEW x \in Boutons
    PROVE  PasChrono(x)
<1>1. btn \in [Boutons -> BOOLEAN] /\ AucunAppui[x] = 0
  BY DEF TypeOK, AucunAppui
<1>2. CASE Horloge /\ Mesure
  <2>1. raz_n /\ raz_n' = raz_n /\ btn' = btn
    BY <1>2 DEF Horloge
  <2>2. t'[x] = ChronoHorloge(t[x], btn[x])
    BY <1>2 DEF Horloge
  <2>3. duree' = [y \in Boutons |-> Echantillon(duree[y], btn[y])]
    BY <1>2, <2>1 DEF Mesure
  <2>4. duree'[x] = Echantillon(duree[x], btn[x])
    BY <2>3
  <2> QED BY <2>1, <2>2, <2>4 DEF PasChrono
<1>3. CASE HorlogeEnRaz /\ Mesure
  <2>1. ~raz_n /\ raz_n' \in BOOLEAN /\ btn' = btn
    BY <1>3 DEF HorlogeEnRaz
  <2>2. t'[x] = ChronoHorlogeRaz(t[x], btn[x])
    BY <1>3 DEF HorlogeEnRaz
  <2>3. duree' = AucunAppui /\ duree = AucunAppui
    BY <1>3, <2>1 DEF Mesure, Oubli
  <2> QED BY <2>1, <2>2, <2>3 DEF PasChrono
<1>4. CASE (EcritRaz \/ RazSysteme) /\ Mesure
  <2>1. raz_n /\ raz_n' = FALSE /\ btn' = btn
    BY <1>4 DEF EcritRaz, RazSysteme
  <2>2. t'[x] \in {ChronoRaz(t[x]), ChronoRaz(ChronoHorloge(t[x], btn[x]))}
    BY <1>4 DEF EcritRaz, RazSysteme
  <2>3. duree' = AucunAppui
    BY <1>4, <2>1 DEF Mesure
  <2> QED BY <1>1, <2>1, <2>2, <2>3 DEF PasChrono
<1>5. ASSUME NEW y \in Actifs, Bouton(y), Mesure PROVE PasChrono(x)
  <2>1. /\ y \in Boutons /\ btn' = [btn EXCEPT ![y] = ~@]
        /\ raz_n' = raz_n /\ t' = t
    BY <1>5, BarreAssumption DEF Bouton
  <2>2. btn' # btn
    BY <1>1, <2>1
  <2>3. duree' = duree
    BY <1>5, <2>1, <2>2 DEF Mesure, Oubli
  <2>4. btn'[x] = ~btn[x] \/ btn'[x] = btn[x]
    BY <1>1, <2>1
  <2> QED BY <2>1, <2>3, <2>4 DEF PasChrono
<1>6. CASE UNCHANGED varsAppuis
  BY <1>6 DEF varsAppuis, vars, PasChrono
<1> QED BY <1>2, <1>3, <1>4, <1>5, <1>6 DEF Next

\* The presses are forgotten as soon as a reset begins.
LEMMA EtapeOubli == Oubli /\ [Next /\ Mesure]_varsAppuis => Oubli'
BY DEF Oubli, Mesure, varsAppuis, vars, AucunAppui

\* Each of them is a step of AppuiBouton.tla for the timer of STBY/AUTO.
LEMMA PasAuto ==
    ASSUME PasChrono("auto") PROVE [ChronoAuto!Next]_(ChronoAuto!vars)
BY DEF PasChrono, Echantillon, ChronoHorloge, ChronoHorlogeRaz, ChronoRaz, Compteur,
       FrontDescendant, Classe, Rien, Court, Long,
       ChronoAuto!Next, ChronoAuto!vars, ChronoAuto!Horloge, ChronoAuto!HorlogeEnRaz, ChronoAuto!Bouton, ChronoAuto!Raz,
       ChronoAuto!ChronoHorloge, ChronoAuto!ChronoHorlogeRaz, ChronoAuto!ChronoRaz, ChronoAuto!Compteur,
       ChronoAuto!FrontDescendant, ChronoAuto!Classe, ChronoAuto!Rien, ChronoAuto!Court, ChronoAuto!Long

\* The same for the port button.
LEMMA PasBabord ==
    ASSUME PasChrono("babord") PROVE [ChronoBabord!Next]_(ChronoBabord!vars)
BY DEF PasChrono, Echantillon, ChronoHorloge, ChronoHorlogeRaz, ChronoRaz, Compteur,
       FrontDescendant, Classe, Rien, Court, Long,
       ChronoBabord!Next, ChronoBabord!vars, ChronoBabord!Horloge, ChronoBabord!HorlogeEnRaz, ChronoBabord!Bouton, ChronoBabord!Raz,
       ChronoBabord!ChronoHorloge, ChronoBabord!ChronoHorlogeRaz, ChronoBabord!ChronoRaz, ChronoBabord!Compteur,
       ChronoBabord!FrontDescendant, ChronoBabord!Classe, ChronoBabord!Rien, ChronoBabord!Court, ChronoBabord!Long

\* The same for the starboard button.
LEMMA PasTribord ==
    ASSUME PasChrono("tribord") PROVE [ChronoTribord!Next]_(ChronoTribord!vars)
BY DEF PasChrono, Echantillon, ChronoHorloge, ChronoHorlogeRaz, ChronoRaz, Compteur,
       FrontDescendant, Classe, Rien, Court, Long,
       ChronoTribord!Next, ChronoTribord!vars, ChronoTribord!Horloge, ChronoTribord!HorlogeEnRaz, ChronoTribord!Bouton, ChronoTribord!Raz,
       ChronoTribord!ChronoHorloge, ChronoTribord!ChronoHorlogeRaz, ChronoTribord!ChronoRaz, ChronoTribord!Compteur,
       ChronoTribord!FrontDescendant, ChronoTribord!Classe, ChronoTribord!Rien, ChronoTribord!Court, ChronoTribord!Long

\* Every timer of the tiller behaves as AppuiBouton.tla says, so that what is shown
\* there of one timer (no press lost, long told from short) holds of the three.
THEOREM BarreEntoureLesChronos == SpecAppuis => EntoureLesChronos
<1>1. InitAppuis => Oubli /\ ChronoAuto!Init /\ ChronoBabord!Init /\ ChronoTribord!Init
  BY DEF InitAppuis, Init, Oubli, AucunAppui, Boutons, ChronoInitial, Rien,
         ChronoAuto!Init, ChronoAuto!ChronoInitial, ChronoAuto!Rien,
         ChronoBabord!Init, ChronoBabord!ChronoInitial, ChronoBabord!Rien,
         ChronoTribord!Init, ChronoTribord!ChronoInitial, ChronoTribord!Rien
<1>2. TypeOK /\ Oubli /\ [Next /\ Mesure]_varsAppuis
      => /\ [ChronoAuto!Next]_(ChronoAuto!vars) /\ [ChronoBabord!Next]_(ChronoBabord!vars)
         /\ [ChronoTribord!Next]_(ChronoTribord!vars)
  BY EtapeChrono, PasAuto, PasBabord, PasTribord DEF Boutons
<1>3. InvBarre => TypeOK
  BY DEF InvBarre
<1>4. InitAppuis => InvBarre
  BY InitInv DEF InitAppuis
<1>5. InvBarre /\ [Next /\ Mesure]_varsAppuis => InvBarre'
  BY EtapeInv DEF varsAppuis
<1> QED BY <1>1, <1>2, <1>3, <1>4, <1>5, EtapeOubli, PTL
        DEF SpecAppuis, EntoureLesChronos, ChronoAuto!Spec, ChronoBabord!Spec, ChronoTribord!Spec

\* The invariant of AppuiBouton.tla holds of the timer of STBY/AUTO.
LEMMA CompteAuto ==
    ChronoAuto!Spec => [](PreuveAuto!InvAppui)
<1>1. ChronoAuto!Spec => PreuveAuto!Spec
  BY PTL
   DEF
       ChronoAuto!Spec, PreuveAuto!Spec, ChronoAuto!Init, PreuveAuto!Init, ChronoAuto!Next,
       PreuveAuto!Next, ChronoAuto!vars, PreuveAuto!vars, ChronoAuto!Horloge,
       PreuveAuto!Horloge, ChronoAuto!HorlogeEnRaz, PreuveAuto!HorlogeEnRaz,
       ChronoAuto!Bouton, PreuveAuto!Bouton, ChronoAuto!Raz, PreuveAuto!Raz,
       ChronoAuto!ChronoInitial, PreuveAuto!ChronoInitial, ChronoAuto!ChronoHorloge,
       PreuveAuto!ChronoHorloge, ChronoAuto!ChronoHorlogeRaz, PreuveAuto!ChronoHorlogeRaz,
       ChronoAuto!ChronoRaz, PreuveAuto!ChronoRaz, ChronoAuto!Compteur,
       PreuveAuto!Compteur, ChronoAuto!FrontDescendant, PreuveAuto!FrontDescendant,
       ChronoAuto!Classe, PreuveAuto!Classe, ChronoAuto!Rien, PreuveAuto!Rien,
       ChronoAuto!Court, PreuveAuto!Court, ChronoAuto!Long, PreuveAuto!Long
<1> QED BY <1>1, PreuveAuto!Invariant, SeuilAssumption, PTL

\* The same for the port button.
LEMMA CompteBabord ==
    ChronoBabord!Spec => [](PreuveBabord!InvAppui)
<1>1. ChronoBabord!Spec => PreuveBabord!Spec
  BY PTL
   DEF
       ChronoBabord!Spec, PreuveBabord!Spec, ChronoBabord!Init, PreuveBabord!Init, ChronoBabord!Next,
       PreuveBabord!Next, ChronoBabord!vars, PreuveBabord!vars, ChronoBabord!Horloge,
       PreuveBabord!Horloge, ChronoBabord!HorlogeEnRaz, PreuveBabord!HorlogeEnRaz,
       ChronoBabord!Bouton, PreuveBabord!Bouton, ChronoBabord!Raz, PreuveBabord!Raz,
       ChronoBabord!ChronoInitial, PreuveBabord!ChronoInitial, ChronoBabord!ChronoHorloge,
       PreuveBabord!ChronoHorloge, ChronoBabord!ChronoHorlogeRaz, PreuveBabord!ChronoHorlogeRaz,
       ChronoBabord!ChronoRaz, PreuveBabord!ChronoRaz, ChronoBabord!Compteur,
       PreuveBabord!Compteur, ChronoBabord!FrontDescendant, PreuveBabord!FrontDescendant,
       ChronoBabord!Classe, PreuveBabord!Classe, ChronoBabord!Rien, PreuveBabord!Rien,
       ChronoBabord!Court, PreuveBabord!Court, ChronoBabord!Long, PreuveBabord!Long
<1> QED BY <1>1, PreuveBabord!Invariant, SeuilAssumption, PTL

\* The same for the starboard button.
LEMMA CompteTribord ==
    ChronoTribord!Spec => [](PreuveTribord!InvAppui)
<1>1. ChronoTribord!Spec => PreuveTribord!Spec
  BY PTL
   DEF
       ChronoTribord!Spec, PreuveTribord!Spec, ChronoTribord!Init, PreuveTribord!Init, ChronoTribord!Next,
       PreuveTribord!Next, ChronoTribord!vars, PreuveTribord!vars, ChronoTribord!Horloge,
       PreuveTribord!Horloge, ChronoTribord!HorlogeEnRaz, PreuveTribord!HorlogeEnRaz,
       ChronoTribord!Bouton, PreuveTribord!Bouton, ChronoTribord!Raz, PreuveTribord!Raz,
       ChronoTribord!ChronoInitial, PreuveTribord!ChronoInitial, ChronoTribord!ChronoHorloge,
       PreuveTribord!ChronoHorloge, ChronoTribord!ChronoHorlogeRaz, PreuveTribord!ChronoHorlogeRaz,
       ChronoTribord!ChronoRaz, PreuveTribord!ChronoRaz, ChronoTribord!Compteur,
       PreuveTribord!Compteur, ChronoTribord!FrontDescendant, PreuveTribord!FrontDescendant,
       ChronoTribord!Classe, PreuveTribord!Classe, ChronoTribord!Rien, PreuveTribord!Rien,
       ChronoTribord!Court, PreuveTribord!Court, ChronoTribord!Long, PreuveTribord!Long
<1> QED BY <1>1, PreuveTribord!Invariant, SeuilAssumption, PTL

\* What the tiller needs of that invariant: an answer is withdrawn before the next
\* press, and the count of a press is at most two periods short.
CompteDe(x) ==
    /\ t[x].tempo # Rien => ~t[x].s
    /\ duree[x] \in 2..Max => t[x].cpt <= duree[x] /\ duree[x] <= t[x].cpt + 2

\* It holds of the three timers.
LEMMA ComptesTenus == SpecAppuis => [](\A x \in Boutons : CompteDe(x))
<1>1. PreuveAuto!InvAppui => CompteDe("auto")
  BY SeuilAssumption
     DEF CompteDe, PreuveAuto!InvAppui, PreuveAuto!TypeOK, PreuveAuto!Compte,
         PreuveAuto!Chronos, PreuveAuto!Rien, Rien
<1>2. PreuveBabord!InvAppui => CompteDe("babord")
  BY SeuilAssumption
     DEF CompteDe, PreuveBabord!InvAppui, PreuveBabord!TypeOK, PreuveBabord!Compte,
         PreuveBabord!Chronos, PreuveBabord!Rien, Rien
<1>3. PreuveTribord!InvAppui => CompteDe("tribord")
  BY SeuilAssumption
     DEF CompteDe, PreuveTribord!InvAppui, PreuveTribord!TypeOK, PreuveTribord!Compte,
         PreuveTribord!Chronos, PreuveTribord!Rien, Rien
<1>4. CompteDe("auto") /\ CompteDe("babord") /\ CompteDe("tribord")
      => \A x \in Boutons : CompteDe(x)
  BY DEF Boutons
<1> QED BY <1>1, <1>2, <1>3, <1>4, BarreEntoureLesChronos, CompteAuto, CompteBabord,
           CompteTribord, PTL DEF EntoureLesChronos

\* A press well away from the threshold is classed by its length.
LEMMA ClasseNette ==
    ASSUME NEW cpt \in 0..Max, NEW d, Nette(d), cpt <= d, d <= cpt + 2
    PROVE  Classe(cpt) = IF d < Seuil THEN Court ELSE Long
<1>1. d \in Nat /\ 3 <= d /\ cpt \in Nat /\ Seuil \in Nat
  BY SeuilAssumption DEF Nette
<1>2. CASE d < Seuil
  BY <1>1, <1>2 DEF Classe
<1>3. CASE ~(d < Seuil)
  <2>1. Seuil + 2 <= d
    BY <1>1, <1>3, SeuilAssumption DEF Nette
  <2> QED BY <1>1, <1>3, <2>1 DEF Classe
<1> QED BY <1>2, <1>3

\* While nobody presses anything, a hub decodes itself.
LEMMA HubAuRepos ==
    ASSUME NEW c \in {"STBY", "AUTO"}, NEW a, \A y \in Boutons : a[y] = Rien,
           NEW act, NEW choix, NEW x, \A y \in Boutons : ~x[y], NEW k, NEW g
    PROVE  /\ Decode(c, c, a, act, choix, x) = c
           /\ Etage(k, g, c, Decode(c, c, a, act, choix, x)) = c
<1>1. a["auto"] = Rien /\ a["babord"] = Rien /\ a["tribord"] = Rien
  BY DEF Boutons
<1>2. ~x["babord"] /\ ~x["tribord"]
  BY DEF Boutons
<1>3. Decode(c, c, a, act, choix, x) = c
  BY <1>1, <1>2 DEF Decode, DepuisSTBY, DepuisAUTO, Rien, Court, Long
<1> QED BY <1>3 DEF Etage

\* One press is decoded as the order it gives, and the latch holds it once it has
\* caught it; only a short press on STBY/AUTO needs the silence of the bip to be caught.
LEMMA OrdreDecode ==
    ASSUME NEW c \in {"STBY", "AUTO"}, NEW x \in Boutons, c = "STBY" => x = "auto",
           NEW r \in {Court, Long}, NEW a, a[x] = r,
           \A y \in Boutons \ {x} : a[y] = Rien,
           NEW n \in {c, Ordre(c, x, r)}, NEW act, ~act \/ n = Ordre(c, x, r),
           NEW choix, NEW l, \A y \in Boutons : ~l[y]
    PROVE  Decode(n, c, a, act, choix, l) = Ordre(c, x, r)
<1> USE DEF Boutons, Rien, Court, Long
<1>1. ~l["babord"] /\ ~l["tribord"]
  OBVIOUS
<1>2. CASE x = "auto"
  <2>1. a["auto"] = r /\ a["babord"] = Rien /\ a["tribord"] = Rien
    BY <1>2
  <2>2. CASE c = "STBY"
    BY <1>1, <1>2, <2>1, <2>2 DEF Decode, DepuisSTBY, Ordre
  <2>3. CASE c = "AUTO"
    <3>1. Decode(n, c, a, act, choix, l) = DepuisAUTO(n, a, act)
      BY <2>3 DEF Decode
    <3> QED BY <1>2, <2>1, <2>3, <3>1 DEF DepuisAUTO, Ordre
  <2> QED BY <2>2, <2>3
<1>3. CASE x # "auto"
  <2>1. c = "AUTO" /\ Decode(n, c, a, act, choix, l) = DepuisAUTO(n, a, act)
    BY <1>3 DEF Decode
  <2>2. CASE x = "babord"
    <3>1. a["auto"] = Rien /\ a["babord"] = r
      BY <2>2
    <3> QED BY <2>1, <2>2, <3>1 DEF DepuisAUTO, Ordre
  <2>3. CASE x = "tribord"
    <3>1. a["auto"] = Rien /\ a["babord"] = Rien /\ a["tribord"] = r
      BY <2>3
    <3> QED BY <2>1, <2>3, <3>1 DEF DepuisAUTO, Ordre
  <2> QED BY <1>3, <2>2, <2>3
<1> QED BY <1>2, <1>3

\* An answer given in silence starts a bip, from the beginning, and the answer for ten
\* degrees claims a second one.
LEMMA BipCommence ==
    ASSUME NEW c \in Bips, BipPlein(c), BipLie(c), ~c.act, NEW a, NEW f,
           f = BipHorloge(c, a), Simple(a) \/ Double(a)
    PROVE  f.act /\ f.un = 0 /\ (Double(a) /\ ~c.att => f.choix)
<1> DEFINE d == BipCompteurs(c)
<1>1. d = BipCompteurs(c)
  OBVIOUS
<1> HIDE DEF d
<1>2. c.un <= UneSec /\ c.demi <= DemiSec
  BY DEF BipLie
<1>3. c.un \in {0, UneSec} /\ (~c.att => c.demi \in {0, DemiSec})
  BY DEF BipPlein
<1>4. d.un = 0 /\ (~c.att => d.demi = 0)
  BY <1>1, <1>2, <1>3, CompteursAvancent
<1>5. /\ f.un = d.un
      /\ f.act <=> \/ d.demi = DemiSec
                   \/ d.un # UneSec /\ (c.act \/ Simple(a) \/ Double(a))
      /\ f.choix <=> d.demi # DemiSec /\ (c.choix \/ Double(a))
  BY <1>1, <1>2, HorlogeEffet
<1> QED BY <1>4, <1>5, BipAssumption

\* The answers that follow a release, the other buttons being left alone.
LEMMA ReponsesAuRelachement ==
    ASSUME InvBarre, \A y \in Boutons : CompteDe(y), NEW x \in Boutons,
           Relache(x), Nette(duree[x]), \A y \in Boutons \ {x} : Repos(y)
    PROVE  /\ Appuis(t')[x] = IF duree[x] < Seuil THEN Court ELSE Long
           /\ \A y \in Boutons \ {x} : Appuis(t')[y] = Rien
           /\ \A y \in Boutons : Appuis(t)[y] = Rien
           /\ \A y \in Boutons : ~btn[y]
<1>1. t[x] \in Chronos /\ t[x].s /\ ~btn[x] /\ CompteDe(x)
  BY DEF InvBarre, TypeOK, Relache
<1>2. t[x].tempo = Rien
  BY <1>1 DEF CompteDe
<1>3. PICK u : u = t' /\ u = [y \in Boutons |-> ChronoHorloge(t[y], btn[y])]
  BY DEF Relache, Horloge
<1>4. u[x].tempo = Classe(t[x].cpt)
  BY <1>1, <1>2, <1>3 DEF ChronoHorloge, FrontDescendant
<1>5. Classe(t[x].cpt) = IF duree[x] < Seuil THEN Court ELSE Long
  <2>1. t[x].cpt \in 0..Max
    BY <1>1 DEF Chronos
  <2>2. duree[x] \in 2..Max
    BY SeuilAssumption DEF Nette
  <2>3. t[x].cpt <= duree[x] /\ duree[x] <= t[x].cpt + 2
    BY <1>1, <2>2 DEF CompteDe
  <2> QED BY <2>1, <2>3, ClasseNette
<1>6. \A y \in Boutons \ {x} : u[y].tempo = Rien
  BY <1>3 DEF Repos, ChronoHorloge, FrontDescendant
<1>7. \A y \in Boutons : t[y].tempo = Rien /\ ~btn[y]
  BY <1>1, <1>2 DEF Repos
<1> QED BY <1>3, <1>4, <1>5, <1>6, <1>7 DEF Appuis

\* From the button to the course (gestion_temps_appui_bouton.vhd:53-73,
\* Machine_etat.vhd:28-80, gestion_bip.vhd:63-97): every press well away from the
\* threshold, made in silence and alone, is obeyed according to its length, provided
\* that the latch catches the stage at which the answer has come and the bip has not.
THEOREM PressionToujoursObeie ==
    ASSUME \A g \in Glitches : 2 \in g
    PROVE  SpecAppuis => PressionObeie
<1> DEFINE A(x) ==
      LET r == IF duree[x] < Seuil THEN Court ELSE Long
      IN  /\ Relache(x) /\ Nette(duree[x]) /\ \A y \in Boutons \ {x} : Repos(y)
          /\ ~b.act
          /\ next = "AUTO" \/ (next = "STBY" /\ x = "auto")
          => /\ next' = Ordre(next, x, r)
             /\ b'.act /\ b'.un = 0
             /\ x # "auto" /\ r = Long /\ ~b.att => b'.choix
<1>1. ASSUME InvBarre, \A y \in Boutons : CompteDe(y), NEW x \in Boutons PROVE A(x)
  <2> SUFFICES ASSUME NEW r, r = IF duree[x] < Seuil THEN Court ELSE Long,
                      Relache(x), Nette(duree[x]), \A y \in Boutons \ {x} : Repos(y),
                      ~b.act, next = "AUTO" \/ (next = "STBY" /\ x = "auto")
               PROVE  /\ next' = Ordre(next, x, r)
                      /\ b'.act /\ b'.un = 0
                      /\ x # "auto" /\ r = Long /\ ~b.att => b'.choix
    OBVIOUS
  <2>1. Horloge /\ cur' = next /\ b \in Bips /\ BipPlein(b) /\ BipLie(b)
    BY <1>1 DEF Relache, Horloge, InvBarre, TypeOK
  <2>2. PICK c : c = next /\ c \in {"STBY", "AUTO"} /\ (c = "STBY" => x = "auto")
    OBVIOUS
  <2>3. PICK a, f, m, n1, n2, n3 : \E g \in Glitches :
          /\ a = Appuis(t') /\ f = b' /\ f = BipHorloge(b, a) /\ m = BipMilieu(b, a)
          /\ n1 = Etage(1, g, next, Decode(next, cur', Appuis(t), b.act, b.choix, btn))
          /\ n2 = Etage(2, g, n1, Decode(n1, cur', a, b.act, b.choix, btn))
          /\ n3 = Etage(3, g, n2, Decode(n2, cur', a, m.act, m.choix, btn))
          /\ next' = Decode(n3, cur', a, f.act, f.choix, btn)
    BY <2>1, HorlogeEtapes
  <2>4. PICK g \in Glitches :
          /\ n1 = Etage(1, g, c, Decode(c, c, Appuis(t), b.act, b.choix, btn))
          /\ n2 = Etage(2, g, n1, Decode(n1, c, a, b.act, b.choix, btn))
          /\ n3 = Etage(3, g, n2, Decode(n2, c, a, m.act, m.choix, btn))
          /\ next' = Decode(n3, c, a, f.act, f.choix, btn)
    BY <2>1, <2>2, <2>3
  <2>5. /\ a[x] = r /\ r \in {Court, Long}
        /\ \A y \in Boutons \ {x} : a[y] = Rien
        /\ \A y \in Boutons : Appuis(t)[y] = Rien
        /\ \A y \in Boutons : ~btn[y]
    BY <1>1, <2>3, ReponsesAuRelachement
  <2>6. n1 = c
    BY <2>2, <2>4, <2>5, HubAuRepos
  <2>7. n2 = Ordre(c, x, r)
    <3>1. n2 = Decode(n1, c, a, b.act, b.choix, btn)
      BY <2>4 DEF Etage
    <3> QED BY <2>2, <2>5, <2>6, <3>1, OrdreDecode
  <2>8. n3 = Ordre(c, x, r)
    <3>1. Decode(n2, c, a, m.act, m.choix, btn) = Ordre(c, x, r)
      BY <2>2, <2>5, <2>7, OrdreDecode
    <3> QED BY <2>4, <2>7, <3>1 DEF Etage
  <2>9. next' = Ordre(next, x, r)
    <3>1. Decode(n3, c, a, f.act, f.choix, btn) = Ordre(c, x, r)
      BY <2>2, <2>5, <2>8, OrdreDecode
    <3> QED BY <2>2, <2>4, <3>1
  <2>10. (Simple(a) \/ Double(a)) /\ (x # "auto" /\ r = Long => Double(a))
    <3>1. CASE x = "auto"
      BY <2>5, <3>1 DEF Simple, Rien, Court, Long
    <3>2. CASE x # "auto"
      BY <2>5, <3>2 DEF Boutons, Simple, Double
    <3> QED BY <3>1, <3>2
  <2>11. f.act /\ f.un = 0 /\ (Double(a) /\ ~b.att => f.choix)
    BY <2>1, <2>3, <2>10, BipCommence
  <2> QED BY <2>3, <2>9, <2>10, <2>11
<1>2. InvBarre /\ (\A x \in Boutons : CompteDe(x)) => [\A x \in Boutons : A(x)]_varsAppuis
  BY <1>1
<1>3. InitAppuis => InvBarre
  BY InitInv DEF InitAppuis
<1>4. InvBarre /\ [Next /\ Mesure]_varsAppuis => InvBarre'
  BY EtapeInv DEF varsAppuis
<1> QED BY <1>2, <1>3, <1>4, ComptesTenus, PTL DEF SpecAppuis, PressionObeie

--------------------------------------------------------------------------------
\* The way back to calm.  What RetourAuCalme says under fairness rests on a count of the
\* edges still to come, once the buttons are released, before the block is silent in one
\* of its hubs.

\* For the bip: what is left of the bip under way, of the silence, and of the second
\* bip when it is due; a bip claimed during the silence takes the place of the second.
Sonnerie(c) ==
    IF c.act THEN IF c.choix /\ ~c.att THEN (UneSec - c.un) + DemiSec + UneSec
                  ELSE UneSec - c.un
    ELSE IF c.att THEN (DemiSec - c.demi) + UneSec
    ELSE 0

\* It is bounded, and null in silence only.
LEMMA SonnerieBornee ==
    ASSUME NEW c \in Bips, BipPlein(c)
    PROVE  /\ Sonnerie(c) \in 0..(UneSec + DemiSec + UneSec)
           /\ Sonnerie(c) = 0 <=> ~c.act /\ ~c.att
<1>1. c.un \in Nat /\ c.demi \in Nat
  BY Champs
<1>2. (c.act => c.un < UneSec) /\ (c.att => c.demi < DemiSec)
  BY DEF BipPlein
<1> QED BY <1>1, <1>2, BipAssumption DEF Sonnerie

\* An edge without an answer brings the silence nearer, and silence lasts.
LEMMA BipSEteint ==
    ASSUME NEW c \in Bips, BipPlein(c), BipLie(c), NEW a, ~Simple(a), ~Double(a),
           NEW f, f = BipHorloge(c, a)
    PROVE  /\ Sonnerie(f) < Sonnerie(c) \/ (Sonnerie(c) = 0 /\ Sonnerie(f) = 0)
           /\ Sonnerie(c) = 0 => ~f.act /\ (f.choix <=> c.choix)
<1> USE BipAssumption
<1> DEFINE d == BipCompteurs(c)
<1>1. d = BipCompteurs(c)
  OBVIOUS
<1> HIDE DEF d
<1>2. /\ c.un \in 0..UneSec /\ c.demi \in 0..DemiSec
      /\ c.act \/ c.un \in {0, UneSec}
      /\ c.att \/ c.demi \in {0, DemiSec}
      /\ c.act => c.un < UneSec
      /\ c.att => c.demi < DemiSec /\ c.choix
      /\ c.att /\ c.un < UneSec => c.un <= c.demi
  BY Champs DEF BipPlein, BipLie
<1>3. /\ d.un = IF c.un = UneSec THEN 0 ELSE IF c.act THEN c.un + 1 ELSE c.un
      /\ d.demi = IF c.demi = DemiSec THEN 0 ELSE IF c.att THEN c.demi + 1 ELSE c.demi
  BY <1>1, <1>2, CompteursAvancent
<1>4. /\ f.un = d.un /\ f.demi = d.demi
      /\ f.act <=> (d.demi = DemiSec \/ (d.un # UneSec /\ c.act))
      /\ f.att <=> (d.demi # DemiSec /\ (c.att \/ (d.un = UneSec /\ c.choix)))
      /\ f.choix <=> (d.demi # DemiSec /\ c.choix)
  BY <1>1, <1>2, HorlogeEffet
<1>5. CASE ~c.act /\ ~c.att
  <2>1. d.un = 0 /\ d.demi = 0
    BY <1>2, <1>3, <1>5
  <2>2. ~f.act /\ ~f.att /\ (f.choix <=> c.choix)
    BY <1>4, <1>5, <2>1
  <2> QED BY <1>5, <2>2 DEF Sonnerie
<1>6. CASE ~c.act /\ c.att
  <2>1. d.un = 0 /\ d.demi = c.demi + 1
    BY <1>2, <1>3, <1>6
  <2>2. Sonnerie(c) = (DemiSec - c.demi) + UneSec
    BY <1>6 DEF Sonnerie
  <2>3. CASE d.demi = DemiSec
    <3>1. f.act /\ ~f.att /\ f.un = 0
      BY <1>4, <2>1, <2>3
    <3>2. Sonnerie(f) = UneSec
      BY <1>4, <2>3, <3>1 DEF Sonnerie
    <3> QED BY <1>2, <2>1, <2>2, <2>3, <3>2
  <2>4. CASE d.demi # DemiSec
    <3>1. ~f.act /\ f.att /\ f.demi = c.demi + 1
      BY <1>4, <1>6, <2>1, <2>4
    <3>2. Sonnerie(f) = (DemiSec - (c.demi + 1)) + UneSec
      BY <3>1 DEF Sonnerie
    <3> QED BY <1>2, <2>2, <3>2
  <2> QED BY <2>3, <2>4
<1>7. CASE c.act /\ c.att
  <2>1. d.un = c.un + 1 /\ d.un # UneSec /\ d.demi = c.demi + 1
    BY <1>2, <1>3, <1>7
  <2>2. Sonnerie(c) = UneSec - c.un
    BY <1>7 DEF Sonnerie
  <2>3. f.act /\ f.un = c.un + 1 /\ (f.att \/ ~f.choix)
    BY <1>4, <1>7, <2>1
  <2>4. Sonnerie(f) = UneSec - (c.un + 1)
    BY <2>3 DEF Sonnerie
  <2> QED BY <1>2, <1>7, <2>2, <2>4
<1>8. CASE c.act /\ ~c.att
  <2>1. d.un = c.un + 1 /\ d.demi = 0
    BY <1>2, <1>3, <1>8
  <2>2. CASE d.un = UneSec
    <3>1. ~f.act /\ f.demi = 0 /\ (f.att <=> c.choix)
      BY <1>4, <1>8, <2>1, <2>2
    <3>2. Sonnerie(f) = IF c.choix THEN DemiSec + UneSec ELSE 0
      BY <3>1 DEF Sonnerie
    <3>3. Sonnerie(c) = IF c.choix THEN 1 + DemiSec + UneSec ELSE 1
      BY <1>2, <1>8, <2>1, <2>2 DEF Sonnerie
    <3> QED BY <3>2, <3>3
  <2>3. CASE d.un # UneSec
    <3>1. f.act /\ f.un = c.un + 1 /\ ~f.att /\ (f.choix <=> c.choix)
      BY <1>4, <1>8, <2>1, <2>3
    <3>2. Sonnerie(f) = IF c.choix THEN (UneSec - (c.un + 1)) + DemiSec + UneSec
                        ELSE UneSec - (c.un + 1)
      BY <3>1 DEF Sonnerie
    <3>3. Sonnerie(c) = IF c.choix THEN (UneSec - c.un) + DemiSec + UneSec
                        ELSE UneSec - c.un
      BY <1>8 DEF Sonnerie
    <3> QED BY <1>2, <1>8, <3>2, <3>3
  <2> QED BY <2>2, <2>3
<1> QED BY <1>5, <1>6, <1>7, <1>8

\* What is proved of the bip, for the one of the tiller.
PreuveBip == INSTANCE GestionBip_proofs WITH appui <- Appuis(t), chaud <- RazAChaud

Hubs == {"STBY", "AUTO"}

\* For the block: two edges let the last releases be answered, the bips follow, and
\* two more edges bring the machine back to a hub.
Duree == UneSec + DemiSec + UneSec
Attente == IF \E x \in Boutons : t[x].s THEN Duree + 4
           ELSE IF \E x \in Boutons : t[x].tempo # Rien THEN Duree + 3
           ELSE IF Sonnerie(b) # 0 THEN Sonnerie(b) + 2
           ELSE IF next \notin Hubs THEN 2
           ELSE IF cur \notin Hubs THEN 1 ELSE 0

\* A second bip that nothing is about to sound: only a reset leaves one.
Orphelin == b.choix /\ ~b.act /\ ~b.att

\* The three levels of that count.
LEMMA AttenteNiveaux ==
    ASSUME InvBarre
    PROVE  /\ Attente \in 0..(Duree + 4)
           /\ (\A x \in Boutons : ~t[x].s) => Attente <= Duree + 3
           /\ (\A x \in Boutons : ~t[x].s /\ t[x].tempo = Rien) =>
                  /\ Attente <= Sonnerie(b) + 2
                  /\ Sonnerie(b) = 0 /\ next \in Hubs => Attente <= 1
                  /\ Sonnerie(b) = 0 /\ next \in Hubs /\ cur \in Hubs => Attente = 0
<1>1. Sonnerie(b) \in 0..Duree /\ Duree \in Nat
  BY SonnerieBornee, BipAssumption DEF InvBarre, TypeOK, Duree
<1> QED BY <1>1 DEF Attente

\* The same at the next state.
LEMMA AttenteApres ==
    ASSUME InvBarre'
    PROVE  /\ Attente' \in 0..(Duree + 4)
           /\ (\A x \in Boutons : ~t'[x].s) => Attente' <= Duree + 3
           /\ (\A x \in Boutons : ~t'[x].s /\ t'[x].tempo = Rien) =>
                  /\ Attente' <= Sonnerie(b') + 2
                  /\ Sonnerie(b') = 0 /\ next' \in Hubs => Attente' <= 1
                  /\ Sonnerie(b') = 0 /\ next' \in Hubs /\ cur' \in Hubs => Attente' = 0
<1>1. Sonnerie(b') \in 0..Duree /\ Duree \in Nat
  BY SonnerieBornee, BipAssumption DEF InvBarre, TypeOK, Duree
<1> QED BY <1>1 DEF Attente, Hubs, Duree, Sonnerie

\* An edge that no release and no answer precede gives no answer.
LEMMA EdgeMuet ==
    ASSUME Horloge, \A x \in Boutons : ~btn[x]
    PROVE  /\ \A x \in Boutons : ~t'[x].s
           /\ (\A x \in Boutons : ~t[x].s) => \A x \in Boutons : t'[x].tempo = Rien
<1>1. PICK u : u = t' /\ u = [x \in Boutons |-> ChronoHorloge(t[x], btn[x])]
  BY DEF Horloge
<1>2. \A x \in Boutons : ~u[x].s /\ (~t[x].s => u[x].tempo = Rien)
  BY <1>1 DEF ChronoHorloge, FrontDescendant
<1> QED BY <1>1, <1>2

\* In silence, a state other than a hub decodes a hub.
LEMMA RetourAuHub ==
    ASSUME NEW c \in Etats \ Hubs, NEW n, NEW a, \A y \in Boutons : a[y] = Rien,
           NEW act, ~act, NEW choix, ~choix, NEW x, \A y \in Boutons : ~x[y]
    PROVE  Decode(n, c, a, act, choix, x) \in Hubs
<1>1. /\ a["auto"] = Rien /\ a["babord"] = Rien /\ a["tribord"] = Rien
      /\ ~x["babord"] /\ ~x["tribord"]
  BY DEF Boutons
<1> QED BY <1>1 DEF Decode, RetourSTBY, RetourAUTO, Hubs, Etats, EtatsVeille,
              EtatsTransitoires, EtatsTransitoires1, EtatsTransitoires10

\* Every edge with the buttons released brings the calm nearer, and the calm lasts.
LEMMA EdgeVersLeCalme ==
    ASSUME InvBarre, InvBarre', Horloge, \A x \in Boutons : ~btn[x], ~Orphelin
    PROVE  Attente' < Attente \/ Attente' = 0
<1>1. /\ b \in Bips /\ BipPlein(b) /\ BipLie(b) /\ cur \in Etats /\ next \in Etats
      /\ cur' = next /\ cur' \in Etats
      /\ Duree \in Nat /\ Attente \in Nat /\ Attente' \in Nat
  <2>1. Duree \in Nat
    BY BipAssumption DEF Duree
  <2> QED BY <2>1, AttenteNiveaux, AttenteApres DEF InvBarre, TypeOK, Horloge
<1>2. \A x \in Boutons : ~t'[x].s
  BY EdgeMuet
<1>3. CASE \E x \in Boutons : t[x].s
  <2>1. Attente = Duree + 4
    BY <1>3 DEF Attente
  <2>2. Attente' <= Duree + 3
    BY <1>2, AttenteApres
  <2> QED BY <1>1, <2>1, <2>2
<1>4. CASE \A x \in Boutons : ~t[x].s
  <2>1. \A x \in Boutons : t'[x].tempo = Rien
    BY <1>4, EdgeMuet
  <2>2. /\ Attente' <= Sonnerie(b') + 2
        /\ Sonnerie(b') = 0 /\ next' \in Hubs => Attente' <= 1
        /\ Sonnerie(b') = 0 /\ next' \in Hubs /\ cur' \in Hubs => Attente' = 0
    BY <1>2, <2>1, AttenteApres
  <2>3. CASE \E x \in Boutons : t[x].tempo # Rien
    <3>1. Attente = Duree + 3
      BY <1>4, <2>3 DEF Attente
    <3>2. Sonnerie(b') \in 0..Duree
      BY SonnerieBornee DEF InvBarre, TypeOK, Duree
    <3> QED BY <1>1, <2>2, <3>1, <3>2
  <2>4. CASE \A x \in Boutons : t[x].tempo = Rien
    <3>1. PICK a, f, m, n1, n2, n3 : \E g \in Glitches :
          /\ a = Appuis(t') /\ f = b' /\ f = BipHorloge(b, a) /\ m = BipMilieu(b, a)
          /\ n1 = Etage(1, g, next, Decode(next, cur', Appuis(t), b.act, b.choix, btn))
          /\ n2 = Etage(2, g, n1, Decode(n1, cur', a, b.act, b.choix, btn))
          /\ n3 = Etage(3, g, n2, Decode(n2, cur', a, m.act, m.choix, btn))
          /\ next' = Decode(n3, cur', a, f.act, f.choix, btn)
      BY HorlogeEtapes
    <3>2. \A x \in Boutons : a[x] = Rien
      BY <2>1, <3>1 DEF Appuis
    <3>3. ~Simple(a) /\ ~Double(a)
      BY <3>2 DEF Boutons, Simple, Double, Rien, Court, Long
    <3>4. /\ Sonnerie(b') < Sonnerie(b) \/ (Sonnerie(b) = 0 /\ Sonnerie(b') = 0)
          /\ Sonnerie(b) = 0 => ~b'.act /\ (b'.choix <=> b.choix)
      <4>1. f = BipHorloge(b, a) /\ f = b'
        BY <3>1
      <4> QED BY <1>1, <3>3, <4>1, BipSEteint
    <3>5. Sonnerie(b) \in Nat /\ Sonnerie(b') \in Nat
      BY SonnerieBornee DEF InvBarre, TypeOK
    <3>6. CASE Sonnerie(b) # 0
      <4>1. Attente = Sonnerie(b) + 2
        BY <1>4, <2>4, <3>6 DEF Attente
      <4> QED BY <1>1, <2>2, <3>4, <3>5, <3>6, <4>1
    <3>7. CASE Sonnerie(b) = 0 /\ next \notin Hubs
      <4>1. ~b.act /\ ~b.att
        BY <1>1, <3>7, SonnerieBornee
      <4>2. f = b' /\ ~f.act /\ ~f.choix
        BY <3>1, <3>4, <3>7, <4>1 DEF Orphelin
      <4>3. next' \in Hubs
        <5>1. next' = Decode(n3, cur', a, f.act, f.choix, btn) /\ cur' \in Etats \ Hubs
          BY <1>1, <3>1, <3>7
        <5> QED BY <3>2, <4>2, <5>1, RetourAuHub
      <4>4. Attente' <= 1
        BY <2>2, <3>4, <3>5, <3>7, <4>3
      <4>5. Attente = 2
        BY <1>4, <2>4, <3>7 DEF Attente
      <4> QED BY <1>1, <4>4, <4>5
    <3>8. CASE Sonnerie(b) = 0 /\ next \in Hubs
      <4>1. PICK c : c = next /\ c \in {"STBY", "AUTO"}
        BY <3>8 DEF Hubs
      <4>2. PICK g : /\ n1 = Etage(1, g, c, Decode(c, c, Appuis(t), b.act, b.choix, btn))
                     /\ n2 = Etage(2, g, n1, Decode(n1, c, a, b.act, b.choix, btn))
                     /\ n3 = Etage(3, g, n2, Decode(n2, c, a, m.act, m.choix, btn))
                     /\ next' = Decode(n3, c, a, f.act, f.choix, btn)
        BY <1>1, <3>1, <4>1
      <4>3. \A x \in Boutons : Appuis(t)[x] = Rien
        BY <2>4 DEF Appuis
      <4>4. n1 = c
        BY <4>1, <4>2, <4>3, HubAuRepos
      <4>5. n2 = c
        BY <3>2, <4>1, <4>2, <4>4, HubAuRepos
      <4>6. n3 = c
        BY <3>2, <4>1, <4>2, <4>5, HubAuRepos
      <4>7. next' = c
        BY <3>2, <4>1, <4>2, <4>6, HubAuRepos
      <4>8. next' \in Hubs /\ cur' \in Hubs
        BY <1>1, <3>8, <4>1, <4>7
      <4> QED BY <2>2, <3>4, <3>5, <3>8, <4>8
    <3> QED BY <3>6, <3>7, <3>8
  <2> QED BY <2>3, <2>4
<1> QED BY <1>3, <1>4

\* The way back to calm is bounded: as long as the buttons are released, every edge of
\* the clock lowers the count, which is at most two bips, a silence and four edges, until
\* the block is silent in one of its hubs and stays so (Machine_etat.vhd:50-76).  A reset
\* that left temp_choix_btn set may hold it; without a reset once started, none does.
THEOREM RetourBorne ==
    Spec => /\ [](/\ Attente \in 0..(Duree + 4)
                  /\ Attente = 0 => ~b.act /\ cur \in {"STBY", "AUTO"}
                  /\ ~RazAChaud => ~Orphelin)
            /\ [][ Horloge /\ (\A x \in Boutons : ~btn[x]) /\ ~Orphelin
                   => Attente' < Attente \/ Attente' = 0 ]_vars
<1> DEFINE A == Horloge /\ (\A x \in Boutons : ~btn[x]) /\ ~Orphelin
                => Attente' < Attente \/ Attente' = 0
           Q == /\ Attente \in 0..(Duree + 4)
                /\ Attente = 0 => ~b.act /\ cur \in {"STBY", "AUTO"}
<1>1. InvBarre => Q
  <2> SUFFICES ASSUME InvBarre PROVE Q
    OBVIOUS
  <2>1. Attente = 0 => Sonnerie(b) = 0 /\ cur \in Hubs
    BY BipAssumption, SonnerieBornee DEF Attente, Duree, InvBarre, TypeOK
  <2> QED BY <2>1, AttenteNiveaux, SonnerieBornee DEF InvBarre, TypeOK, Hubs
<1>2. InvBarre /\ InvBarre' /\ [Next]_vars => [A]_vars
  BY EdgeVersLeCalme
<1>3. Spec => [](~RazAChaud => ~Orphelin)
  <2>1. LeBip!Init => PreuveBip!Init
    BY DEF
       LeBip!Init, PreuveBip!Init, LeBip!SansAppui, PreuveBip!SansAppui, LeBip!Boutons,
       PreuveBip!Boutons, LeBip!BipInitial, PreuveBip!BipInitial, LeBip!Rien, PreuveBip!Rien
  <2>2. [LeBip!Next]_<<raz_n, Appuis(t), b>> => [PreuveBip!Next]_(PreuveBip!vars)
    BY DEF PreuveBip!vars,
       LeBip!Next, PreuveBip!Next, LeBip!Horloge, PreuveBip!Horloge, LeBip!HorlogeEnRaz,
       PreuveBip!HorlogeEnRaz, LeBip!Raz, PreuveBip!Raz, LeBip!SansAppui,
       PreuveBip!SansAppui, LeBip!Boutons, PreuveBip!Boutons, LeBip!Reponses,
       PreuveBip!Reponses, LeBip!BipInitial, PreuveBip!BipInitial, LeBip!BipHorloge,
       PreuveBip!BipHorloge, LeBip!BipFin, PreuveBip!BipFin, LeBip!BipMilieu,
       PreuveBip!BipMilieu, LeBip!BipCompteurs, PreuveBip!BipCompteurs,
       LeBip!BipHorlogeRaz, PreuveBip!BipHorlogeRaz, LeBip!BipRaz, PreuveBip!BipRaz,
       LeBip!Verrou, PreuveBip!Verrou, LeBip!Simple, PreuveBip!Simple, LeBip!Double,
       PreuveBip!Double, LeBip!FinUn, PreuveBip!FinUn, LeBip!FinDemi, PreuveBip!FinDemi,
       LeBip!FrontMontant, PreuveBip!FrontMontant, LeBip!Compteur, PreuveBip!Compteur,
       LeBip!Rien, PreuveBip!Rien, LeBip!Court, PreuveBip!Court, LeBip!Long, PreuveBip!Long
  <2>3. PreuveBip!InvChoix => (~RazAChaud => ~Orphelin)
    BY DEF PreuveBip!InvChoix, PreuveBip!SecondBipDu, Orphelin
  <2> QED BY <2>1, <2>2, <2>3, BarreEntoureLeBip, PreuveBip!InitInv, PreuveBip!InitChoix,
             PreuveBip!EtapeInv, PreuveBip!EtapeChoix, BipAssumption, PTL DEF EntoureLeBip
<1> HIDE DEF A, Q
<1>4. Spec => [][A]_vars /\ []Q
  BY <1>1, <1>2, Invariant, EtapeInv, PTL DEF Spec
<1> QED BY <1>3, <1>4, PTL DEF A, Q

--------------------------------------------------------------------------------
\* What holds as long as nobody resets a started block.

\* The latch holds a successor of the present state after every step.
LEMMA EtapeSuccesseur ==
    ~RazAChaud /\ InvBarre /\ SuccesseurPret /\ [Next]_vars => SuccesseurPret'
<1> SUFFICES ASSUME ~RazAChaud, InvBarre, SuccesseurPret, [Next]_vars PROVE SuccesseurPret'
  OBVIOUS
<1>1. cur \in Etats /\ next \in Etats
  BY DEF InvBarre, TypeOK
<1>2. CASE Horloge
  <2>1. cur' = next
    BY <1>2 DEF Horloge
  <2>2. PICK a, f, m, n1, n2, n3 : \E g \in Glitches :
          /\ a = Appuis(t') /\ f = b' /\ f = BipHorloge(b, a) /\ m = BipMilieu(b, a)
          /\ n1 = Etage(1, g, next, Decode(next, cur', Appuis(t), b.act, b.choix, btn))
          /\ n2 = Etage(2, g, n1, Decode(n1, cur', a, b.act, b.choix, btn))
          /\ n3 = Etage(3, g, n2, Decode(n2, cur', a, m.act, m.choix, btn))
          /\ next' = Decode(n3, cur', a, f.act, f.choix, btn)
    BY <1>2, HorlogeEtapes
  <2>3. cur' \in Etats /\ next \in {cur'} \cup Diagramme[cur']
    BY <1>1, <2>1
  <2>4. n1 \in {cur'} \cup Diagramme[cur']
    BY <2>2, <2>3, EtageDiagramme
  <2>5. n2 \in {cur'} \cup Diagramme[cur']
    BY <2>2, <2>3, <2>4, EtageDiagramme
  <2>6. n3 \in {cur'} \cup Diagramme[cur']
    BY <2>2, <2>3, <2>5, EtageDiagramme
  <2>7. next' \in {cur'} \cup Diagramme[cur']
    BY <2>2, <2>3, <2>6, DecodeDiagramme
  <2> QED BY <2>7 DEF SuccesseurPret
<1>3. CASE HorlogeEnRaz
  BY <1>3 DEF HorlogeEnRaz, SuccesseurPret
<1>4. CASE EcritRaz \/ RazSysteme
  BY <1>4 DEF EcritRaz, RazSysteme
<1>5. CASE \E x \in Actifs : Bouton(x)
  <2>1. cur' = cur /\ next' = Decode(next, cur, Appuis(t), b.act, b.choix, btn')
    BY <1>5 DEF Bouton
  <2>2. next' \in {cur} \cup Diagramme[cur]
    BY <1>1, <2>1, DecodeDiagramme DEF SuccesseurPret
  <2> QED BY <2>1, <2>2 DEF SuccesseurPret
<1>6. CASE UNCHANGED vars
  BY <1>6 DEF vars, SuccesseurPret
<1> QED BY <1>2, <1>3, <1>4, <1>5, <1>6 DEF Next

\* Whatever earlier states, answers and buttons left in the latch next_st
\* (Machine_etat.vhd:28-80), it points to a successor of the present state.
THEOREM SuccesseurToujoursPret ==
    ASSUME ~RazAChaud
    PROVE  Spec => []SuccesseurPret
<1>1. Init => SuccesseurPret
  BY DEF Init, SuccesseurPret
<1>2. InvBarre /\ SuccesseurPret /\ [Next]_vars => SuccesseurPret'
  BY EtapeSuccesseur
<1> QED BY <1>1, <1>2, Invariant, PTL DEF Spec

\* The machine moves along its diagram, never from one hub's satellites to the other.
THEOREM DiagrammeSuivi ==
    ASSUME ~RazAChaud
    PROVE  Spec => [][cur' \in {cur} \cup Diagramme[cur]]_vars
<1>1. SuccesseurPret /\ [Next]_vars => [cur' \in {cur} \cup Diagramme[cur]]_vars
  <2> SUFFICES ASSUME SuccesseurPret, Next PROVE cur' \in {cur} \cup Diagramme[cur]
    OBVIOUS
  <2>1. CASE Horloge
    BY <2>1 DEF Horloge, SuccesseurPret
  <2>2. CASE ~Horloge
    <3>1. cur' = cur
      BY <2>2 DEF Next, HorlogeEnRaz, EcritRaz, RazSysteme, Bouton
    <3> QED BY <3>1
  <2> QED BY <2>1, <2>2
<1> QED BY <1>1, SuccesseurToujoursPret, PTL DEF Spec
================================================================================
