--------------------------- MODULE GestionBip_proofs ---------------------------
(***************************************************************************)
(* The bip, for every duration and counter width: the latches and counters *)
(* never leave a bip or a silence half-way (whatever the reset does), a    *)
(* second bip is never forgotten (without a reset once started), and the   *)
(* block takes no step that its promise, BipAbstrait, does not allow.      *)
(***************************************************************************)
EXTENDS GestionBip, Bip_lemmes

\* The inductive step.
LEMMA EtapeInv == InvBip /\ [Next]_vars => InvBip'
<1> SUFFICES ASSUME InvBip, [Next]_vars PROVE InvBip'
  OBVIOUS
<1>1. /\ b \in Bips /\ BipPlein(b) /\ BipLie(b)
      /\ appui \in [Boutons -> Reponses] /\ raz_n \in BOOLEAN /\ chaud \in BOOLEAN
  BY DEF InvBip, TypeOK
<1>2. raz_n' \in BOOLEAN
  BY <1>1 DEF Next, Horloge, HorlogeEnRaz, Raz, vars
<1>3. chaud' \in BOOLEAN
  BY <1>1 DEF Next, Horloge, HorlogeEnRaz, Raz, vars
<1>3a. appui' \in [Boutons -> Reponses]
  BY <1>1 DEF Next, Horloge, HorlogeEnRaz, Raz, vars, SansAppui, Reponses
<1>4. b' \in Bips /\ BipPlein(b') /\ BipLie(b')
  <2>1. CASE Horloge
    BY <1>1, <2>1, HorlogeSaine DEF Horloge
  <2>2. CASE HorlogeEnRaz
    BY <1>1, <2>2, RazSaine DEF HorlogeEnRaz
  <2>3. CASE Raz
    BY <1>1, <2>3, RazSaine DEF Raz
  <2>4. CASE UNCHANGED vars
    BY <1>1, <2>4 DEF vars
  <2> QED BY <2>1, <2>2, <2>3, <2>4 DEF Next
<1> QED BY <1>2, <1>3, <1>3a, <1>4 DEF InvBip, TypeOK

\* It holds when the block is configured.
LEMMA InitInv == Init => InvBip
<1>1. SansAppui \in [Boutons -> Reponses]
  BY DEF SansAppui, Reponses
<1>2. Init => raz_n \in BOOLEAN
  BY DEF Init
<1> QED BY <1>1, <1>2, BipInitialSain DEF Init, InvBip, TypeOK

\* The inductive invariant of the bip, resets included.
THEOREM Invariant == Spec => []InvBip
BY InitInv, EtapeInv, PTL DEF Spec

\* Registers and latches keep their types; no counter leaves its width.
THEOREM TypeCorrect == Spec => []TypeOK
<1>1. InvBip => TypeOK
  BY DEF InvBip
<1> QED BY <1>1, Invariant, PTL

\* Every bip and every silence lasts its full time (gestion_bip.vhd:80-108).
THEOREM DureesToujoursPleines == Spec => []DureesPleines
<1>1. InvBip => DureesPleines
  BY DEF InvBip, DureesPleines
<1> QED BY <1>1, Invariant, PTL

--------------------------------------------------------------------------------
\* The three ways an edge outside reset can take, for the variables.
LEMMA HorlogeTrois ==
    ASSUME InvBip, Horloge
    PROVE  \E s, w \in BOOLEAN :
              \/ /\ b.act /\ ~b.att /\ ~b'.act
                 /\ b'.att <=> (b.choix \/ w)
                 /\ b'.choix <=> (b.choix \/ w)
              \/ b.att /\ b'.act /\ ~b'.att /\ ~b'.choix
              \/ /\ b'.act <=> (b.act \/ s \/ w)
                 /\ b'.att <=> b.att
                 /\ b'.choix <=> (b.choix \/ w)
<1>1. b \in Bips /\ BipPlein(b) /\ BipLie(b)
  BY DEF InvBip, TypeOK
<1>2. PICK a : b' = BipHorloge(b, a)
  BY DEF Horloge
<1> QED BY <1>1, <1>2, HorlogeCas

\* No second bip is due when the block is configured.
LEMMA InitChoix == Init => InvChoix
BY DEF Init, BipInitial, InvChoix, SecondBipDu

\* Without a reset once started, InvChoix is preserved.
LEMMA EtapeChoix == InvBip /\ InvChoix /\ [Next]_vars => InvChoix'
<1> SUFFICES ASSUME InvBip, InvChoix, [Next]_vars PROVE InvChoix'
  OBVIOUS
<1>1. CASE Horloge
  <2>1. raz_n' /\ chaud' = chaud
    BY <1>1 DEF Horloge
  <2>2. SecondBipDu'
    BY <1>1, <2>1, HorlogeTrois DEF InvChoix, SecondBipDu
  <2> QED BY <2>1, <2>2 DEF InvChoix
<1>2. CASE HorlogeEnRaz
  <2>1. b'.choix = b.choix /\ b'.att = b.att /\ b'.act = FALSE
    BY <1>2 DEF HorlogeEnRaz, BipHorlogeRaz
  <2> QED BY <1>2, <2>1 DEF HorlogeEnRaz, InvChoix, SecondBipDu
<1>3. CASE Raz
  BY <1>3 DEF Raz, InvChoix, SecondBipDu
<1>4. CASE UNCHANGED vars
  BY <1>4 DEF vars, InvChoix, SecondBipDu
<1> QED BY <1>1, <1>2, <1>3, <1>4 DEF Next

\* As long as nothing resets a started block, a second bip that is due is always on
\* its way (gestion_bip.vhd:88-103): the AUTO_x states of the machine, which wait for
\* it, are left.
THEOREM SecondBipJamaisOublie == Spec => []SecondBipDu
<1>1. InvChoix => SecondBipDu
  BY DEF InvChoix
<1> QED BY <1>1, InitChoix, EtapeChoix, Invariant, PTL DEF Spec

\* What a step does to the sound and to the bips owed, without a reset once started.
LEMMA EtapePromesse ==
    ASSUME InvBip, InvChoix, [Next]_vars, ~chaud, ~chaud'
    PROVE  \/ b'.act = TRUE /\ BipsDus' \in {n \in 1..2 : n >= BipsDus}
           \/ b.act /\ b'.act = FALSE /\ BipsDus' \in {BipsDus - 1, 1}
           \/ ~b.act /\ BipsDus = 1 /\ b'.act = TRUE /\ BipsDus' = BipsDus
           \/ b'.act = b.act /\ BipsDus' = BipsDus
<1>0. b \in Bips /\ b.act \in BOOLEAN /\ b'.act \in BOOLEAN
  BY EtapeInv, Champs DEF InvBip, TypeOK, Bips
<1>1. CASE Horloge
  <2>1. PICK s \in BOOLEAN, w \in BOOLEAN :
            \/ /\ b.act /\ ~b.att /\ ~b'.act
               /\ b'.att <=> (b.choix \/ w)
               /\ b'.choix <=> (b.choix \/ w)
            \/ b.att /\ b'.act /\ ~b'.att /\ ~b'.choix
            \/ /\ b'.act <=> (b.act \/ s \/ w)
               /\ b'.att <=> b.att
               /\ b'.choix <=> (b.choix \/ w)
    BY <1>1, HorlogeTrois
  <2>2. CASE /\ b.act /\ ~b.att /\ ~b'.act
             /\ b'.att <=> (b.choix \/ w)
             /\ b'.choix <=> (b.choix \/ w)
    <3>1. BipsDus = (IF b.choix THEN 2 ELSE 1) /\ BipsDus' \in {0, 1}
      BY <2>2 DEF BipsDus
    <3>2. BipsDus' = 0 => BipsDus = 1
      BY <2>2 DEF BipsDus
    <3>3. BipsDus' \in {BipsDus - 1, 1}
      BY <3>1, <3>2
    <3>4. b'.act = FALSE
      BY <1>0, <2>2
    <3> QED BY <2>2, <3>3, <3>4
  <2>3. CASE b.att /\ b'.act /\ ~b'.att /\ ~b'.choix
    <3>1. BipsDus = 1 /\ BipsDus' = 1
      BY <2>3 DEF BipsDus
    <3>2. b'.act = TRUE
      BY <1>0, <2>3
    <3>3. CASE b.act
      <4>1. b'.act = b.act
        BY <1>0, <3>2, <3>3
      <4> QED BY <3>1, <4>1
    <3>4. CASE ~b.act
      BY <3>1, <3>2, <3>4
    <3> QED BY <3>3, <3>4
  <2>4. CASE /\ b'.act <=> (b.act \/ s \/ w)
             /\ b'.att <=> b.att
             /\ b'.choix <=> (b.choix \/ w)
    <3>1. CASE s \/ w
      <4>1. b'.act = TRUE
        BY <1>0, <2>4, <3>1
      <4>2. BipsDus \in {0, 1, 2} /\ BipsDus' \in {1, 2}
        BY <2>4, <3>1 DEF BipsDus
      <4>3. BipsDus = 2 => BipsDus' = 2
        BY <2>4 DEF BipsDus
      <4>4. BipsDus' \in {n \in 1..2 : n >= BipsDus}
        BY <4>2, <4>3
      <4> QED BY <4>1, <4>4
    <3>2. CASE ~s /\ ~w
      <4>1. b'.act = b.act
        BY <1>0, <2>4, <3>2
      <4>2. BipsDus' = BipsDus
        BY <2>4, <3>2 DEF BipsDus
      <4> QED BY <4>1, <4>2
    <3> QED BY <3>1, <3>2
  <2> QED BY <2>1, <2>2, <2>3, <2>4
<1>2. CASE HorlogeEnRaz
  <2>1. b'.choix = b.choix /\ b'.att = b.att /\ b'.act = FALSE
    BY <1>2 DEF HorlogeEnRaz, BipHorlogeRaz
  <2>2. b.act = FALSE
    BY <1>0, <1>2 DEF HorlogeEnRaz, InvChoix
  <2> QED BY <2>1, <2>2 DEF BipsDus
<1>3. CASE Raz
  BY <1>3 DEF Raz
<1>4. CASE UNCHANGED vars
  BY <1>4 DEF vars, BipsDus
<1> QED BY <1>1, <1>2, <1>3, <1>4 DEF Next

\* The block implements the safety of its promise: it starts silent, and every step
\* is a step of BipAbstrait or leaves the sound and the bips owed unchanged.
THEOREM TientPromesseEtapes ==
    Spec => /\ Promesse!InitAbstrait
            /\ [][Promesse!NextAbstrait]_<<~chaud /\ b.act, BipsDus>>
<1>1. Init => Promesse!InitAbstrait /\ InvChoix
  BY DEF Init, BipInitial, BipsDus, InvChoix, SecondBipDu, Promesse!InitAbstrait
<1>2. InvBip /\ InvChoix /\ [Next]_vars
      => [Promesse!NextAbstrait]_<<~chaud /\ b.act, BipsDus>>
  <2> SUFFICES ASSUME InvBip, InvChoix, [Next]_vars
               PROVE  [Promesse!NextAbstrait]_<<~chaud /\ b.act, BipsDus>>
    OBVIOUS
  <2>1. chaud' = chaud /\ chaud \in BOOLEAN
    BY DEF Next, Horloge, HorlogeEnRaz, Raz, vars, InvBip, TypeOK
  <2>2. CASE chaud
    <3>1. (~chaud /\ b.act) = FALSE /\ (~chaud /\ b.act)' = FALSE
      BY <2>1, <2>2
    <3>2. BipsDus = 0 /\ BipsDus' = 0
      BY <2>1, <2>2 DEF BipsDus
    <3> QED BY <3>1, <3>2
  <2>3. CASE ~chaud
    <3>1. b \in Bips /\ b.act \in BOOLEAN /\ b'.act \in BOOLEAN
      BY EtapeInv, Champs DEF InvBip, TypeOK, Bips
    <3>2. (~chaud /\ b.act) = b.act /\ (~chaud /\ b.act)' = b'.act
      BY <2>1, <2>3, <3>1
    <3>3. \/ b'.act = TRUE /\ BipsDus' \in {n \in 1..2 : n >= BipsDus}
          \/ b.act /\ b'.act = FALSE /\ BipsDus' \in {BipsDus - 1, 1}
          \/ ~b.act /\ BipsDus = 1 /\ b'.act = TRUE /\ BipsDus' = BipsDus
          \/ b'.act = b.act /\ BipsDus' = BipsDus
      BY <2>1, <2>3, EtapePromesse
    <3> QED BY <3>2, <3>3 DEF Promesse!NextAbstrait, Promesse!Annonce, Promesse!FinBip,
                              Promesse!Reprise
  <2> QED BY <2>1, <2>2, <2>3
<1>3. InvBip /\ InvChoix /\ [Next]_vars => InvChoix'
  BY EtapeChoix
<1> QED BY <1>1, <1>2, <1>3, Invariant, PTL DEF Spec
================================================================================
