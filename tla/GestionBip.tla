------------------------------- MODULE GestionBip -------------------------------
(***************************************************************************)
(* The gestion_bip of gestion_barre.vhd, always enabled, driven by timers  *)
(* that answer whenever they like (an answer lasts one period) and by the  *)
(* reset of bus_avalon_f7.vhd.  A software that resets a started block and *)
(* one that never does are both studied: chaud, chosen once and for all,   *)
(* says which.                                                             *)
(***************************************************************************)
EXTENDS Bip

VARIABLES
    chaud,   \* may the block be reset once it has started? never changes
    raz_n,   \* the reset, active low
    appui,   \* the answers of the three timers
    b        \* the registers and latches of the block

vars == <<chaud, raz_n, appui, b>>

SansAppui == [x \in Boutons |-> Rien]

Init == chaud \in BOOLEAN /\ raz_n = FALSE /\ appui = SansAppui /\ b = BipInitial

Horloge ==
    /\ raz_n
    /\ \E a \in [Boutons -> Reponses] :
          /\ \A x \in Boutons : appui[x] # Rien => a[x] = Rien
          /\ appui' = a
          /\ b' = BipHorloge(b, a)
    /\ UNCHANGED <<chaud, raz_n>>

\* The software writes to the register, or not, at an edge of the clock.
HorlogeEnRaz == /\ ~raz_n
                /\ raz_n' \in BOOLEAN
                /\ b' = BipHorlogeRaz(b)
                /\ UNCHANGED <<chaud, appui>>

\* A reset by the software comes with an edge, the reset of the system between two.
Raz == /\ raz_n /\ chaud
       /\ raz_n' = FALSE
       /\ appui' = SansAppui
       /\ b' \in {BipRaz(b), BipHorlogeRaz(b)}
       /\ UNCHANGED chaud

Next == Horloge \/ HorlogeEnRaz \/ Raz

\* The clock of the board never stops.
Spec == Init /\ [][Next]_vars /\ WF_vars(Horloge)

--------------------------------------------------------------------------------
TypeOK == chaud \in BOOLEAN /\ raz_n \in BOOLEAN /\ appui \in [Boutons -> Reponses] /\ b \in Bips

\* A second bip is due only while the first one sounds or during the silence that
\* separates them, unless a reset comes in between: nothing else would ever sound it
\* and clear temp_choix_btn, for which the AUTO_x states of Machine_etat.vhd wait.
SecondBipDu == ~chaud /\ b.choix => b.act \/ b.att

\* Each bip and each silence lasts its full time, whatever presses arrive meanwhile
\* and whatever the reset does.
DureesPleines == BipPlein(b)

\* The block, never reset once started, implements its promise.
BipsDus == IF chaud THEN 0
           ELSE IF b.choix /\ ~b.att THEN 2
           ELSE IF b.act \/ b.att THEN 1 ELSE 0

Promesse == INSTANCE BipAbstrait WITH son <- ~chaud /\ b.act, dus <- BipsDus

TientPromesse == Promesse!SpecAbstrait

--------------------------------------------------------------------------------
\* The inductive invariant, resets included.
InvBip == TypeOK /\ BipPlein(b) /\ BipLie(b)

\* Without a reset once started, the block is still silent when it leaves reset.
InvChoix == SecondBipDu /\ (~chaud /\ ~raz_n => ~b.choix /\ ~b.act /\ ~b.att)
================================================================================
