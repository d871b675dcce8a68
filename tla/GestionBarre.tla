------------------------------ MODULE GestionBarre ------------------------------
(***************************************************************************)
(* The tiller peripheral: bus_avalon_f7.vhd and the gestion_barre.vhd it   *)
(* contains, that is three timers (TempsAppui), the state machine          *)
(* (MachineEtat) and the bip (Bip) on one clock.  The buttons move between *)
(* edges of the clock, the software writes the reset register, the system  *)
(* reset may strike at any time.                                           *)
(*                                                                         *)
(* After an edge, the inputs of the latch next_st settle in four stages:   *)
(*   1. the state register has changed, the answers of the timers not yet  *)
(*   2. the answers have changed, the bip not yet                          *)
(*   3. the bip has heard the answers                                      *)
(*   4. the bip has seen its counters end                                  *)
(* A simulator evaluates the process at each of them, in delta cycles; a   *)
(* circuit may be too fast for the latch to catch one of the first three.  *)
(***************************************************************************)
EXTENDS TempsAppui, Bip, MachineEtat

CONSTANTS
    Glitches,    \* the sets of intermediate stages that the latch may catch
    Actifs,      \* the buttons that the crew uses
    RazAChaud    \* may the block be reset once it has started?

ASSUME BarreAssumption ==
    /\ Glitches \subseteq SUBSET (1..3)
    /\ Actifs \subseteq Boutons
    /\ RazAChaud \in BOOLEAN

VARIABLES
    raz_n,   \* the reset register of bus_avalon_f7.vhd, active low
    btn,     \* the levels of the buttons
    t,       \* the timers of the buttons
    b,       \* the bip
    cur,     \* current_st
    next     \* next_st

vars == <<raz_n, btn, t, b, cur, next>>

SansAppui == [x \in Boutons |-> Rien]
Appuis(c) == [x \in Boutons |-> c[x].tempo]

\* The latch after a stage k, which it catches or not.
Etage(k, g, n, m) == IF k \in g THEN m ELSE n

Init ==
    /\ raz_n = FALSE
    /\ btn = [x \in Boutons |-> FALSE]
    /\ t = [x \in Boutons |-> ChronoInitial]
    /\ b = BipInitial
    /\ cur = "STBY" /\ next = "STBY"

\* A rising edge of the clock.
Horloge ==
    /\ raz_n
    /\ t' = [x \in Boutons |-> ChronoHorloge(t[x], btn[x])]
    /\ b' = BipHorloge(b, Appuis(t'))
    /\ cur' = next
    /\ \E g \in Glitches :
         LET m  == BipMilieu(b, Appuis(t'))
             n1 == Etage(1, g, next, Decode(next, cur', Appuis(t), b.act, b.choix, btn))
             n2 == Etage(2, g, n1, Decode(n1, cur', Appuis(t'), b.act, b.choix, btn))
             n3 == Etage(3, g, n2, Decode(n2, cur', Appuis(t'), m.act, m.choix, btn))
         IN  next' = Decode(n3, cur', Appuis(t'), b'.act, b'.choix, btn)
    /\ UNCHANGED <<raz_n, btn>>

\* A rising edge during reset, at which the software may write 1 to the register.
HorlogeEnRaz ==
    /\ ~raz_n
    /\ raz_n' \in BOOLEAN
    /\ t' = [x \in Boutons |-> ChronoHorlogeRaz(t[x], btn[x])]
    /\ b' = BipHorlogeRaz(b)
    /\ UNCHANGED <<btn, cur, next>>

\* A button moves: the latch is transparent, whatever the clock does.
Bouton(x) ==
    /\ btn' = [btn EXCEPT ![x] = ~@]
    /\ next' = Decode(next, cur, Appuis(t), b.act, b.choix, btn')
    /\ UNCHANGED <<raz_n, t, b, cur>>

\* The software writes 0 to the register: the registers are clocked, then cleared;
\* next_st has no reset.
EcritRaz ==
    /\ raz_n /\ RazAChaud
    /\ raz_n' = FALSE
    /\ t' = [x \in Boutons |-> ChronoRaz(ChronoHorloge(t[x], btn[x]))]
    /\ b' = BipHorlogeRaz(b)
    /\ cur' = "STBY"
    /\ \E g \in Glitches :
         LET a  == [x \in Boutons |-> ChronoHorloge(t[x], btn[x]).tempo]
             n1 == Etage(1, g, next, Decode(next, next, Appuis(t), b.act, b.choix, btn))
             n2 == Etage(2, g, n1, Decode(n1, "STBY", a, b.act, b.choix, btn))
         IN  next' = Decode(n2, "STBY", SansAppui, FALSE, b.choix, btn)
    /\ UNCHANGED btn

\* The reset of the system clears the register between two edges.
RazSysteme ==
    /\ raz_n /\ RazAChaud
    /\ raz_n' = FALSE
    /\ t' = [x \in Boutons |-> ChronoRaz(t[x])]
    /\ b' = BipRaz(b)
    /\ cur' = "STBY"
    /\ \E g \in Glitches :
         LET n2 == Etage(2, g, next, Decode(next, "STBY", Appuis(t), b.act, b.choix, btn))
         IN  next' = Decode(n2, "STBY", SansAppui, FALSE, b.choix, btn)
    /\ UNCHANGED btn

Next == \/ Horloge \/ HorlogeEnRaz \/ EcritRaz \/ RazSysteme
        \/ \E x \in Actifs : Bouton(x)

\* The oscillator of the board never stops.
Spec == Init /\ [][Next]_vars /\ WF_vars(Horloge)

---------------------------------------------------------------------------------
TypeOK == /\ raz_n \in BOOLEAN
          /\ btn \in [Boutons -> BOOLEAN]
          /\ t \in [Boutons -> Chronos]
          /\ b \in Bips
          /\ cur \in Etats /\ next \in Etats

\* The diagram of the states: standby and automatic are the two hubs.
Diagramme ==
    [e \in Etats |->
        CASE e = "STBY" -> {"AUTO", "STBY_babord", "STBY_tribord"}
          [] e = "AUTO" -> {"STBY"} \cup EtatsTransitoires
          [] e \in EtatsTransitoires -> {"AUTO"}
          [] OTHER -> {"STBY"}]

\* What the register will take at the next edge is a successor of the present state,
\* although the latch keeps what earlier states, answers and buttons left in it.
SuccesseurPret == next \in {cur} \cup Diagramme[cur]

\* The latch points to the other of the two modes.
Bascule == ModeLeds(next) # ModeLeds(cur)

\* In the hub e nothing competes with a press on STBY/AUTO for the latch: the answer
\* of a rudder button in automatic mode, the button itself in standby.
SansRival(e, appui, bt) ==
    /\ e = "AUTO" => appui["babord"] = Rien /\ appui["tribord"] = Rien
    /\ e = "STBY" => ~bt["babord"] /\ ~bt["tribord"]

\* A short press on STBY/AUTO that starts a bip changes the mode: in a hub, the edge
\* that answers it leaves the latch pointing to the other mode, although the bip it
\* starts closes the guard activation_bip = 0, and the latch holds that until the next
\* edge.  Two presses are lost to a rival whose branch comes later: that of a rudder
\* button answered at the same edge in automatic mode (Machine_etat.vhd:44-51), that
\* of a rudder button down in the period of the answer in standby (34-37).
BasculeEntendue ==
    [][ /\ t'["auto"].tempo = Court /\ b'.act /\ b'.un = 0
        /\ cur' \in {"STBY", "AUTO"} /\ SansRival(cur', Appuis(t'), btn')
        /\ Horloge \/ Bascule
        => Bascule' ]_vars

\* The same press does not change the mode back: when the mode has changed and the
\* answer still stands, the latch does not point to the old mode after the next edge.
\* One case is excepted, a press answered in the very period in which a bip ended: it
\* has started no bip, and nothing closes the guard.
UneSeuleBascule ==
    [][ Horloge /\ t["auto"].tempo = Court /\ ModeLeds(cur') # ModeLeds(cur)
        => ~Bascule' \/ FinUn(b) ]_vars

\* What becomes of that press: the new mode takes the answer for a second press, and
\* the mode is back where it was two edges after the answer.
BasculeAnnulee ==
    [][ /\ Horloge /\ t["auto"].tempo = Court /\ FinUn(b)
        /\ {cur, cur'} = {"STBY", "AUTO"} /\ SansRival(cur', Appuis(t'), btn)
        => next' = cur ]_vars

\* A course change stays on the code read by the software while its bips last: no
\* bip is cut short, and the silence between two bips is no end.
CommandeTenue ==
    [][ cur' = "AUTO" /\ cur \in EtatsTransitoires => ~b.att /\ (b.act => b.un = 0) ]_vars

\* Once the crew leaves the buttons alone and the block is reset no more, it falls
\* silent and stays in one of its two hubs, whatever was pressed and whenever; only a
\* reset that left temp_choix_btn set can hold a course change for want of its bips.
RetourAuCalme ==
    <>[](raz_n /\ \A x \in Boutons : ~btn[x]) =>
        <>[](~b.act /\ (cur \in {"STBY", "AUTO"} \/ (RazAChaud /\ b.choix)))

\* The bip lives here in the surroundings that GestionBip.tla gives it: every answer
\* lasts one period, comes with an edge and is withdrawn by a reset.
LeBip == INSTANCE GestionBip WITH appui <- Appuis(t), chaud <- RazAChaud

EntoureLeBip == LeBip!Init /\ [][LeBip!Next]_<<raz_n, Appuis(t), b>>

\* The LEDs live here in the surroundings that BarreVue.tla gives them: what they see
\* of the timers, the latch and the state moves as that view says.
BarreLue(a) == IF Double(a) THEN Long ELSE IF Simple([a EXCEPT !["auto"] = Rien]) THEN Court
               ELSE Rien

LaVue == INSTANCE BarreVue WITH
             btn <- [x \in {"babord", "tribord"} |-> btn[x]], barre <- BarreLue(Appuis(t))

EntoureLesLeds == LaVue!VueInit /\ [][LaVue!VueNext]_(LaVue!vue)

\* The inductive invariant, resets and any choice of stages included: the block in
\* reset is in standby without answers, the bip is sound, and a course change whose
\* end the latch has decoded has no bip to wait for, or one that has just begun.
InvBarre ==
    /\ TypeOK
    /\ BipPlein(b) /\ BipLie(b)
    /\ ~raz_n => cur = "STBY" /\ \A x \in Boutons : t[x].tempo = Rien
    /\ next = "AUTO" /\ cur \in EtatsTransitoires => ~b.att /\ (b.act => b.un = 0)

---------------------------------------------------------------------------------
\* Refuted by the code.  A reset puts the block in standby (the reset branch of
\* Machine_etat.vhd:85): it is still in standby, or at most following a button, at
\* the first edge after it.
RazMetEnVeille == ~raz_n => next \in EtatsVeille

\* Refuted by the code.  Every change between standby and automatic is confirmed by
\* a bip, sounding when the mode changes.
ConfirmationSonore ==
    [][ Horloge /\ {cur, cur'} = {"STBY", "AUTO"} => b.act \/ b'.act ]_vars
=================================================================================
