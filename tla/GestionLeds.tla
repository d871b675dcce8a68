------------------------------- MODULE GestionLeds -------------------------------
(***************************************************************************)
(* gestion_leds.vhd: the LED of the STBY/AUTO button blinks in standby and *)
(* is lit in automatic mode; a rudder LED follows its button in standby    *)
(* and, in automatic mode, flashes with a gestion_bip of its own while the *)
(* state is a course change of its side.  That gestion_bip is enabled only *)
(* in automatic mode: in standby its latches are frozen, its counters and  *)
(* edge detectors run on, and the end of a flash passes unseen.            *)
(***************************************************************************)
EXTENDS Bip, BarreVue

VARIABLES
    l,      \* gestion_led_mode_auto_inst, whose sound is the signal led
    c,      \* the blinking: act is allume_led_stby, att is eteind_led_stby
    trib    \* ledTribord_o, a latch in standby when both buttons are down

vars == <<raz_n, btn, barre, cur, next, l, c, trib>>

CapBabord  == {"AUTO_babord_1", "AUTO_babord_10"}
CapTribord == {"AUTO_tribord_1", "AUTO_tribord_10"}

\* The three outputs.  The first branch of the elsif chain lights port, and starboard
\* only if port is up: with both down the starboard LED keeps its value.
Babord  == IF ModeLeds(cur) THEN cur \in CapBabord /\ l.act ELSE btn["babord"]
STBY    == ModeLeds(cur) \/ c.act

\* Slip: no latch, the starboard LED goes out while port is down.
TribordSansVerrou(v, e, b, bt) ==
    IF ModeLeds(e) THEN e \in CapTribord /\ b.act ELSE bt["tribord"] /\ ~bt["babord"]

Tribord(v, e, b, bt) ==
    IF ModeLeds(e) THEN e \in CapTribord /\ b.act
    ELSE bt["tribord"] /\ (bt["babord"] => v)

\* The gestion_bip of the LEDs hears the rudder buttons only.
Entree(a) == [x \in Boutons |-> IF x = "babord" THEN a ELSE Rien]

Re1(b)  == FrontMontant(FinUn(b), b.s1)
Re05(b) == FrontMontant(FinDemi(b), b.s05)

\* That gestion_bip at an edge, with en1 its enable before and en its enable after.  If
\* the enable rises before the signals of the period that ends have left, the latches
\* catch those too; if it falls after those of the next one have come, they catch these,
\* the answers alone or the ends with them.
LedHorloge(b, en1, en, avant, apres) ==
    LET m == BipCompteurs(b)
        Pris(a, r) == Verrou(m, Entree(a), r /\ Re1(b), r /\ Re05(b))
        Passes(a)  == {BipMilieu(b, Entree(a)), BipHorloge(b, Entree(a))}
    IN  CASE en         -> {BipFin(Pris(a, r), Entree(apres)) : a \in {avant, apres}, r \in BOOLEAN}
          [] ~en /\ en1 -> {m} \cup Passes(avant) \cup Passes(apres)
          [] OTHER      -> {m}

ClignoteInitial == [BipInitial EXCEPT !.act = TRUE]

\* Slip: the end of the dark lights nothing.
EclairUnique(m, re1, re05) ==
    [m EXCEPT !.act = ~re1 /\ @, !.att = ~re05 /\ (@ \/ re1)]

\* The two latches of the blinking in standby.
Eclair(m, re1, re05) ==
    [m EXCEPT !.act = re05 \/ (~re1 /\ @), !.att = ~re05 /\ (@ \/ re1)]

\* The blinking at an edge: it heeds the ends of its counters in standby only, may
\* catch one of the period that ends when standby begins, and one of the period that
\* begins when standby ends.
ClignoteHorloge(b, en1, en) ==
    LET m == BipCompteurs(b)
        Pris(r) == Eclair(m, r /\ Re1(b), r /\ Re05(b))
    IN  CASE en         -> {Eclair(Pris(r), Re1(m), Re05(m)) : r \in BOOLEAN}
          [] ~en /\ en1 -> {m, Eclair(m, Re1(m), Re05(m))}
          [] OTHER      -> {m}

\* The reset holds the counters of the blinking at zero, and neither of its latches,
\* which may catch an end that standby, come with the reset, lets through.
ClignoteRaz(b) == {[Eclair(b, r /\ Re1(b), r /\ Re05(b)) EXCEPT !.un = 0, !.demi = 0]
                      : r \in BOOLEAN}
ClignoteHorlogeRaz(b) == {[m EXCEPT !.s1 = FinUn(b), !.s05 = FinDemi(b)]
                             : m \in ClignoteRaz(b)}

Init == /\ VueInit
        /\ l = BipInitial
        /\ c = ClignoteInitial
        /\ trib = FALSE

Voyants == trib' = Tribord(trib, cur', l', btn')

Horloge == /\ VueHorloge
           /\ l' \in LedHorloge(l, ModeLeds(cur), ModeLeds(next), barre, barre')
           /\ c' \in ClignoteHorloge(c, ~ModeLeds(cur), ~ModeLeds(next))
           /\ Voyants

HorlogeEnRaz == /\ VueHorlogeEnRaz
                /\ l' = BipHorlogeRaz(l)
                /\ c' = [c EXCEPT !.s1 = FinUn(c), !.s05 = FinDemi(c)]
                /\ Voyants

Bouton(x) == VueBouton(x) /\ UNCHANGED <<l, c>> /\ Voyants

\* The reset by the software comes with an edge, that of the system between two.
Raz == /\ VueRaz
       /\ \/ l' = BipRaz(l) /\ c' \in ClignoteRaz(c)
          \/ l' = BipHorlogeRaz(l) /\ c' \in ClignoteHorlogeRaz(c)
       /\ Voyants

Next == Horloge \/ HorlogeEnRaz \/ Raz \/ \E x \in Cotes : Bouton(x)

\* The oscillator of the board never stops: out of reset, one counter of the blinking
\* runs at every edge, and no step but Horloge moves it.
Coup == raz_n /\ UNCHANGED raz_n /\ c' \in ClignoteHorloge(c, ~ModeLeds(cur), ~ModeLeds(next))

Spec == Init /\ [][Next]_vars /\ WF_c(Coup)

----------------------------------------------------------------------------------
TypeOK == /\ raz_n \in BOOLEAN /\ btn \in [Cotes -> BOOLEAN]
          /\ barre \in Reponses
          /\ cur \in Etats /\ next \in Etats
          /\ l \in Bips /\ c \in Bips /\ trib \in BOOLEAN

\* A machine that settles in manual steering shows it: while it stays in STBY_babord
\* or STBY_tribord the LED of that side is lit, in whatever order the two buttons went
\* down, and a rudder LED lit in standby has its button down.
BarreMontree ==
    /\ cur = "STBY_babord"  /\ next = cur => Babord
    /\ cur = "STBY_tribord" /\ next = cur => trib
    /\ ~ModeLeds(cur) /\ trib => btn["tribord"]

\* A flash and the dark between two last their full time or, cut by the reset, start
\* again from nothing: neither counter is left half-way by a change of mode.
FlashPlein == /\ l.act \/ l.un \in {0, UneSec}
              /\ l.att \/ l.demi \in {0, DemiSec}

\* The blinking is never both lit and dark, nor neither: the two latches that share it
\* have no reset, and miss the ends of their counters in automatic mode.
ClignoteSain == /\ c.att = ~c.act
                /\ c.act \/ c.un \in {0, UneSec}
                /\ c.att \/ c.demi \in {0, DemiSec}

\* In standby the LED of STBY/AUTO blinks for ever, wherever the blinking was when
\* automatic mode or a reset stopped it.
Clignote ==
    <>[](raz_n /\ ~ModeLeds(cur)) => []<>STBY /\ []<>~STBY

\* In automatic mode a flash ends, even one that standby froze.
FlashFini ==
    <>[](raz_n /\ ModeLeds(cur) /\ barre = Rien) => <>[]~l.act

\* The inductive invariant of the two flashes.
InvLeds ==
    /\ TypeOK /\ FlashPlein /\ ClignoteSain
    /\ l.un <= UneSec /\ l.demi <= DemiSec /\ c.un <= UneSec /\ c.demi <= DemiSec
==================================================================================
