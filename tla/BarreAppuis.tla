------------------------------ MODULE BarreAppuis ------------------------------
(***************************************************************************)
(* The tiller from the button to the mode: GestionBarre with the history   *)
(* of the presses that AppuiBouton keeps for one timer.                    *)
(***************************************************************************)
EXTENDS GestionBarre

VARIABLE
    duree   \* history: for each button, for how many edges in a row its timer, out of
            \* reset, has sampled it pressed; Max + 1 stands for more than Max

varsAppuis == <<vars, duree>>

AucunAppui == [x \in Boutons |-> 0]

\* A sample more of a button.
Echantillon(d, pressee) == IF ~pressee THEN 0 ELSE IF d > Max THEN d ELSE d + 1

\* Every edge outside reset takes a sample; a button that moves between two edges
\* takes none, and a reset forgets them.
Mesure ==
    duree' = IF ~raz_n \/ ~raz_n' THEN AucunAppui
             ELSE IF btn' # btn THEN duree
             ELSE [x \in Boutons |-> Echantillon(duree[x], btn[x])]

InitAppuis == Init /\ duree = AucunAppui

SpecAppuis == InitAppuis /\ [][Next /\ Mesure]_varsAppuis

--------------------------------------------------------------------------------
\* The edge at which the timer of a button sees it released.
Relache(x) == Horloge /\ t[x].s /\ ~btn[x]

\* A button that nobody touches, its last answer withdrawn.
Repos(x) == ~btn[x] /\ ~t[x].s /\ t[x].tempo = Rien

\* The mode or the course change that a press of class r on x asks for in mode m.
Ordre(m, x, r) ==
    CASE x = "auto"    -> IF r = Long THEN m ELSE IF m = "STBY" THEN "AUTO" ELSE "STBY"
      [] x = "babord"  -> IF r = Court THEN "AUTO_babord_1" ELSE "AUTO_babord_10"
      [] x = "tribord" -> IF r = Court THEN "AUTO_tribord_1" ELSE "AUTO_tribord_10"

\* A press well within the capacity of the counter: three samples or more, and not
\* within two periods of the threshold.
Nette(d) == d \in 3..Max /\ d \notin Seuil..(Seuil + 1)

\* From the button to the course: a press made while the bip is silent and the other
\* buttons are left alone is obeyed according to its length.  At the edge that sees the
\* release the latch points to what it asks for, and the bip that confirms it begins,
\* with a second one to come for a course change of ten degrees.
PressionObeie ==
    [][ \A x \in Boutons :
          LET r == IF duree[x] < Seuil THEN Court ELSE Long
          IN  /\ Relache(x) /\ Nette(duree[x]) /\ \A y \in Boutons \ {x} : Repos(y)
              /\ ~b.act
              /\ next = "AUTO" \/ (next = "STBY" /\ x = "auto")
              => /\ next' = Ordre(next, x, r)
                 /\ b'.act /\ b'.un = 0
                 /\ x # "auto" /\ r = Long /\ ~b.att => b'.choix ]_varsAppuis

\* Each timer lives here in the surroundings that AppuiBouton.tla gives it: what is
\* shown there of one timer holds of the three.
ChronoAuto    == INSTANCE AppuiBouton WITH
               btn <- btn["auto"], t <- t["auto"], duree <- duree["auto"]
ChronoBabord  == INSTANCE AppuiBouton WITH
               btn <- btn["babord"], t <- t["babord"], duree <- duree["babord"]
ChronoTribord == INSTANCE AppuiBouton WITH
               btn <- btn["tribord"], t <- t["tribord"], duree <- duree["tribord"]

EntoureLesChronos == ChronoAuto!Spec /\ ChronoBabord!Spec /\ ChronoTribord!Spec
================================================================================
