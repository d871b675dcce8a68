------------------------------- MODULE MachineEtat -------------------------------
(***************************************************************************)
(* The states of Machine_etat.vhd and the decoding of the next one, which  *)
(* is a latch because most of its branches assign nothing.                 *)
(***************************************************************************)
EXTENDS Composants

EtatsTransitoires1  == {"AUTO_babord_1", "AUTO_tribord_1"}
EtatsTransitoires10 == {"AUTO_babord_10", "AUTO_tribord_10"}
EtatsTransitoires   == EtatsTransitoires1 \cup EtatsTransitoires10
EtatsVeille         == {"STBY", "STBY_babord", "STBY_tribord"}
Etats               == EtatsVeille \cup {"AUTO"} \cup EtatsTransitoires

ModeLeds(e) == e \notin EtatsVeille    \* mode_leds_o: automatic, or a course change

\* Slips in the decoding: the guard of the bip dropped, the code of a long press, the
\* guard the wrong way round, a wrong target, the second bip not waited for.
STBYSansGarde(n, appui, act, btn) ==
    IF appui["auto"] = Court THEN "AUTO"
    ELSE IF btn["babord"] THEN "STBY_babord"
    ELSE IF btn["tribord"] THEN "STBY_tribord"
    ELSE n

STBYAppuiLong(n, appui, act, btn) ==
    IF appui["auto"] = Long /\ ~act THEN "AUTO"
    ELSE IF btn["babord"] THEN "STBY_babord"
    ELSE IF btn["tribord"] THEN "STBY_tribord"
    ELSE n

AUTOSousBip(n, appui, act) ==
    IF appui["auto"] = Court /\ act THEN "STBY"
    ELSE IF appui["auto"] = Long THEN "AUTO"
    ELSE IF appui["babord"] = Court THEN "AUTO_babord_1"
    ELSE IF appui["tribord"] = Court THEN "AUTO_tribord_1"
    ELSE IF appui["babord"] = Long THEN "AUTO_babord_10"
    ELSE IF appui["tribord"] = Long THEN "AUTO_tribord_10"
    ELSE n

RetourVersAUTO(n, btn, cote) == IF btn[cote] THEN n ELSE "AUTO"

RetourSansAttendre(n, appui, act, choix, cote) ==
    IF appui[cote] = Rien /\ ~act THEN "AUTO" ELSE n

\* What each state decodes, n being the value the latch keeps otherwise; act and
\* choix are activation_bip and temp_choix_btn, btn the levels of the buttons.
DepuisSTBY(n, appui, act, btn) ==
    IF appui["auto"] = Court /\ ~act THEN "AUTO"
    ELSE IF btn["babord"] THEN "STBY_babord"
    ELSE IF btn["tribord"] THEN "STBY_tribord"
    ELSE n

DepuisAUTO(n, appui, act) ==
    IF appui["auto"] = Court /\ ~act THEN "STBY"
    ELSE IF appui["auto"] = Long THEN "AUTO"
    ELSE IF appui["babord"] = Court THEN "AUTO_babord_1"
    ELSE IF appui["tribord"] = Court THEN "AUTO_tribord_1"
    ELSE IF appui["babord"] = Long THEN "AUTO_babord_10"
    ELSE IF appui["tribord"] = Long THEN "AUTO_tribord_10"
    ELSE n

RetourSTBY(n, btn, cote) == IF btn[cote] THEN n ELSE "STBY"

RetourAUTO(n, appui, act, choix, cote) ==
    IF appui[cote] = Rien /\ ~act /\ ~choix THEN "AUTO" ELSE n

Decode(n, cur, appui, act, choix, btn) ==
    CASE cur = "STBY" -> DepuisSTBY(n, appui, act, btn)
      [] cur = "AUTO" -> DepuisAUTO(n, appui, act)
      [] cur = "STBY_babord"  -> RetourSTBY(n, btn, "babord")
      [] cur = "STBY_tribord" -> RetourSTBY(n, btn, "tribord")
      [] cur \in {"AUTO_babord_1", "AUTO_babord_10"} ->
             RetourAUTO(n, appui, act, choix, "babord")
      [] cur \in {"AUTO_tribord_1", "AUTO_tribord_10"} ->
             RetourAUTO(n, appui, act, choix, "tribord")
==================================================================================
