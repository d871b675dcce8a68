--------------------------------- MODULE BarreVue ---------------------------------
(***************************************************************************)
(* What gestion_leds.vhd sees of the rest of gestion_barre.vhd: the reset, *)
(* the rudder buttons, the answers of their timers and the state.  Timers  *)
(* and bip are left out: an answer comes when it likes, the bip is or is   *)
(* not heard.  GestionBarre implements this view.                          *)
(***************************************************************************)
EXTENDS MachineEtat

VARIABLES
    raz_n,   \* the reset, active low
    btn,     \* the levels of the two rudder buttons
    barre,   \* the answers of their timers: Rien, Court, or Long if there is a long one
    cur,     \* current_st
    next     \* next_st

vue == <<raz_n, btn, barre, cur, next>>

Cotes == {"babord", "tribord"}

\* The values that the decoding may give the latch of the next state in the state c,
\* whatever the timers and the bip say: the one it holds, n, or a successor of c.
Tient(c, bt) ==
    \/ c \in {"AUTO"} \cup EtatsTransitoires
    \/ c = "STBY" /\ ~bt["babord"] /\ ~bt["tribord"]
    \/ c = "STBY_babord" /\ bt["babord"]
    \/ c = "STBY_tribord" /\ bt["tribord"]

Suivants(c, bt) ==
    CASE c = "STBY" -> {"AUTO"} \cup {e \in {"STBY_babord"} : bt["babord"]}
                                \cup {e \in {"STBY_tribord"} : bt["tribord"] /\ ~bt["babord"]}
      [] c = "AUTO" -> {"AUTO", "STBY"} \cup EtatsTransitoires
      [] c = "STBY_babord"  -> {e \in {"STBY"} : ~bt["babord"]}
      [] c = "STBY_tribord" -> {e \in {"STBY"} : ~bt["tribord"]}
      [] c \in EtatsTransitoires -> {"AUTO"}

Settle(n, c, bt) == Suivants(c, bt) \cup {m \in {n} : Tient(c, bt)}

VueInit == /\ raz_n = FALSE
           /\ btn = [x \in Cotes |-> FALSE]
           /\ barre = Rien
           /\ cur = "STBY" /\ next = "STBY"

VueHorloge ==
    /\ raz_n
    /\ UNCHANGED <<raz_n, btn>>
    /\ cur' = next
    /\ barre' \in Reponses
    /\ next' \in Settle(next, next, btn)

VueHorlogeEnRaz == ~raz_n /\ raz_n' \in BOOLEAN /\ UNCHANGED <<btn, barre, cur, next>>

VueBouton(x) ==
    /\ btn' = [btn EXCEPT ![x] = ~@]
    /\ next' \in Settle(next, cur, btn')
    /\ UNCHANGED <<raz_n, barre, cur>>

VueRaz ==
    /\ raz_n /\ raz_n' = FALSE
    /\ barre' = Rien
    /\ cur' = "STBY"
    /\ next' \in UNION {Settle(n, "STBY", btn) : n \in Etats}
    /\ UNCHANGED btn

VueNext == VueHorloge \/ VueHorlogeEnRaz \/ VueRaz \/ \E x \in Cotes : VueBouton(x)
===================================================================================
