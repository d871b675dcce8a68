--------------------------------- MODULE DefEtats ---------------------------------
(***************************************************************************)
(* The acquisition machine of the two sensors, def_etats.vhd: the state    *)
(* that follows, held by a latch, and the enable of the last register.     *)
(***************************************************************************)
EXTENDS Naturals

Etats == {"st_continu", "st_start_aq", "st_acquisition", "st_stop_aq"}

\* Slip: a start is seen in continuous mode only.
SuivantSansDepart(st, c, ss, tenu) ==
    CASE st = "st_continu" /\ ~c /\ ~ss -> "st_stop_aq"
      [] st = "st_continu" /\ ~c /\ ss  -> "st_acquisition"
      [] st = "st_start_aq" /\ ~ss      -> "st_stop_aq"
      [] st = "st_start_aq" /\ ss /\ c  -> "st_continu"
      [] st = "st_acquisition"          -> "st_start_aq"
      [] st = "st_stop_aq" /\ c         -> "st_continu"
      [] OTHER                          -> tenu

\* next_st for the state st and the inputs, the latch keeping tenu where no branch
\* assigns it.
Suivant(st, c, ss, tenu) ==
    CASE st = "st_continu" /\ ~c /\ ~ss -> "st_stop_aq"
      [] st = "st_continu" /\ ~c /\ ss  -> "st_acquisition"
      [] st = "st_start_aq" /\ ~ss      -> "st_stop_aq"
      [] st = "st_start_aq" /\ ss /\ c  -> "st_continu"
      [] st = "st_acquisition"          -> "st_start_aq"
      [] st = "st_stop_aq" /\ ss        -> "st_acquisition"
      [] st = "st_stop_aq" /\ ~ss /\ c  -> "st_continu"
      [] OTHER                          -> tenu

\* Slip: the last register is loaded in a single acquisition only.
AcquisitionSeule(st) == st = "st_acquisition"

\* acquisition_o, the enable of the last register.
Acquisition(st) == st \in {"st_continu", "st_acquisition"}
===================================================================================
