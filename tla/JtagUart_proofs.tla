------------------------------ MODULE JtagUart_proofs ------------------------------
(***************************************************************************)
(* Proofs about the driver of the JTAG UART: the types, the wake-ups of    *)
(* the interrupt, the punctuality of the alarm and the patience with a     *)
(* silent host, that no character is lost, doubled or overtaken between    *)
(* the program and the host, each direction a bounded channel, and that    *)
(* delivery progresses, for every size of the buffers and of the FIFOs,    *)
(* every range of the counters and every period.                           *)
(***************************************************************************)
EXTENDS JtagUart, TLAPS

-----------------------------------------------------------------------------------
\* The counter of ticks wraps at most once in a sum of two of its values.
LEMMA Reduit ==
    ASSUME NEW m \in Nat, 0 < m, NEW x \in 0..(2 * m - 1)
    PROVE  x % m = IF x < m THEN x ELSE x - m
<1>1. CASE x < m
  BY <1>1
<1>2. CASE x >= m
  BY <1>2
<1> QED BY <1>1, <1>2

\* An index of a buffer stays in it.
LEMMA ApresType ==
    ASSUME NEW i \in Int, NEW n \in Int PROVE Apres(i, n) \in Places
BY TailleAssumption DEF Apres, Places

\* What write() may put and read() may take is never negative, and never runs past the
\* end of the buffer.
LEMMA ALogerType ==
    ASSUME NEW i \in Places, NEW o \in Places
    PROVE  ALoger(i, o) \in 0..(Taille - i)
BY TailleAssumption DEF ALoger, Places

\* What read() may take ends at the end of the buffer at the latest.
LEMMA APrendreType ==
    ASSUME NEW i \in Places, NEW o \in Places
    PROVE  APrendre(i, o) \in 0..(Taille - o)
BY TailleAssumption DEF APrendre, Places

\* The smaller of two counts is one, and is at most each of them.
LEMMA MoindreType ==
    ASSUME NEW m \in Nat, NEW n \in Nat
    PROVE  Moindre(m, n) \in Nat /\ Moindre(m, n) <= m /\ Moindre(m, n) <= n
BY DEF Moindre

\* The number of a later character is a number.
LEMMA SuccesseurType ==
    ASSUME NEW c \in Int, NEW n \in Int PROVE Successeur(c, n) \in 0..(Numeros - 1)
BY UartAssumption DEF Successeur

\* The next n characters of the program are n numbers.
LEMMA SuiteType ==
    ASSUME NEW n \in Nat, ecrits \in Nat
    PROVE  Suite(n) \in Seq(0..(Numeros - 1)) /\ Len(Suite(n)) = n
<1>1. \A k \in 1..n : (ecrits + k - 1) % Numeros \in 0..(Numeros - 1)
  BY UartAssumption
<1> QED BY <1>1 DEF Suite

\* Copying into a buffer keeps it a buffer, of the values that it is for.
LEMMA LogeType ==
    ASSUME NEW V, NEW b \in [Places -> V], NEW i \in Places, NEW t \in Seq(V)
    PROVE  Loge(b, i, t) \in [Places -> V]
<1>1. ASSUME NEW j \in Places, j \in i..(i + Len(t) - 1) PROVE t[j - i + 1] \in V
  <2>1. Len(t) \in Nat /\ i \in Int /\ j \in Int
    BY TailleAssumption DEF Places
  <2>2. j - i + 1 \in 1..Len(t)
    BY <1>1, <2>1
  <2> QED BY <2>2
<1> QED BY <1>1 DEF Loge

\* A FIFO of the device loses its first character, or gains one.
LEMMA FifoType ==
    ASSUME NEW V, NEW q \in Seq(V)
    PROVE  /\ q # <<>> => Head(q) \in V /\ Tail(q) \in Seq(V) /\ Len(Tail(q)) = Len(q) - 1
           /\ \A x \in V : Append(q, x) \in Seq(V) /\ Len(Append(q, x)) = Len(q) + 1
OBVIOUS

-----------------------------------------------------------------------------------
\* The program's own steps keep the types.
LEMMA ProgrammeType ==
    ASSUME TypeOK, Programme PROVE TypeOK'
<1>0. 0 \in Places /\ 0 \in 0..Demande /\ {tx_in, tx_out, rx_in, rx_out, lu} \subseteq Places
      /\ reste \in Nat /\ ecrits \in Nat /\ Demande \in Nat
  BY UartAssumption, TailleAssumption DEF TypeOK, Places
<1>1. CASE EcritLit
  BY <1>0, <1>1 DEF TypeOK, EcritLit, Avance, anneaux, horloge, materiel, routine, programme, bouts
<1>2. CASE EcritIrq
  BY <1>0, <1>2 DEF TypeOK, EcritIrq, EcritSuite, Avance, Rend, Oublie, Regarde, RELU, anneaux, horloge, materiel, routine, programme, bouts
<1>3. CASE EcritAttend
  BY <1>0, <1>3 DEF TypeOK, EcritAttend, Avance, RELU, anneaux, horloge, materiel, routine, programme, bouts
<1>4. CASE EcritHote
  BY <1>0, <1>4 DEF TypeOK, EcritHote, Avance, Rend, Oublie, RELU, anneaux, horloge, materiel, routine, programme, bouts
<1>5. CASE LitLit
  BY <1>0, <1>5 DEF TypeOK, LitLit, Avance, anneaux, horloge, materiel, routine, programme, bouts
<1>6. CASE LitRien
  BY <1>0, <1>6 DEF TypeOK, LitRien, Avance, Rend, Oublie, Regarde, RELU, anneaux, horloge, materiel, routine, programme, bouts
<1>7. CASE LitAttend
  BY <1>0, <1>7 DEF TypeOK, LitAttend, Avance, RELU, anneaux, horloge, materiel, routine, programme, bouts
<1>8. CASE LitTest
  BY <1>0, <1>8 DEF TypeOK, LitTest, Avance, Rend, Oublie, RELU, anneaux, horloge, materiel, routine, programme, bouts
<1>9. CASE LitIrq
  BY <1>0, <1>9 DEF TypeOK, LitIrq, Avance, Rend, Oublie, RELU, anneaux, horloge, materiel, routine, programme, bouts
<1>10. CASE FermeAttend
  BY <1>0, <1>10 DEF TypeOK, FermeAttend, Avance, Rend, Oublie, RELU, anneaux, horloge, materiel, routine, programme, bouts
<1>11. CASE EcritCopie
  <2> DEFINE n == Moindre(ALoger(tx_in, lu), reste)
  <2>0. ALoger(tx_in, lu) \in Nat
    <3>1. tx_in \in Places /\ lu \in Places
      BY <1>0
    <3>2. ALoger(tx_in, lu) \in 0..(Taille - tx_in)
      BY <3>1, ALogerType
    <3> QED BY <3>1, <3>2, TailleAssumption DEF Places
  <2>1. n \in Nat /\ n <= reste
    BY <1>0, <2>0, MoindreType
  <2> HIDE DEF n
  <2>2. /\ pc' \in {"w_irq", "w_lit"}
        /\ tx_buf' = Loge(tx_buf, tx_in, Suite(n)) /\ tx_in' = Apres(tx_in, n)
        /\ ecrits' = Successeur(ecrits, n) /\ reste' = reste - n
        /\ lu' \in {lu, 0}
        /\ UNCHANGED <<rx_in, rx_out, rx_buf, tx_out, re, we, horloge, materiel, routine,
                       fait, nb, vu, emploi, recus, envoyes, lus>>
    BY <1>11 DEF EcritCopie, n, Avance
  <2>3. tx_in' \in Places /\ ecrits' \in 0..(Numeros - 1) /\ reste' \in 0..Demande
    <3>1. tx_in \in Int /\ ecrits \in Int /\ n \in Int
      BY <1>0, <2>1, TailleAssumption DEF Places
    <3>2. tx_in' \in Places
      BY <2>2, <3>1, ApresType
    <3>3. ecrits' \in 0..(Numeros - 1)
      BY <2>2, <3>1, SuccesseurType
    <3>4. reste' \in 0..Demande
      <4>1. reste' = reste - n /\ reste \in 0..Demande
        BY <2>2 DEF TypeOK
      <4> QED BY <1>0, <2>1, <4>1
    <3> QED BY <3>2, <3>3, <3>4
  <2>4. tx_buf' \in [Places -> 0..(Numeros - 1)]
    BY <1>0, <2>1, <2>2, SuiteType, LogeType DEF TypeOK
  <2> QED BY <1>0, <2>2, <2>3, <2>4 DEF TypeOK, horloge, materiel, routine
<1>12. CASE LitCopie
  <2> DEFINE n == Moindre(APrendre(lu, rx_out), reste)
  <2>0. APrendre(lu, rx_out) \in Nat /\ APrendre(lu, rx_out) <= Taille - rx_out
        /\ Taille - rx_out \in Int
    <3>1. rx_out \in Places /\ lu \in Places
      BY <1>0
    <3>2. APrendre(lu, rx_out) \in 0..(Taille - rx_out)
      BY <3>1, APrendreType
    <3> QED BY <3>1, <3>2, TailleAssumption DEF Places
  <2>1. n \in Nat /\ n <= reste /\ n <= Taille - rx_out
    <3>1. n \in Nat /\ n <= reste /\ n <= APrendre(lu, rx_out)
      BY <1>0, <2>0, MoindreType
    <3> HIDE DEF n
    <3> QED BY <2>0, <3>1
  <2> HIDE DEF n
  <2>2. /\ n > 0 /\ pc' \in {"r_irq", "r_lit"}
        /\ rx_out' = Apres(rx_out, n) /\ reste' \in {0, reste - n}
        /\ fait' \in BOOLEAN /\ nb' = FALSE /\ lu' = 0 /\ vu' \in {RELU, vu}
        /\ lus' = Successeur(rx_buf[rx_out + n - 1], 1)
        /\ UNCHANGED <<rx_in, rx_buf, tx_in, tx_out, tx_buf, re, we, horloge, materiel, routine,
                       emploi, ecrits, recus, envoyes>>
    BY <1>12 DEF LitCopie, n, Avance, Oublie
  <2>3. rx_out + n - 1 \in Places
    BY <1>0, <2>1, <2>2, TailleAssumption DEF Places
  <2>4. rx_buf[rx_out + n - 1] \in Int
    BY <2>3, UartAssumption DEF TypeOK
  <2>5. rx_out' \in Places /\ lus' \in 0..(Numeros - 1) /\ reste' \in 0..Demande
    <3>1. rx_out \in Int /\ n \in Int
      BY <1>0, <2>1, TailleAssumption DEF Places
    <3>2. rx_out' \in Places
      BY <2>2, <3>1, ApresType
    <3>3. lus' \in 0..(Numeros - 1)
      <4> DEFINE v == rx_buf[rx_out + n - 1]
      <4>1. v \in Int /\ lus' = Successeur(v, 1)
        BY <2>2, <2>4
      <4> HIDE DEF v
      <4> QED BY <4>1, SuccesseurType
    <3>4. reste' \in 0..Demande
      <4>1. reste' \in {0, reste - n} /\ reste \in 0..Demande
        BY <2>2 DEF TypeOK
      <4> QED BY <1>0, <2>1, <4>1
    <3> QED BY <3>2, <3>3, <3>4
  <2> QED BY <1>0, <2>2, <2>5 DEF TypeOK, horloge, materiel, routine
<1> QED BY <1>1, <1>2, <1>3, <1>4, <1>5, <1>6, <1>7, <1>8, <1>9, <1>10, <1>11, <1>12 DEF Programme

\* So do its calls.
LEMMA AppelsType ==
    ASSUME TypeOK, Appels PROVE TypeOK'
<1>1. ASSUME NEW b \in BOOLEAN, Ferme(b) PROVE TypeOK'
  BY <1>1 DEF TypeOK, Ferme, Avance, Regarde, RELU, anneaux, horloge, materiel, routine, bouts
<1>2. ASSUME NEW b \in BOOLEAN, NEW k \in 1..Demande, NEW v \in {"w_lit", "r_lit"}, Appel(v, k, b)
      PROVE  TypeOK'
  <2>1. k \in 0..Demande
    BY UartAssumption
  <2> QED BY <1>2, <2>1 DEF TypeOK, Appel, Avance, anneaux, horloge, materiel, routine, bouts
<1>3. ASSUME NEW t \in 0..INT_MAX, Ioctl(t) PROVE TypeOK'
  <2>1. timeout' \in 2..INT_MAX
    BY <1>3, UartAssumption DEF Ioctl
  <2>2. pc' \in {"main"}
    BY <1>3 DEF Ioctl, Avance
  <2> QED BY <1>3, <2>1, <2>2 DEF TypeOK, Ioctl, anneaux, materiel, routine, bouts
<1> QED BY <1>1, <1>2, <1>3 DEF Appels

\* So does the interrupt routine.
LEMMA IrqType ==
    ASSUME TypeOK, Irq PROVE TypeOK'
<1>0. /\ Len(txf) \in Nat /\ ProfondeurTx \in Nat /\ ProfondeurRx \in Nat /\ 0 \in 0..ProfondeurTx
      /\ {tx_in, tx_out, rx_in, rx_out} \subseteq Places /\ Places \subseteq Int
  BY UartAssumption, TailleAssumption DEF TypeOK, Places
<1>1. CASE IrqControle
  BY <1>0, <1>1 DEF TypeOK, IrqControle, RI, WI, AF, anneaux, horloge, materiel, routine, programme, bouts
<1>2. CASE IrqFinRx
  BY <1>0, <1>2 DEF TypeOK, IrqFinRx, Plein, anneaux, horloge, materiel, routine, programme, bouts
<1>3. CASE IrqFinTx
  BY <1>0, <1>3 DEF TypeOK, IrqFinTx, anneaux, horloge, materiel, routine, programme, bouts
<1>4. CASE IrqRecoit
  <2>1. Head(rxf) \in 0..(Numeros - 1) /\ Tail(rxf) \in Seq(0..(Numeros - 1))
        /\ Len(Tail(rxf)) <= ProfondeurRx
    <3>1. rxf \in Seq(0..(Numeros - 1)) /\ Len(rxf) <= ProfondeurRx /\ rxf # <<>>
      BY <1>4 DEF TypeOK, IrqRecoit
    <3>2. Head(rxf) \in 0..(Numeros - 1) /\ Tail(rxf) \in Seq(0..(Numeros - 1))
          /\ Len(Tail(rxf)) = Len(rxf) - 1
      BY <3>1, FifoType
    <3> DEFINE l == Len(rxf)
               m == Len(Tail(rxf))
    <3>3. l \in Nat /\ m = l - 1 /\ l <= ProfondeurRx /\ ProfondeurRx \in Nat
      <4>1. l \in Nat
        BY <3>1
      <4>2. ProfondeurRx \in Nat
        BY <1>0
      <4> QED BY <3>1, <3>2, <4>1, <4>2
    <3> HIDE DEF l, m
    <3>4. m <= ProfondeurRx
      BY <3>3
    <3> QED BY <3>2, <3>4 DEF m
  <2>2. rx_buf' \in [Places -> 0..(Numeros - 1)]
    BY <1>4, <2>1 DEF TypeOK, IrqRecoit
  <2>3. rx_in' \in Places
    <3>1. rx_in \in Int /\ rx_in' = Apres(rx_in, 1)
      BY <1>0, <1>4 DEF IrqRecoit
    <3> QED BY <3>1, ApresType
  <2>4. dispo' \in BOOLEAN
    BY <1>4 DEF IrqRecoit
  <2> QED BY <1>4, <2>1, <2>2, <2>3, <2>4 DEF TypeOK, IrqRecoit, horloge, programme, bouts
<1>6. CASE IrqCroise
  <2>1. envoyes \in 0..(Numeros - 1) /\ envoyes \in Int
    BY UartAssumption DEF TypeOK
  <2>2. envoyes' \in 0..(Numeros - 1)
    BY <1>6, <2>1, SuccesseurType DEF IrqCroise
  <2>3. rxf' \in Seq(0..(Numeros - 1)) /\ Len(rxf') <= ProfondeurRx
    BY <1>6, <2>1, UartAssumption DEF IrqCroise
  <2> QED BY <1>6, <2>2, <2>3 DEF TypeOK, IrqCroise, anneaux, horloge, programme
<1>5. CASE IrqEmet
  <2>1. tx_buf[tx_out] \in 0..(Numeros - 1)
    BY <1>0 DEF TypeOK
  <2>2. txf' \in Seq(0..(Numeros - 1)) /\ Len(txf') <= ProfondeurTx
    <3>1. txf \in Seq(0..(Numeros - 1)) /\ Len(txf) <= ProfondeurTx
      BY DEF TypeOK
    <3>2. Append(txf, tx_buf[tx_out]) \in Seq(0..(Numeros - 1))
          /\ Len(Append(txf, tx_buf[tx_out])) = Len(txf) + 1
      BY <2>1, <3>1, FifoType
    <3>3. txf' = IF Len(txf) < ProfondeurTx THEN Append(txf, tx_buf[tx_out]) ELSE txf
      BY <1>5 DEF IrqEmet
    <3>4. Len(txf) \in Nat /\ ProfondeurTx \in Nat
      BY <1>0
    <3>5. CASE Len(txf) < ProfondeurTx
      <4>1. txf' = Append(txf, tx_buf[tx_out])
        BY <3>3, <3>5
      <4>2. Len(txf) + 1 <= ProfondeurTx
        BY <3>4, <3>5
      <4> QED BY <3>2, <4>1, <4>2
    <3>6. CASE ~(Len(txf) < ProfondeurTx)
      BY <3>1, <3>3, <3>6
    <3> QED BY <3>5, <3>6
  <2>3. tx_out' \in Places
    <3>1. tx_out \in Int /\ tx_out' = Apres(tx_out, 1)
      BY <1>0, <1>5 DEF IrqEmet
    <3> QED BY <3>1, ApresType
  <2>4. place' \in 0..ProfondeurTx
    BY <1>0, <1>5 DEF TypeOK, IrqEmet
  <2> QED BY <1>5, <2>2, <2>3, <2>4 DEF TypeOK, IrqEmet, horloge, programme, bouts
<1> QED BY <1>1, <1>2, <1>3, <1>4, <1>5, <1>6 DEF Irq

\* An alarm is never more than a turn of the counter ahead.
LEMMA TickType ==
    ASSUME TypeOK, Tick PROVE TypeOK'
<1>1. Tours \in Nat /\ 2 < Tours /\ ParSeconde \in Nat /\ INT_MAX \in Nat /\ 3 < INT_MAX
  BY ToursAssumption, UartAssumption
<1>2. alarm.time \in Nat /\ nticks \in Nat /\ alarm.rollover \in BOOLEAN
      /\ alarm \in Alarme
  BY <1>1 DEF TypeOK, Alarme, Ticks
<1>3. nticks' \in Ticks
  BY <1>1, <1>2 DEF Tick, Ticks
<1>4. alarm' \in Alarme
  <2> DEFINE t == (alarm.time + ParSeconde) % Tours
  <2>1. t \in Ticks
    BY <1>1, <1>2 DEF Ticks
  <2> HIDE DEF t
  <2>2. (t < nticks') \in BOOLEAN /\ Rollover(alarm, nticks') \in BOOLEAN
        /\ alarm.time \in Ticks
    BY <1>2 DEF Rollover, Alarme
  <2>3. \/ alarm' = [time |-> t, rollover |-> t < nticks']
        \/ alarm' = [time |-> alarm.time, rollover |-> Rollover(alarm, nticks')]
    BY DEF Tick, AlarmeTick, t
  <2>4. alarm.time \in Ticks
    BY <2>2
  <2>5. CASE alarm' = [time |-> t, rollover |-> t < nticks']
    BY <2>1, <2>2, <2>5 DEF Alarme
  <2>6. CASE alarm' = [time |-> alarm.time, rollover |-> Rollover(alarm, nticks')]
    BY <2>2, <2>4, <2>6 DEF Alarme
  <2> QED BY <2>3, <2>5, <2>6
<1>5. host_inactive' \in 0..(INT_MAX - 2) /\ ac' \in BOOLEAN
  <2>1. host_inactive \in 0..(INT_MAX - 2) /\ ac \in BOOLEAN
    BY DEF TypeOK
  <2>2. Timeout \/ UNCHANGED <<ac, host_inactive>>
    BY DEF Tick
  <2>3. CASE Timeout
    <3>1. ac' \in BOOLEAN
      BY <2>1, <2>3 DEF Timeout
    <3>2. host_inactive' \in {0, host_inactive}
          \/ (host_inactive < INT_MAX - 2 /\ host_inactive' = host_inactive + 1)
      BY <2>3 DEF Timeout
    <3>3. host_inactive' \in 0..(INT_MAX - 2)
      BY <1>1, <2>1, <3>2
    <3> QED BY <3>1, <3>3
  <2>4. CASE UNCHANGED <<ac, host_inactive>>
    BY <2>1, <2>4
  <2> QED BY <2>2, <2>3, <2>4
<1>6. UNCHANGED <<anneaux, re, we, timeout, txf, rxf, pause, routine, programme, emploi, bouts>>
  BY DEF Tick
<1> QED BY <1>3, <1>4, <1>5, <1>6 DEF TypeOK, anneaux, routine, programme, bouts

\* So do the host and the device.
LEMMA HoteType ==
    ASSUME TypeOK, HotePrend \/ HoteEnvoie \/ HotePause PROVE TypeOK'
<1>0. ProfondeurTx \in Nat /\ ProfondeurRx \in Nat /\ Numeros \in Nat /\ Len(txf) \in Nat /\ Len(rxf) \in Nat
  <2>1. txf \in Seq(0..(Numeros - 1)) /\ rxf \in Seq(0..(Numeros - 1))
    BY DEF TypeOK
  <2>2. Len(txf) \in Nat /\ Len(rxf) \in Nat
    BY <2>1
  <2> QED BY <2>2, UartAssumption
<1>1. CASE HotePrend
  <2>1. Head(txf) \in 0..(Numeros - 1) /\ Tail(txf) \in Seq(0..(Numeros - 1))
        /\ Len(Tail(txf)) <= ProfondeurTx
    <3>1. txf \in Seq(0..(Numeros - 1)) /\ Len(txf) <= ProfondeurTx /\ txf # <<>>
      BY <1>1 DEF TypeOK, HotePrend
    <3>2. Head(txf) \in 0..(Numeros - 1) /\ Tail(txf) \in Seq(0..(Numeros - 1))
          /\ Len(Tail(txf)) = Len(txf) - 1
      BY <3>1, FifoType
    <3> QED BY <1>0, <3>1, <3>2
  <2>2. recus' \in 0..(Numeros - 1)
    <3> DEFINE v == Head(txf)
    <3>1. v \in Int /\ recus' = Successeur(v, 1)
      BY <1>0, <1>1, <2>1 DEF HotePrend
    <3> HIDE DEF v
    <3> QED BY <3>1, SuccesseurType
  <2>3. UNCHANGED <<anneaux, re, we, horloge, rxf, pause, ac, routine, programme, emploi, ecrits,
                    envoyes, lus>>
        /\ txf' = Tail(txf)
    BY <1>1 DEF HotePrend
  <2> QED BY <2>1, <2>2, <2>3 DEF TypeOK, anneaux, horloge, routine, programme
<1>2. CASE HoteEnvoie
  <2>1. envoyes \in 0..(Numeros - 1)
    BY DEF TypeOK
  <2>2. envoyes' \in 0..(Numeros - 1)
    BY <1>0, <1>2, <2>1, SuccesseurType DEF HoteEnvoie
  <2>3. rxf' \in Seq(0..(Numeros - 1)) /\ Len(rxf') <= ProfondeurRx
    BY <1>0, <1>2, <2>1 DEF TypeOK, HoteEnvoie
  <2> QED BY <1>2, <2>2, <2>3 DEF TypeOK, HoteEnvoie, anneaux, horloge, routine, programme
<1>3. CASE HotePause
  <2>1. pause' \in BOOLEAN
    BY <1>3 DEF TypeOK, HotePause
  <2> QED BY <1>3, <2>1 DEF TypeOK, HotePause, anneaux, horloge, routine, programme, bouts
<1> QED BY <1>1, <1>2, <1>3

\* What altera_avalon_jtag_uart_init() leaves has its types.
LEMMA InitType == Init => TypeOK
<1> SUFFICES ASSUME Init PROVE TypeOK
  OBVIOUS
<1>1. /\ 0 \in Places /\ 0 \in 0..(Numeros - 1) /\ timeout \in 2..INT_MAX /\ 0 \in 0..(INT_MAX - 2)
      /\ 0 \in Ticks /\ 0 \in 0..ProfondeurTx /\ 0 \in 0..Demande /\ 0 <= ProfondeurTx /\ 0 <= ProfondeurRx
  BY UartAssumption, TailleAssumption, ToursAssumption DEF Init, Places, Ticks
<1>2. alarm \in Alarme
  <2> DEFINE t == (nticks + ParSeconde + 1) % Tours
  <2>1. t \in Ticks /\ (t < nticks) \in BOOLEAN
    BY UartAssumption, ToursAssumption DEF Init, Ticks
  <2>2. alarm = [time |-> t, rollover |-> t < nticks]
    BY DEF Init, AlarmeDemarre
  <2> HIDE DEF t
  <2> QED BY <2>1, <2>2 DEF Alarme
<1>3. {rx_buf, tx_buf} \subseteq [Places -> 0..(Numeros - 1)]
  BY <1>1 DEF Init
<1>4. txf = <<>> /\ rxf = <<>> /\ Len(<<>>) = 0
  BY DEF Init
<1>5. RELU \in {RELU} \cup 0..(INT_MAX - 2)
  OBVIOUS
<1>6. {txf, rxf} \subseteq Seq(0..(Numeros - 1))
  BY <1>4
<1>7. Len(txf) <= ProfondeurTx /\ Len(rxf) <= ProfondeurRx
  BY <1>1, <1>4
<1> QED BY <1>1, <1>2, <1>3, <1>5, <1>6, <1>7 DEF Init, TypeOK

\* Every step keeps the types.
LEMMA NextType == TypeOK /\ [Next]_vars => TypeOK'
<1> SUFFICES ASSUME TypeOK, [Next]_vars PROVE TypeOK'
  OBVIOUS
<1>1. CASE UNCHANGED vars
  BY <1>1 DEF TypeOK, vars, anneaux, horloge, materiel, routine, programme, bouts
<1> QED BY <1>1, ProgrammeType, AppelsType, IrqType, TickType, HoteType DEF Next

\* The indices stay in the buffers, the FIFOs within their depth, the counters of the
\* alarm and of the absence of the host in their ranges.
THEOREM TypesDuPilote == Spec => []TypeOK
BY InitType, NextType, PTL DEF Spec

-----------------------------------------------------------------------------------
\* The next place is another one.
LEMMA ApresBouge == ASSUME NEW i \in Places PROVE Apres(i, 1) # i
<1>1. Taille \in Nat /\ 1 < Taille /\ i \in 0..(Taille - 1)
  BY TailleAssumption DEF Places
<1>2. i + 1 \in 0..(2 * Taille - 1)
  BY <1>1
<1>3. (i + 1) % Taille = IF i + 1 < Taille THEN i + 1 ELSE i + 1 - Taille
  BY <1>1, <1>2, Reduit
<1> QED BY <1>1, <1>3 DEF Apres

\* The buffer of the receiver that is full is not empty.
LEMMA PleinNonVide == TypeOK /\ Plein => rx_in # rx_out
BY ApresBouge DEF TypeOK, Plein

\* Whoever holds characters has the interrupt that moves them, or is about to ask for it.
Interruptions ==
    /\ tx_in # tx_out => we \/ pc \in {"w_lit", "w_copie", "w_irq"}
    /\ ~re => rx_in # rx_out \/ (fait /\ pc \in {"r_lit", "r_copie"}) \/ pc = "r_irq"

\* A call goes to sleep on a buffer that is full, or empty, for the index it has read.
Sommeil ==
    /\ pc = "w_att" \/ (pc = "w_irq" /\ reste > 0) => Apres(tx_in, 1) = lu
    /\ pc = "w_copie" => reste > 0
    /\ pc = "r_att" => lu = rx_out


\* The host pauses only over characters that wait, and a routine that finds the device
\* empty has taken something from it, which the program has not seen yet.
Lecture ==
    /\ pause => rxf # <<>>
    /\ isr = "rx" /\ rxf = <<>> => rx_in # rx_out

\* The device raises its interrupt with a character at least (SeuilRx < ProfondeurRx), and
\* the program does not run while the routine does.
LEMMA NextLecture == TypeOK /\ Lecture /\ [Next]_vars => Lecture'
<1> SUFFICES ASSUME TypeOK, Lecture, [Next]_vars PROVE Lecture'
  OBVIOUS
<1>0. pause \in BOOLEAN /\ rxf \in Seq(0..(Numeros - 1))
  BY DEF TypeOK
<1>1. CASE IrqControle
  <2>1. AF => rxf # <<>>
    <3>1. rxf = <<>> => Len(rxf) = 0
      OBVIOUS
    <3> QED BY <3>1, UartAssumption DEF AF
  <2> QED BY <1>1, <2>1 DEF Lecture, IrqControle, RI, anneaux, materiel
<1>2. CASE IrqRecoit
  BY <1>2 DEF Lecture, IrqRecoit
<1>3. CASE IrqFinRx \/ IrqCroise \/ IrqEmet \/ IrqFinTx
  <2>1. pause' => rxf' # <<>>
    BY <1>3 DEF Lecture, IrqFinRx, IrqCroise, IrqEmet, IrqFinTx, materiel
  <2>2. isr' # "rx"
    BY <1>3 DEF IrqFinRx, IrqCroise, IrqEmet, IrqFinTx
  <2> QED BY <2>1, <2>2 DEF Lecture
<1>4. CASE HoteEnvoie
  <2>1. rxf' # <<>>
    BY <1>0, <1>4, FifoType DEF HoteEnvoie
  <2> QED BY <1>4, <2>1 DEF Lecture
<1>5. CASE HotePause
  BY <1>5 DEF Lecture, HotePause, anneaux, routine
<1>6. CASE isr = "repos" /\ UNCHANGED <<rxf, pause, isr>>
  BY <1>6 DEF Lecture
<1>7. CASE UNCHANGED <<rxf, pause, isr, rx_in, rx_out>>
  BY <1>7 DEF Lecture
<1>8. (Programme \/ Appels \/ Tick) => isr = "repos" /\ UNCHANGED <<rxf, pause, isr>>
  BY DEF Programme, Appels, EcritLit, EcritCopie, EcritIrq, EcritSuite, EcritAttend, EcritHote,
     LitLit, LitCopie, LitRien, LitAttend, LitTest, LitIrq, FermeAttend, Ferme, Appel, Ioctl, Rend,
     Avance, Tick, materiel, routine
<1>9. (HotePrend \/ UNCHANGED vars) => UNCHANGED <<rxf, pause, isr, rx_in, rx_out>>
  BY DEF HotePrend, vars, anneaux, materiel, routine
<1> QED BY <1>1, <1>2, <1>3, <1>4, <1>5, <1>6, <1>7, <1>8, <1>9 DEF Next, Irq

\* The wake-ups are kept by every step: the program that puts a character asks for the
\* interrupt before it waits or returns, the interrupt routine forbids it on the empty
\* buffer only; and the other way round for what is received.
LEMMA NextInterruptions == TypeOK /\ Lecture /\ Interruptions /\ [Next]_vars => Interruptions'
<1> SUFFICES ASSUME TypeOK, Lecture, Interruptions, [Next]_vars PROVE Interruptions'
  OBVIOUS
<1>0. {re, we, fait} \subseteq BOOLEAN
  BY DEF TypeOK
<1>1. CASE Programme
  <2>1. CASE EcritLit
    BY <1>0, <2>1 DEF Interruptions, EcritLit, Avance, anneaux
  <2>2. CASE EcritCopie
    BY <1>0, <2>2 DEF Interruptions, EcritCopie, Avance
  <2>3. CASE EcritIrq
    BY <1>0, <2>3 DEF Interruptions, EcritIrq, EcritSuite, Avance, Rend, Oublie, anneaux
  <2>4. CASE EcritAttend
    BY <1>0, <2>4 DEF Interruptions, EcritAttend, Avance, anneaux
  <2>5. CASE EcritHote
    BY <1>0, <2>5 DEF Interruptions, EcritHote, Avance, Rend, Oublie, anneaux
  <2>6. CASE LitLit
    BY <1>0, <2>6 DEF Interruptions, LitLit, Avance, anneaux
  <2>7. CASE LitCopie
    BY <1>0, <2>7 DEF Interruptions, LitCopie, Avance
  <2>8. CASE LitRien
    BY <1>0, <2>8 DEF Interruptions, LitRien, Avance, Rend, Oublie, anneaux
  <2>9. CASE LitAttend
    BY <1>0, <2>9 DEF Interruptions, LitAttend, Avance, anneaux
  <2>10. CASE LitTest
    BY <1>0, <2>10 DEF Interruptions, LitTest, Avance, Rend, Oublie, anneaux
  <2>11. CASE LitIrq
    BY <1>0, <2>11 DEF Interruptions, LitIrq, Avance, Rend, Oublie, anneaux
  <2>12. CASE FermeAttend
    BY <1>0, <2>12 DEF Interruptions, FermeAttend, Avance, Rend, Oublie, anneaux
  <2> QED BY <1>1, <2>1, <2>2, <2>3, <2>4, <2>5, <2>6, <2>7, <2>8, <2>9, <2>10, <2>11, <2>12
          DEF Programme
<1>2. CASE Appels
  BY <1>0, <1>2 DEF Interruptions, Appels, Ferme, Appel, Ioctl, Avance, anneaux
<1>3. CASE Irq
  <2>1. CASE IrqControle
    BY <1>0, <2>1 DEF Interruptions, IrqControle, anneaux, programme
  <2>2. CASE IrqRecoit
    <3>1. rx_in' # rx_out'
      BY <2>2 DEF IrqRecoit
    <3> QED BY <1>0, <2>2, <3>1 DEF Interruptions, IrqRecoit, programme
  <2>3. CASE IrqFinRx
    <3>1. re' \/ ~re \/ rx_in # rx_out
      BY <1>0, <2>3, PleinNonVide DEF IrqFinRx
    <3> QED BY <1>0, <2>3, <3>1 DEF Interruptions, IrqFinRx, anneaux, programme
  <2>4. CASE IrqEmet
    BY <1>0, <2>4 DEF Interruptions, IrqEmet, programme
  <2>5. CASE IrqFinTx
    BY <1>0, <2>5 DEF Interruptions, IrqFinTx, anneaux, programme
  <2>6. CASE IrqCroise
    <3>1. rx_in' # rx_out'
      BY <2>6 DEF Lecture, IrqCroise, anneaux
    <3> QED BY <1>0, <2>6, <3>1 DEF Interruptions, IrqCroise, anneaux, programme
  <2> QED BY <1>3, <2>1, <2>2, <2>3, <2>4, <2>5, <2>6 DEF Irq
<1>4. CASE Tick
  BY <1>0, <1>4 DEF Interruptions, Tick, anneaux, programme
<1>5. CASE HotePrend \/ HoteEnvoie \/ HotePause
  BY <1>0, <1>5 DEF Interruptions, HotePrend, HoteEnvoie, HotePause, anneaux, programme
<1>6. CASE UNCHANGED vars
  BY <1>0, <1>6 DEF Interruptions, vars, anneaux, programme
<1> QED BY <1>1, <1>2, <1>3, <1>4, <1>5, <1>6 DEF Next

\* Nothing can be put only where the buffer is full.
LEMMA ApresPlein ==
    ASSUME NEW i \in Places, NEW o \in Places, ALoger(i, o) = 0 PROVE Apres(i, 1) = o
<1>1. Taille \in Nat /\ 1 < Taille /\ i \in 0..(Taille - 1) /\ o \in 0..(Taille - 1)
  BY TailleAssumption DEF Places
<1>2. i + 1 \in 0..(2 * Taille - 1)
  BY <1>1
<1>3. (i + 1) % Taille = IF i + 1 < Taille THEN i + 1 ELSE i + 1 - Taille
  BY <1>1, <1>2, Reduit
<1> QED BY <1>1, <1>3 DEF Apres, ALoger

\* Only the program moves its index and its count, and it sleeps only where it has just
\* found no place (altera_avalon_jtag_uart_write.c:116) or nothing to take
\* (altera_avalon_jtag_uart_read.c:130).
LEMMA NextSommeil == TypeOK /\ Sommeil /\ [Next]_vars => Sommeil'
<1> SUFFICES ASSUME TypeOK, Sommeil, [Next]_vars PROVE Sommeil'
  OBVIOUS
<1>0. /\ tx_in \in Places /\ rx_out \in Places /\ lu \in Places /\ reste \in Nat
      /\ Taille \in Nat /\ 1 < Taille
  BY TailleAssumption DEF TypeOK
<1>1. CASE EcritLit
  <2>1. pc' \in {"w_copie", "w_irq"} /\ reste' = reste /\ (pc' = "w_copie" <=> reste > 0)
    BY <1>1 DEF EcritLit, Avance
  <2> QED BY <2>1 DEF Sommeil
<1>2. CASE EcritCopie
  <2> DEFINE al == ALoger(tx_in, lu)
             n == Moindre(al, reste)
  <2>1. al \in Nat
    <3>1. al \in 0..(Taille - tx_in)
      BY <1>0, ALogerType
    <3> HIDE DEF al
    <3> QED BY <1>0, <3>1 DEF Places
  <2>2. reste > 0
    BY <1>2 DEF Sommeil, EcritCopie, Avance
  <2>3. pc' = (IF n = 0 THEN "w_irq" ELSE "w_lit") /\ reste' = reste - n
        /\ tx_in' = Apres(tx_in, n) /\ (n = 0 => lu' = lu)
    BY <1>2 DEF EcritCopie, Avance
  <2>4. n = 0 => al = 0
    BY <2>1, <2>2 DEF Moindre
  <2>5. al = 0 => Apres(tx_in, 1) = lu
    BY <1>0, ApresPlein
  <2>6. n = 0 => Apres(tx_in, n) = tx_in
    BY <1>0 DEF Apres, Places
  <2> HIDE DEF n, al
  <2> QED BY <2>3, <2>4, <2>5, <2>6 DEF Sommeil
<1>3. CASE EcritIrq
  BY <1>3 DEF Sommeil, EcritIrq, EcritSuite, Avance, Rend, anneaux
<1>4. CASE LitRien
  <2>1. pc' = "r_att" => lu' = lu /\ rx_out' = rx_out /\ APrendre(lu, rx_out) = 0
    BY <1>4 DEF LitRien, Avance, Rend, anneaux
  <2>2. APrendre(lu, rx_out) = 0 => lu = rx_out
    BY <1>0 DEF APrendre, Places
  <2>3. pc' \in {"r_irq", "main", "r_att"}
    BY <1>4 DEF LitRien, Avance, Rend
  <2> QED BY <2>1, <2>2, <2>3 DEF Sommeil
<1>5. CASE EcritAttend \/ EcritHote \/ LitLit \/ LitCopie \/ LitAttend \/ LitTest \/ LitIrq
           \/ FermeAttend \/ Appels
  <2>1. pc' \notin {"w_att", "w_irq", "w_copie", "r_att"}
    BY <1>5 DEF EcritAttend, EcritHote, LitLit, LitCopie, LitAttend, LitTest, LitIrq, FermeAttend,
       Appels, Ferme, Appel, Ioctl, Avance, Rend
  <2> QED BY <2>1 DEF Sommeil
<1>6. CASE UNCHANGED <<pc, reste, lu, tx_in, rx_out>>
  BY <1>6 DEF Sommeil
<1>7. \/ EcritLit \/ EcritCopie \/ EcritIrq \/ LitRien
      \/ (EcritAttend \/ EcritHote \/ LitLit \/ LitCopie \/ LitAttend \/ LitTest \/ LitIrq
           \/ FermeAttend \/ Appels)
      \/ UNCHANGED <<pc, reste, lu, tx_in, rx_out>>
  BY DEF Next, Programme, Irq, IrqControle, IrqRecoit, IrqFinRx, IrqCroise, IrqEmet, IrqFinTx, Tick, HotePrend,
     HoteEnvoie, HotePause, vars, anneaux, programme
<1> QED BY <1>1, <1>2, <1>3, <1>4, <1>5, <1>6, <1>7

\* No character is ever left in a buffer with nothing to move it on, and no call sleeps on
\* an interrupt that is forbidden (altera_avalon_jtag_uart_write.c:129,
\* altera_avalon_jtag_uart_read.c:190): the two calls that may wait are woken by the
\* interrupt routine, which has something to do.
THEOREM ReveilsToujoursPrets == Spec => []Reveils
<1>1. Init => Lecture /\ Interruptions /\ Sommeil
  BY DEF Init, Lecture, Interruptions, Sommeil
<1>2. TypeOK /\ Interruptions /\ Sommeil => Reveils
  <2> SUFFICES ASSUME TypeOK, Interruptions, Sommeil PROVE Reveils
    OBVIOUS
  <2>1. Apres(tx_in, 1) # tx_in
    <3>1. tx_in \in Places
      BY DEF TypeOK
    <3> QED BY <3>1, ApresBouge
  <2>2. re \in BOOLEAN /\ we \in BOOLEAN
    BY DEF TypeOK
  <2> QED BY <2>1, <2>2 DEF Reveils, Interruptions, Sommeil
<1> QED BY <1>1, <1>2, TypesDuPilote, NextLecture, NextInterruptions, NextSommeil, PTL DEF Spec

-----------------------------------------------------------------------------------
\* The alarm is due within a period, two at its start.
Attente == Reste(alarm, nticks) \in 1..(ParSeconde + 1)

\* A tick brings the alarm one tick nearer, or makes it due and sets it again a period
\* later; wraps of the counter of ticks and of the tick it is due change nothing to it
\* (alt_tick.c:102).
LEMMA TickAttente ==
    ASSUME TypeOK, Attente, Tick
    PROVE  LET r == Reste(alarm, nticks)
           IN  /\ Reste(alarm', nticks') = IF r = 1 THEN ParSeconde ELSE r - 1
               /\ Echue(alarm, nticks') <=> r = 1
<1> DEFINE r == Reste(alarm, nticks)
           d == alarm.time
           w == alarm.rollover
<1>1. /\ Tours \in Nat /\ 2 < Tours /\ ParSeconde \in Nat /\ 0 < ParSeconde
      /\ ParSeconde + 1 < Tours
  BY ToursAssumption, UartAssumption
<1>2. d \in 0..(Tours - 1) /\ nticks \in 0..(Tours - 1) /\ w \in BOOLEAN
  BY DEF TypeOK, Alarme, Ticks
<1>3. r = IF w THEN (Tours - nticks) + d ELSE d - nticks
  BY DEF Reste
<1>4. r \in 1..(ParSeconde + 1)
  BY DEF Attente
<1>5. nticks' = IF nticks + 1 < Tours THEN nticks + 1 ELSE nticks + 1 - Tours
  <2> DEFINE x == nticks + 1
  <2>1. x \in 0..(2 * Tours - 1) /\ 0 < Tours
    BY <1>1, <1>2
  <2>2. nticks' = x % Tours
    BY DEF Tick
  <2> HIDE DEF x
  <2>3. nticks' = IF x < Tours THEN x ELSE x - Tours
    BY <1>1, <2>1, <2>2, Reduit
  <2> QED BY <1>1, <1>2, <2>3 DEF x
<1> DEFINE t == (d + ParSeconde) % Tours
<1>6. t = IF d + ParSeconde < Tours THEN d + ParSeconde ELSE d + ParSeconde - Tours
  <2> DEFINE x == d + ParSeconde
  <2>1. x \in 0..(2 * Tours - 1) /\ 0 < Tours
    BY <1>1, <1>2
  <2>2. t = x % Tours
    OBVIOUS
  <2> HIDE DEF x
  <2>3. x % Tours = IF x < Tours THEN x ELSE x - Tours
    BY <1>1, <2>1, Reduit
  <2> QED BY <1>1, <1>2, <2>2, <2>3 DEF x
<1>7. Rollover(alarm, nticks') <=> w /\ nticks' # 0
  BY DEF Rollover
<1>8. Echue(alarm, nticks') <=> d <= nticks' /\ ~(w /\ nticks' # 0)
  BY <1>7 DEF Echue
<1>9. alarm' = IF Echue(alarm, nticks') THEN [time |-> t, rollover |-> t < nticks']
               ELSE [time |-> d, rollover |-> Rollover(alarm, nticks')]
  BY DEF Tick, AlarmeTick
<1>10. (t < nticks') \in BOOLEAN /\ Rollover(alarm, nticks') \in BOOLEAN
  BY <1>2 DEF Rollover
<1> HIDE DEF t, d, w, r
<1>11. Echue(alarm, nticks') <=> r = 1
  BY <1>1, <1>2, <1>3, <1>4, <1>5, <1>8
<1>12. CASE r = 1
  <2>1. alarm'.time = t /\ (alarm'.rollover <=> t < nticks')
    BY <1>9, <1>10, <1>11, <1>12
  <2>2. Reste(alarm', nticks') = IF t < nticks' THEN (Tours - nticks') + t ELSE t - nticks'
    BY <2>1 DEF Reste
  <2>3. Reste(alarm', nticks') = ParSeconde
    BY <1>1, <1>2, <1>3, <1>4, <1>5, <1>6, <1>12, <2>2
  <2> QED BY <1>11, <1>12, <2>3 DEF r
<1>13. CASE r # 1
  <2>1. alarm'.time = d /\ (alarm'.rollover <=> w /\ nticks' # 0)
    BY <1>7, <1>9, <1>10, <1>11, <1>13
  <2>2. Reste(alarm', nticks') = IF w /\ nticks' # 0 THEN (Tours - nticks') + d ELSE d - nticks'
    BY <2>1 DEF Reste
  <2>3. Reste(alarm', nticks') = r - 1
    BY <1>1, <1>2, <1>3, <1>4, <1>5, <1>13, <2>2
  <2> QED BY <1>11, <1>13, <2>3 DEF r
<1> QED BY <1>12, <1>13

\* Only a tick moves the counter of ticks or the alarm.
LEMMA HorsTick == [Next]_vars => Tick \/ UNCHANGED <<alarm, nticks>>
BY DEF Next, Programme, EcritLit, EcritCopie, EcritIrq, EcritAttend, EcritHote, LitLit,
       LitCopie, LitRien, LitAttend, LitTest, LitIrq, FermeAttend, Appels, Ferme, Appel, Ioctl,
       Irq, IrqControle, IrqRecoit, IrqFinRx, IrqCroise, IrqEmet, IrqFinTx, HotePrend, HoteEnvoie,
       HotePause, vars, horloge

\* Every step keeps the account of who waits for the interrupt.
LEMMA NextAttente == TypeOK /\ Attente /\ [Next]_vars => Attente'
<1> SUFFICES ASSUME TypeOK, Attente, [Next]_vars PROVE Attente'
  OBVIOUS
<1>1. CASE Tick
  <2> DEFINE r == Reste(alarm, nticks)
  <2>1. Reste(alarm', nticks') = IF r = 1 THEN ParSeconde ELSE r - 1
    BY <1>1, TickAttente
  <2>2. r \in 1..(ParSeconde + 1) /\ ParSeconde \in Nat /\ 0 < ParSeconde
    BY UartAssumption DEF Attente
  <2> HIDE DEF r
  <2> QED BY <2>1, <2>2 DEF Attente
<1>2. CASE UNCHANGED <<alarm, nticks>>
  BY <1>2 DEF Attente
<1> QED BY <1>1, <1>2, HorsTick

\* Nobody waits at first.
LEMMA InitAttente == Init => Attente
<1> SUFFICES ASSUME Init PROVE Attente
  OBVIOUS
<1>1. /\ Tours \in Nat /\ 2 < Tours /\ ParSeconde \in Nat /\ 0 < ParSeconde
      /\ ParSeconde + 1 < Tours
  BY ToursAssumption, UartAssumption
<1>2. ParSeconde + 1 \in 0..(2 * Tours - 1) /\ 0 < Tours
  BY <1>1
<1>3. (ParSeconde + 1) % Tours = ParSeconde + 1
  BY <1>1, <1>2, Reduit
<1>4. nticks = 0 /\ 0 + ParSeconde + 1 = ParSeconde + 1
  BY <1>1 DEF Init
<1>5. alarm = [time |-> ParSeconde + 1, rollover |-> ParSeconde + 1 < 0]
  BY <1>3, <1>4 DEF Init, AlarmeDemarre
<1>6. ~(ParSeconde + 1 < 0)
  BY <1>1
<1>7. Reste(alarm, nticks) = ParSeconde + 1
  <2>1. alarm.time = ParSeconde + 1 /\ (alarm.rollover <=> ParSeconde + 1 < 0)
    BY <1>5
  <2>2. ~alarm.rollover
    BY <1>6, <2>1
  <2>3. Reste(alarm, nticks) = alarm.time - nticks
    BY <2>2 DEF Reste
  <2>4. alarm.time = ParSeconde + 1
    BY <2>1
  <2>5. nticks = 0
    BY <1>4
  <2> QED BY <1>1, <2>3, <2>4, <2>5
<1> QED BY <1>1, <1>7 DEF Attente

\* The absence of the host is counted in periods of ParSeconde ticks, neither more nor
\* less, for every width of the counter of ticks.
THEOREM AlarmeToujoursPonctuelle == Spec => AlarmePonctuelle
<1> DEFINE A == nticks' # nticks =>
                  LET r == Reste(alarm, nticks)
                  IN  /\ Reste(alarm, nticks)' = IF r = 1 THEN ParSeconde ELSE r - 1
                      /\ r # 1 => UNCHANGED <<host_inactive, ac>>
<1>1. TypeOK /\ Attente /\ [Next]_vars => [A]_vars
  <2> SUFFICES ASSUME TypeOK, Attente, [Next]_vars, nticks' # nticks PROVE A
    OBVIOUS
  <2>1. Tick
    BY HorsTick
  <2>2. Reste(alarm', nticks') = (IF Reste(alarm, nticks) = 1 THEN ParSeconde
                                  ELSE Reste(alarm, nticks) - 1)
        /\ (Echue(alarm, nticks') <=> Reste(alarm, nticks) = 1)
    BY <2>1, TickAttente
  <2>3. Reste(alarm, nticks) # 1 => UNCHANGED <<host_inactive, ac>>
    BY <2>1, <2>2 DEF Tick
  <2> QED BY <2>2, <2>3
<1>2. Spec => []Attente
  BY InitAttente, TypesDuPilote, NextAttente, PTL DEF Spec
<1> QED BY <1>1, <1>2, TypesDuPilote, PTL DEF Spec, AlarmePonctuelle

-----------------------------------------------------------------------------------
\* How long a call may wait for a host that is silent.

\* The ticks before host_inactive reaches the timeout, were the host silent till then.
Patience ==
    IF host_inactive >= timeout THEN 0
    ELSE ((timeout - host_inactive) - 1) * ParSeconde + Reste(alarm, nticks)

\* Only a tick moves the count of seconds without the host, and only an ioctl() the
\* timeout.
LEMMA HorsAbsence ==
    [Next]_vars => Tick \/ (\E d \in 0..INT_MAX : Ioctl(d)) \/ UNCHANGED <<timeout, host_inactive>>
BY DEF Next, Programme, EcritLit, EcritCopie, EcritIrq, EcritAttend, EcritHote, LitLit,
       LitCopie, LitRien, LitAttend, LitTest, LitIrq, FermeAttend, Appels, Ferme, Appel,
       Irq, IrqControle, IrqRecoit, IrqFinRx, IrqCroise, IrqEmet, IrqFinTx, HotePrend, HoteEnvoie,
       HotePause, vars, horloge

\* One second more, or less, in a number of periods.
LEMMA UnePeriode ==
    ASSUME NEW k \in Nat, 0 < k, NEW p \in Nat
    PROVE  k * p \in Nat /\ (k - 1) * p \in Nat /\ (k - 1) * p + p = k * p
OBVIOUS

\* And in fewer of them.
LEMMA MoinsDePeriodes ==
    ASSUME NEW n \in Nat, NEW k \in 0..n, NEW p \in Nat
    PROVE  k * p \in Nat /\ n * p \in Nat /\ k * p <= n * p
<1>1. k * p \in Nat /\ (n - k) * p \in Nat
  <2>1. k \in Nat /\ n - k \in Nat
    OBVIOUS
  <2> QED BY <2>1
<1>2. n * p = k * p + (n - k) * p
  OBVIOUS
<1> QED BY <1>1, <1>2

\* What is left is at most the whole timeout and the tick that the first alarm has more.
LEMMA PatienceType ==
    ASSUME TypeOK, Attente
    PROVE  Patience \in 0..(timeout * ParSeconde + 1)
<1>1. /\ timeout \in Nat /\ host_inactive \in Nat /\ ParSeconde \in Nat /\ 0 < ParSeconde
      /\ Reste(alarm, nticks) \in 1..(ParSeconde + 1)
  <2>1. timeout \in 2..INT_MAX /\ host_inactive \in 0..(INT_MAX - 2)
    BY DEF TypeOK
  <2>2. INT_MAX \in Nat /\ ParSeconde \in Nat /\ 0 < ParSeconde
    BY UartAssumption
  <2> QED BY <2>1, <2>2 DEF Attente
<1>2. timeout * ParSeconde \in Nat
  <2>1. timeout \in Nat /\ ParSeconde \in Nat
    BY <1>1
  <2>2. \A m, n \in Nat : m * n \in Nat
    OBVIOUS
  <2> QED BY <2>1, <2>2
<1>3. CASE host_inactive >= timeout
  BY <1>2, <1>3 DEF Patience
<1>4. CASE host_inactive < timeout
  <2> DEFINE k == timeout - host_inactive
             r == Reste(alarm, nticks)
  <2>1. k \in 1..timeout /\ k \in Nat /\ 0 < k
    BY <1>1, <1>4
  <2>2. Patience = (k - 1) * ParSeconde + r
    BY <1>1, <1>4 DEF Patience
  <2> HIDE DEF k, r
  <2>3. (k - 1) * ParSeconde \in Nat /\ (k - 1) * ParSeconde + ParSeconde = k * ParSeconde
    BY <1>1, <2>1, UnePeriode
  <2>4. k * ParSeconde <= timeout * ParSeconde /\ k * ParSeconde \in Nat
    BY <1>1, <2>1, MoinsDePeriodes
  <2>5. r \in 1..(ParSeconde + 1)
    BY <1>1 DEF r
  <2> QED BY <1>1, <1>2, <2>2, <2>3, <2>4, <2>5
<1> QED BY <1>1, <1>3, <1>4

\* A tick without a sign of the host.
LEMMA TickSilencieux ==
    ASSUME TypeOK, Attente, Tick, ~ac, timeout < INT_MAX - 1
    PROVE  Patience' = Patience - 1 \/ (Patience = 0 /\ Patience' = 0)
<1> DEFINE r == Reste(alarm, nticks)
           s == Reste(alarm', nticks')
<1>1. /\ timeout \in Nat /\ host_inactive \in Nat /\ ParSeconde \in Nat /\ 0 < ParSeconde
      /\ INT_MAX \in Nat /\ r \in 1..(ParSeconde + 1)
  BY UartAssumption DEF TypeOK, Attente
<1>2. s = (IF r = 1 THEN ParSeconde ELSE r - 1) /\ (Echue(alarm, nticks') <=> r = 1)
  BY TickAttente
<1>3. /\ timeout' = timeout
      /\ host_inactive' = IF r = 1 /\ host_inactive < INT_MAX - 2 THEN host_inactive + 1
                          ELSE host_inactive
  BY <1>2 DEF Tick, Timeout
<1>4. Patience' = IF host_inactive' >= timeout' THEN 0
                  ELSE ((timeout' - host_inactive') - 1) * ParSeconde + s
  BY DEF Patience
<1> HIDE DEF r, s
<1>5. CASE host_inactive >= timeout
  <2>1. host_inactive' >= timeout'
    BY <1>1, <1>3, <1>5
  <2> QED BY <1>4, <1>5, <2>1 DEF Patience
<1>6. CASE host_inactive < timeout
  <2> DEFINE k == timeout - host_inactive
  <2>1. k \in Nat /\ 0 < k /\ host_inactive < INT_MAX - 2
    BY <1>1, <1>6
  <2>2. Patience = (k - 1) * ParSeconde + r
    BY <1>1, <1>6 DEF Patience, r
  <2>3. (k - 1) * ParSeconde \in Nat
    BY <1>1, <2>1, UnePeriode
  <2>4. CASE r # 1
    <3>1. host_inactive' = host_inactive /\ timeout' = timeout /\ s = r - 1
      BY <1>2, <1>3, <2>4
    <3>2. Patience' = (k - 1) * ParSeconde + s
      BY <1>1, <1>4, <1>6, <3>1
    <3> HIDE DEF k
    <3> QED BY <1>1, <2>2, <2>3, <3>1, <3>2
  <2>5. CASE r = 1 /\ k = 1
    <3>1. host_inactive' >= timeout'
      BY <1>1, <1>3, <2>1, <2>5
    <3>2. Patience' = 0
      BY <1>4, <3>1
    <3>3. (k - 1) * ParSeconde = 0
      BY <1>1, <2>5
    <3>4. Patience = 1
      BY <2>2, <2>5, <3>3
    <3> QED BY <3>2, <3>4
  <2>6. CASE r = 1 /\ k # 1
    <3> DEFINE j == k - 1
    <3>1. /\ host_inactive' = host_inactive + 1 /\ timeout' = timeout /\ s = ParSeconde
          /\ ~(host_inactive' >= timeout') /\ (timeout' - host_inactive') - 1 = j - 1
          /\ j \in Nat /\ 0 < j
      BY <1>1, <1>2, <1>3, <2>1, <2>6
    <3>2. Patience' = (j - 1) * ParSeconde + ParSeconde
      BY <1>4, <3>1
    <3> HIDE DEF j
    <3>3. (j - 1) * ParSeconde + ParSeconde = j * ParSeconde /\ j * ParSeconde \in Nat
      BY <1>1, <3>1, UnePeriode
    <3>4. Patience = j * ParSeconde + 1
      BY <2>2, <2>6 DEF j
    <3> QED BY <3>2, <3>3, <3>4
  <2> QED BY <2>4, <2>5, <2>6
<1> QED BY <1>1, <1>5, <1>6

\* A host that is silent is waited for, at most, timeout seconds and a tick: every tick
\* takes one from that time, across the wraps of the counter of ticks, nothing but a sign
\* of the host or an ioctl() gives it back, and when none is left every waiting loop that
\* reads host_inactive may end (init.c:203, init.c:247, read.c:173, write.c:183).
THEOREM PatienceBornee ==
    Spec => /\ [](/\ Patience \in 0..(timeout * ParSeconde + 1)
                  /\ Patience = 0 /\ vu = RELU => Inactif >= timeout)
            /\ [][ /\ Tick /\ ~ac /\ timeout < INT_MAX - 1
                      => Patience' = Patience - 1 \/ (Patience = 0 /\ Patience' = 0)
                   /\ ~Tick => Patience' = Patience \/ \E d \in 0..INT_MAX : Ioctl(d) ]_vars
<1> DEFINE Q == /\ Patience \in 0..(timeout * ParSeconde + 1)
                /\ Patience = 0 /\ vu = RELU => Inactif >= timeout
           A == /\ Tick /\ ~ac /\ timeout < INT_MAX - 1
                   => Patience' = Patience - 1 \/ (Patience = 0 /\ Patience' = 0)
                /\ ~Tick => Patience' = Patience \/ \E d \in 0..INT_MAX : Ioctl(d)
<1>1. TypeOK /\ Attente => Q
  <2> SUFFICES ASSUME TypeOK, Attente PROVE Q
    OBVIOUS
  <2>1. Patience \in 0..(timeout * ParSeconde + 1)
    BY PatienceType
  <2>2. ASSUME Patience = 0 PROVE host_inactive >= timeout
    <3> SUFFICES ASSUME host_inactive < timeout PROVE FALSE
      BY DEF TypeOK
    <3>1. /\ timeout \in Nat /\ host_inactive \in Nat /\ ParSeconde \in Nat
          /\ Reste(alarm, nticks) \in 1..(ParSeconde + 1)
      BY UartAssumption DEF TypeOK, Attente
    <3> DEFINE k == timeout - host_inactive
               r == Reste(alarm, nticks)
    <3>2. Patience = (k - 1) * ParSeconde + r /\ k \in Nat /\ 0 < k
      BY <3>1 DEF Patience
    <3>3. r \in 1..(ParSeconde + 1)
      BY <3>1
    <3> HIDE DEF k, r
    <3>4. (k - 1) * ParSeconde \in Nat
      BY <3>1, <3>2, UnePeriode
    <3> QED BY <2>2, <3>1, <3>2, <3>3, <3>4
  <2> QED BY <2>1, <2>2 DEF Inactif
<1>2. TypeOK /\ Attente /\ [Next]_vars => [A]_vars
  <2> SUFFICES ASSUME TypeOK, Attente, Next PROVE A
    OBVIOUS
  <2>1. ASSUME ~Tick, ~(\E d \in 0..INT_MAX : Ioctl(d)) PROVE Patience' = Patience
    <3>1. UNCHANGED <<timeout, host_inactive>>
      BY <2>1, HorsAbsence
    <3>2. UNCHANGED <<alarm, nticks>>
      BY <2>1, HorsTick
    <3> QED BY <3>1, <3>2 DEF Patience
  <2> QED BY <2>1, TickSilencieux
<1>3. Spec => []Attente
  BY InitAttente, TypesDuPilote, NextAttente, PTL DEF Spec
<1> QED BY <1>1, <1>2, <1>3, TypesDuPilote, PTL DEF Spec

-----------------------------------------------------------------------------------
\* Arithmetic modulo m: the remainder is the only one, and a number reduced first gives
\* the same sum.
LEMMA ResteUnique ==
    ASSUME NEW m \in Nat, 0 < m, NEW q \in Int, NEW r \in 0..(m - 1)
    PROVE  (q * m + r) % m = r
<1> DEFINE x == q * m + r
           p == x \div m
           z == x % m
<1>1. x \in Int
  OBVIOUS
<1>2. p \in Int /\ z \in 0..(m - 1) /\ x = p * m + z
  <2> HIDE DEF x
  <2> QED BY <1>1
<1>3. (q - p) * m = z - r
  <2>1. q * m + r = p * m + z
    BY <1>2
  <2>2. (q - p) * m = q * m - p * m
    BY <1>2
  <2>3. q * m \in Int /\ p * m \in Int /\ r \in Int /\ z \in Int
    BY <1>2
  <2> QED BY <2>1, <2>2, <2>3
<1> HIDE DEF p, z
<1> DEFINE d == q - p
<1>4. d \in Int /\ d * m = z - r
  BY <1>2, <1>3
<1> HIDE DEF d
<1>5. z - r < m /\ r - z < m /\ z \in Int
  BY <1>2
<1>6. ~(d >= 1)
  <2> SUFFICES ASSUME d >= 1 PROVE FALSE
    OBVIOUS
  <2>1. d * m >= m
    BY <1>4
  <2> QED BY <1>4, <1>5, <2>1
<1>7. ~(d <= -1)
  <2> SUFFICES ASSUME d <= -1 PROVE FALSE
    OBVIOUS
  <2>1. d * m <= -m
    BY <1>4
  <2> QED BY <1>4, <1>5, <2>1
<1>8. d = 0
  BY <1>4, <1>6, <1>7
<1>9. z - r = 0
  BY <1>4, <1>8
<1> QED BY <1>2, <1>9 DEF z, x

\* A remainder may be taken early in a sum.
LEMMA Modulo ==
    ASSUME NEW m \in Nat, 0 < m, NEW x \in Int, NEW y \in Int
    PROVE  ((x % m) + y) % m = (x + y) % m
<1> DEFINE p == x \div m
           z == x % m
           u == z + y
           q == u \div m
           r == u % m
<1>1. p \in Int /\ z \in Int /\ x = p * m + z
  OBVIOUS
<1> HIDE DEF p, z
<1>2. u \in Int
  BY <1>1
<1>3. q \in Int /\ r \in 0..(m - 1) /\ u = q * m + r
  <2> HIDE DEF u
  <2> QED BY <1>2
<1>4. x + y = (p + q) * m + r
  <2>1. z + y = q * m + r
    BY <1>3
  <2> HIDE DEF q, r, u
  <2>2. (p + q) * m = p * m + q * m /\ p * m \in Int /\ q * m \in Int
    BY <1>1, <1>3
  <2> QED BY <1>1, <1>3, <2>1, <2>2
<1> DEFINE k == p + q
<1>5. k \in Int
  BY <1>1, <1>3
<1>6. r \in 0..(m - 1)
  BY <1>3
<1>7. x + y = k * m + r
  BY <1>4
<1> HIDE DEF k
<1>8. (k * m + r) % m = r
  <2> HIDE DEF r
  <2> QED BY <1>5, <1>6, ResteUnique
<1> QED BY <1>7, <1>8 DEF z

\* Two moves in the ring are one, of the indices and of the numbers.
LEMMA ApresApres ==
    ASSUME NEW i \in Int, NEW a \in Int, NEW b \in Int
    PROVE  Apres(Apres(i, a), b) = Apres(i, a + b)
<1> DEFINE x == i + a
<1>1. Taille \in Nat /\ 0 < Taille /\ x \in Int
  BY TailleAssumption
<1>2. i + (a + b) = x + b
  OBVIOUS
<1> HIDE DEF x
<1>3. ((x % Taille) + b) % Taille = (x + b) % Taille
  BY <1>1, Modulo
<1> QED BY <1>2, <1>3 DEF Apres, x

\* Counting a characters, then b, is counting a + b.
LEMMA SuccesseurSuccesseur ==
    ASSUME NEW c \in Int, NEW a \in Int, NEW b \in Int
    PROVE  Successeur(Successeur(c, a), b) = Successeur(c, a + b)
<1> DEFINE x == c + a
<1>1. Numeros \in Nat /\ 0 < Numeros /\ x \in Int
  BY UartAssumption
<1>2. c + (a + b) = x + b
  OBVIOUS
<1> HIDE DEF x
<1>3. ((x % Numeros) + b) % Numeros = (x + b) % Numeros
  BY <1>1, Modulo
<1> QED BY <1>2, <1>3 DEF Successeur, x

\* Counting none is staying.
LEMMA SuccesseurNul ==
    ASSUME NEW c \in 0..(Numeros - 1) PROVE Successeur(c, 0) = c
BY UartAssumption DEF Successeur

\* A move of less than a turn.
LEMMA ApresReduit ==
    ASSUME NEW i \in Places, NEW n \in 0..Taille
    PROVE  Apres(i, n) = IF i + n < Taille THEN i + n ELSE i + n - Taille
<1> DEFINE x == i + n
<1>1. Taille \in Nat /\ 0 < Taille /\ i \in 0..(Taille - 1)
  BY TailleAssumption DEF Places
<1>2. x \in 0..(2 * Taille - 1)
  BY <1>1
<1> HIDE DEF x
<1>3. x % Taille = IF x < Taille THEN x ELSE x - Taille
  BY <1>1, <1>2, Reduit
<1> QED BY <1>1, <1>3 DEF Apres, x

\* The number of characters is the way from one index to the other.
LEMMA OccupeReduit ==
    ASSUME NEW i \in Places, NEW o \in Places
    PROVE  Occupe(i, o) = IF o <= i THEN i - o ELSE i - o + Taille
<1>1. Taille \in Nat /\ 1 < Taille /\ i \in 0..(Taille - 1) /\ o \in 0..(Taille - 1)
  BY TailleAssumption DEF Places
<1>2. CASE o <= i
  <2> DEFINE x == i - o
  <2>1. x \in 0..(2 * Taille - 1) /\ x < Taille /\ 0 < Taille
    BY <1>1, <1>2
  <2> HIDE DEF x
  <2>2. x % Taille = x
    BY <1>1, <2>1, Reduit
  <2> QED BY <1>1, <1>2, <2>2 DEF Occupe, x
<1>3. CASE i < o
  <2> DEFINE r == i - o + Taille
  <2>1. r \in 0..(Taille - 1) /\ 0 < Taille /\ -1 \in Int
    BY <1>1, <1>3
  <2>2. i - o = (-1) * Taille + r
    BY <1>1
  <2> HIDE DEF r
  <2>3. ((-1) * Taille + r) % Taille = r
    BY <1>1, <2>1, ResteUnique
  <2> QED BY <1>1, <1>3, <2>2, <2>3 DEF Occupe, r
<1> QED BY <1>1, <1>2, <1>3

\* The occupied places of a ring lead from its output index to its input index.
LEMMA OccupeType ==
    ASSUME NEW i \in Places, NEW o \in Places
    PROVE  Occupe(i, o) \in 0..(Taille - 1) /\ Apres(o, Occupe(i, o)) = i
<1>1. Taille \in Nat /\ 1 < Taille /\ i \in 0..(Taille - 1) /\ o \in 0..(Taille - 1)
  BY TailleAssumption DEF Places
<1> DEFINE n == Occupe(i, o)
<1>2. n = IF o <= i THEN i - o ELSE i - o + Taille
  BY OccupeReduit
<1> HIDE DEF n
<1>3. n \in 0..(Taille - 1)
  BY <1>1, <1>2
<1>4. n \in 0..Taille
  BY <1>1, <1>3
<1>5. Apres(o, n) = IF o + n < Taille THEN o + n ELSE o + n - Taille
  BY <1>4, ApresReduit
<1>6. Apres(o, n) = i
  BY <1>1, <1>2, <1>5
<1> QED BY <1>3, <1>6 DEF n

\* An input index n places after the output one leaves n places occupied.
LEMMA OccupeApres ==
    ASSUME NEW o \in Places, NEW n \in 0..(Taille - 1)
    PROVE  Occupe(Apres(o, n), o) = n
<1>1. Taille \in Nat /\ 1 < Taille /\ o \in 0..(Taille - 1) /\ n \in Int
  BY TailleAssumption DEF Places
<1> DEFINE i == Apres(o, n)
<1>2. n \in 0..Taille
  BY <1>1
<1>3. i = IF o + n < Taille THEN o + n ELSE o + n - Taille
  BY <1>2, ApresReduit
<1>4. i \in Places
  BY <1>1, ApresType
<1> HIDE DEF i
<1>5. Occupe(i, o) = IF o <= i THEN i - o ELSE i - o + Taille
  BY <1>4, OccupeReduit
<1>6. Occupe(i, o) = n
  BY <1>1, <1>3, <1>5
<1> QED BY <1>6 DEF i

\* What is put lengthens the content, what is taken shortens it.
LEMMA OccupePlus ==
    ASSUME NEW i \in Places, NEW o \in Places, NEW n \in Nat, Occupe(i, o) + n < Taille
    PROVE  Occupe(Apres(i, n), o) = Occupe(i, o) + n
<1> DEFINE c == Occupe(i, o)
<1>1. Taille \in Nat /\ o \in Int /\ c \in 0..(Taille - 1) /\ Apres(o, c) = i
  BY TailleAssumption, OccupeType DEF Places
<1> HIDE DEF c
<1> DEFINE k == c + n
<1>2. k \in 0..(Taille - 1) /\ c \in Int
  BY <1>1 DEF c
<1>3. Apres(Apres(o, c), n) = Apres(o, k)
  BY <1>1, <1>2, ApresApres
<1> HIDE DEF k
<1>4. Occupe(Apres(o, k), o) = k
  BY <1>2, OccupeApres
<1> QED BY <1>1, <1>3, <1>4 DEF k, c

\* Moving the output index by n frees n places.
LEMMA OccupeMoins ==
    ASSUME NEW i \in Places, NEW o \in Places, NEW n \in Nat, n <= Occupe(i, o)
    PROVE  Occupe(i, Apres(o, n)) = Occupe(i, o) - n
<1> DEFINE c == Occupe(i, o)
           v == Apres(o, n)
<1>1. Taille \in Nat /\ o \in Int /\ c \in 0..(Taille - 1) /\ Apres(o, c) = i
  BY TailleAssumption, OccupeType DEF Places
<1> HIDE DEF c
<1> DEFINE k == c - n
<1>2. k \in 0..(Taille - 1) /\ n + k = c /\ k \in Int
  BY <1>1 DEF c
<1> HIDE DEF k
<1>3. Apres(v, k) = Apres(o, n + k)
  BY <1>1, <1>2, ApresApres
<1>4. v \in Places
  BY <1>1, ApresType
<1> HIDE DEF v
<1>5. Occupe(Apres(v, k), v) = k
  BY <1>2, <1>4, OccupeApres
<1>6. Apres(v, k) = i
  BY <1>1, <1>2, <1>3
<1> QED BY <1>5, <1>6 DEF k, c, v

-----------------------------------------------------------------------------------
\* The n places of a buffer from o, the characters of a FIFO, hold consecutive numbers
\* from c.
Suit(b, o, n, c) == \A j \in 0..(n - 1) : b[Apres(o, j)] = Successeur(c, j)
Suivie(q, c) == \A k \in 1..Len(q) : q[k] = Successeur(c, k - 1)

\* What is left when the first m are taken.
LEMMA SuitReste ==
    ASSUME NEW b, NEW o \in Int, NEW n \in Int, NEW c \in Int, NEW m \in Nat, m <= n,
           Suit(b, o, n, c)
    PROVE  Suit(b, Apres(o, m), n - m, Successeur(c, m))
<1> SUFFICES ASSUME NEW j \in 0..(n - m - 1)
             PROVE  b[Apres(Apres(o, m), j)] = Successeur(Successeur(c, m), j)
  BY DEF Suit
<1> DEFINE k == m + j
<1>1. k \in 0..(n - 1) /\ j \in Int /\ m \in Int
  OBVIOUS
<1>2. Apres(Apres(o, m), j) = Apres(o, k) /\ Successeur(Successeur(c, m), j) = Successeur(c, k)
  BY <1>1, ApresApres, SuccesseurSuccesseur, ZenonT(60)
<1> HIDE DEF k
<1>3. b[Apres(o, k)] = Successeur(c, k)
  BY <1>1 DEF Suit
<1> QED BY <1>2, <1>3

\* What there is when m more are put after them, and the others left as they are.
LEMMA SuitAjoute ==
    ASSUME NEW b, NEW d, NEW o \in Int, NEW n \in Nat, NEW c \in Int, NEW m \in Nat,
           Suit(b, o, n, c),
           \A j \in 0..(n - 1) : d[Apres(o, j)] = b[Apres(o, j)],
           \A k \in 0..(m - 1) : d[Apres(o, n + k)] = Successeur(c, n + k)
    PROVE  Suit(d, o, n + m, c)
<1> SUFFICES ASSUME NEW j \in 0..(n + m - 1) PROVE d[Apres(o, j)] = Successeur(c, j)
  BY DEF Suit
<1>1. CASE j < n
  <2>1. j \in 0..(n - 1)
    BY <1>1
  <2> QED BY <2>1 DEF Suit
<1>2. CASE n <= j
  <2> DEFINE k == j - n
  <2>1. k \in 0..(m - 1) /\ n + k = j
    BY <1>2
  <2> HIDE DEF k
  <2> QED BY <2>1
<1> QED BY <1>1, <1>2

\* Two moves of less than a turn that differ lead to different places.
LEMMA ApresDistinct ==
    ASSUME NEW o \in Places, NEW j \in 0..(Taille - 1), NEW k \in 0..(Taille - 1), j # k
    PROVE  Apres(o, j) # Apres(o, k)
BY OccupeApres

\* The head of a FIFO of successive numbers is the first one, the others follow.
LEMMA FileReste ==
    ASSUME NEW V, NEW q \in Seq(V), NEW c \in 0..(Numeros - 1), q # <<>>, Suivie(q, c)
    PROVE  Head(q) = c /\ Suivie(Tail(q), Successeur(c, 1))
<1>1. Len(q) \in Nat /\ Len(q) >= 1 /\ Head(q) = q[1] /\ Len(Tail(q)) = Len(q) - 1
      /\ \A k \in 1..(Len(q) - 1) : Tail(q)[k] = q[k + 1]
  OBVIOUS
<1>2. c \in Int
  BY UartAssumption
<1>3. q[1] = Successeur(c, 1 - 1)
  BY <1>1 DEF Suivie
<1>4. Successeur(c, 1 - 1) = c
  BY SuccesseurNul
<1>5. ASSUME NEW k \in 1..Len(Tail(q)) PROVE Tail(q)[k] = Successeur(Successeur(c, 1), k - 1)
  <2> DEFINE i == k - 1
             z == k + 1
  <2>1. k \in 1..(Len(q) - 1) /\ z \in 1..Len(q) /\ i \in Int /\ 1 + i = z - 1 /\ 1 \in Int
    BY <1>1
  <2>2. Tail(q)[k] = q[z]
    BY <1>1, <2>1
  <2> HIDE DEF i, z
  <2>3. q[z] = Successeur(c, z - 1)
    BY <2>1 DEF Suivie
  <2>4. Successeur(Successeur(c, 1), i) = Successeur(c, 1 + i)
    BY <1>2, <2>1, SuccesseurSuccesseur
  <2> QED BY <2>1, <2>2, <2>3, <2>4 DEF i
<1> QED BY <1>1, <1>3, <1>4, <1>5 DEF Suivie

\* The next number may be put at the end of a FIFO of successive numbers.
LEMMA FileAjoute ==
    ASSUME NEW V, NEW q \in Seq(V), NEW c \in Int, NEW x \in V, Suivie(q, c),
           x = Successeur(c, Len(q))
    PROVE  Suivie(Append(q, x), c)
<1>1. Len(q) \in Nat /\ Len(Append(q, x)) = Len(q) + 1
      /\ \A k \in 1..(Len(q) + 1) : Append(q, x)[k] = IF k <= Len(q) THEN q[k] ELSE x
  OBVIOUS
<1>2. ASSUME NEW k \in 1..(Len(q) + 1) PROVE Append(q, x)[k] = Successeur(c, k - 1)
  <2>1. CASE k <= Len(q)
    <3>1. k \in 1..Len(q)
      BY <1>1, <2>1
    <3> QED BY <1>1, <2>1, <3>1 DEF Suivie
  <2>2. CASE ~(k <= Len(q))
    <3>1. k - 1 = Len(q)
      BY <1>1, <2>2
    <3> QED BY <1>1, <2>2, <3>1
  <2> QED BY <2>1, <2>2
<1> QED BY <1>1, <1>2 DEF Suivie

\* What write() puts comes after what is there, and nowhere else.
LEMMA LogeSuit ==
    ASSUME NEW b, NEW i \in Places, NEW o \in Places, NEW c \in Int, NEW m \in Nat, NEW t,
           t \in Seq(Int), Len(t) = m, i + m <= Taille, Occupe(i, o) + m < Taille,
           Suit(b, o, Occupe(i, o), c),
           \A k \in 1..m : t[k] = Successeur(c, Occupe(i, o) + k - 1)
    PROVE  Suit(Loge(b, i, t), o, Occupe(i, o) + m, c)
<1> DEFINE n == Occupe(i, o)
           d == Loge(b, i, t)
<1>1. Taille \in Nat /\ 1 < Taille /\ i \in 0..(Taille - 1) /\ o \in Int
  BY TailleAssumption DEF Places
<1>2. n \in 0..(Taille - 1) /\ Apres(o, n) = i
  BY OccupeType
<1>3. \A p \in Places : d[p] = IF p \in i..(i + m - 1) THEN t[p - i + 1] ELSE b[p]
  BY DEF Loge
<1>4. n + m < Taille /\ Suit(b, o, n, c) /\ \A k \in 1..m : t[k] = Successeur(c, n + k - 1)
  OBVIOUS
<1> HIDE DEF n, d
\* The place k further than i, which the copy fills.
<1>5. ASSUME NEW k \in 0..(m - 1) PROVE Apres(o, n + k) = i + k
  <2>1. k \in Int /\ n \in Int /\ k \in 0..Taille
    BY <1>1, <1>2
  <2>2. Apres(Apres(o, n), k) = Apres(o, n + k)
    BY <1>1, <2>1, ApresApres
  <2>3. Apres(i, k) = IF i + k < Taille THEN i + k ELSE i + k - Taille
    BY <2>1, ApresReduit
  <2>4. Apres(i, k) = i + k
    BY <1>1, <2>1, <2>3
  <2> QED BY <1>2, <2>2, <2>4
<1>6. ASSUME NEW k \in 0..(m - 1) PROVE d[Apres(o, n + k)] = Successeur(c, n + k)
  <2> DEFINE p == i + k
             z == k + 1
  <2>1. p \in Places /\ p \in i..(i + m - 1) /\ p - i + 1 = z /\ z \in 1..m /\ n + z - 1 = n + k
    BY <1>1, <1>2 DEF Places
  <2>2. Apres(o, n + k) = p
    BY <1>5
  <2> HIDE DEF p, z
  <2>3. d[p] = t[z]
    BY <1>3, <2>1
  <2>4. t[z] = Successeur(c, n + z - 1)
    BY <1>4, <2>1
  <2> QED BY <2>1, <2>2, <2>3, <2>4
<1>7. ASSUME NEW j \in 0..(n - 1) PROVE d[Apres(o, j)] = b[Apres(o, j)]
  <2> DEFINE p == Apres(o, j)
  <2>1. p \in Places /\ j \in 0..(Taille - 1)
    BY <1>1, <1>2, ApresType
  <2>2. p \notin i..(i + m - 1)
    <3> SUFFICES ASSUME p \in i..(i + m - 1) PROVE FALSE
      OBVIOUS
    <3> DEFINE k == p - i
    <3>1. k \in 0..(m - 1) /\ i + k = p
      BY <1>1, <2>1 DEF Places
    <3> HIDE DEF k
    <3>2. Apres(o, n + k) = p
      BY <1>5, <3>1
    <3> DEFINE l == n + k
    <3>3. l \in 0..(Taille - 1) /\ j # l
      BY <1>1, <1>2, <1>4, <3>1
    <3> HIDE DEF l
    <3>4. Apres(o, j) # Apres(o, l)
      BY <2>1, <3>3, ApresDistinct
    <3> QED BY <3>2, <3>4 DEF l
  <2> QED BY <1>3, <2>1, <2>2
<1>8. n \in Nat
  BY <1>2
<1>9. Suit(d, o, n + m, c)
  BY <1>1, <1>4, <1>6, <1>7, <1>8, SuitAjoute
<1> QED BY <1>9 DEF n, d

-----------------------------------------------------------------------------------
\* Fidele place by place, and what it rests on: an old index is behind the one it was
\* read from, and the room that the control register announced is still there.
TxFidele ==
    /\ Suivie(txf, recus)
    /\ Suit(tx_buf, tx_out, Occupe(tx_in, tx_out), Successeur(recus, Len(txf)))
    /\ ecrits = Successeur(recus, Len(txf) + Occupe(tx_in, tx_out))

RxFidele ==
    /\ Suit(rx_buf, rx_out, Occupe(rx_in, rx_out), lus)
    /\ Suivie(rxf, Successeur(lus, Occupe(rx_in, rx_out)))
    /\ envoyes = Successeur(lus, Occupe(rx_in, rx_out) + Len(rxf))

Emission == isr \in {"rx", "tx"} => place + Len(txf) <= ProfondeurTx

TxAncien == pc = "w_copie" => Occupe(tx_in, tx_out) <= Occupe(tx_in, lu)
RxAncien == pc = "r_copie" => Occupe(lu, rx_out) <= Occupe(rx_in, rx_out)

\* How many characters are on their way, in the buffer and the FIFO.
EnSortie == Len(txf) + Occupe(tx_in, tx_out)
EnEntree == Occupe(rx_in, rx_out) + Len(rxf)

IFidele == TxFidele /\ RxFidele /\ Emission /\ TxAncien /\ RxAncien

\* What an index allows to put leaves the place that tells full from empty, and what it
\* allows to take is there.
LEMMA ALogerPlace ==
    ASSUME NEW i \in Places, NEW o \in Places
    PROVE  ALoger(i, o) <= Taille - 1 - Occupe(i, o) /\ ALoger(i, o) \in 0..(Taille - i)
<1>1. Occupe(i, o) = IF o <= i THEN i - o ELSE i - o + Taille
  BY OccupeReduit
<1>2. Taille \in Nat /\ 1 < Taille /\ i \in 0..(Taille - 1) /\ o \in 0..(Taille - 1)
  BY TailleAssumption DEF Places
<1>3. ALoger(i, o) = IF i < o THEN o - 1 - i ELSE IF o > 0 THEN Taille - i ELSE Taille - 1 - i
  BY DEF ALoger
<1> QED BY <1>1, <1>2, <1>3

\* read() never takes more than there is.
LEMMA APrendrePlace ==
    ASSUME NEW i \in Places, NEW o \in Places
    PROVE  APrendre(i, o) <= Occupe(i, o) /\ APrendre(i, o) \in 0..(Taille - o)
<1>1. Occupe(i, o) = IF o <= i THEN i - o ELSE i - o + Taille
  BY OccupeReduit
<1>2. Taille \in Nat /\ 1 < Taille /\ i \in 0..(Taille - 1) /\ o \in 0..(Taille - 1)
  BY TailleAssumption DEF Places
<1>3. APrendre(i, o) = IF i >= o THEN i - o ELSE Taille - o
  BY DEF APrendre
<1> QED BY <1>1, <1>2, <1>3

\* write(): what is copied continues what is there, although the index of the interrupt
\* routine that it was measured with is old (altera_avalon_jtag_uart_write.c:105).
LEMMA EcritCopieFidele ==
    ASSUME TypeOK, TxFidele, TxAncien, EcritCopie
    PROVE  /\ TxFidele'
           /\ \E n \in Nat : EnSortie' = EnSortie + n /\ ecrits' = Successeur(ecrits, n)
           /\ recus' = recus
<1> DEFINE n == Moindre(ALoger(tx_in, lu), reste)
           occ == Occupe(tx_in, tx_out)
           L == Len(txf)
           c == Successeur(recus, L)
<1>1. /\ tx_in \in Places /\ tx_out \in Places /\ lu \in Places /\ reste \in Nat
      /\ recus \in Int /\ ecrits \in Nat /\ L \in Nat /\ Taille \in Nat /\ tx_in \in Nat
      /\ Numeros \in Nat /\ 0 < Numeros
  BY TailleAssumption, UartAssumption DEF TypeOK, Places
<1>2. occ \in 0..(Taille - 1)
  BY <1>1, OccupeType
<1>3. occ <= Occupe(tx_in, lu) /\ pc = "w_copie"
  BY DEF TxAncien, EcritCopie, Avance
<1>4. n \in Nat /\ tx_in + n <= Taille /\ occ + n < Taille
  <2> DEFINE al == ALoger(tx_in, lu)
             oc == Occupe(tx_in, lu)
  <2>1. al <= Taille - 1 - oc /\ al \in 0..(Taille - tx_in)
    BY <1>1, ALogerPlace
  <2>2. oc \in 0..(Taille - 1)
    BY <1>1, OccupeType
  <2>3. occ <= oc
    BY <1>3
  <2>4. al \in Nat
    BY <1>1, <2>1
  <2> HIDE DEF al, oc, occ
  <2>5. Moindre(al, reste) \in Nat /\ Moindre(al, reste) <= al
    BY <1>1, <2>4, MoindreType
  <2>6. n = Moindre(al, reste)
    BY DEF al
  <2> HIDE DEF n
  <2> QED BY <1>1, <1>2, <2>1, <2>2, <2>3, <2>5, <2>6
<1>5. /\ tx_buf' = Loge(tx_buf, tx_in, Suite(n)) /\ tx_in' = Apres(tx_in, n)
      /\ ecrits' = Successeur(ecrits, n)
      /\ UNCHANGED <<tx_out, txf, recus>>
  BY DEF EcritCopie, materiel
<1>6. Suite(n) \in Seq(0..(Numeros - 1)) /\ Len(Suite(n)) = n
  BY <1>1, <1>4, SuiteType
<1> HIDE DEF n
<1>7. c \in Int
  BY <1>1, SuccesseurType
<1>8. Suit(tx_buf, tx_out, occ, c) /\ ecrits = Successeur(recus, L + occ)
  BY DEF TxFidele
<1> HIDE DEF L
<1>9. ASSUME NEW k \in 1..n PROVE Suite(n)[k] = Successeur(c, occ + k - 1)
  <2> DEFINE j == k - 1
             x == occ + j
  <2>1. k \in Int /\ j \in Int /\ x \in Int /\ occ \in Int /\ L + occ \in Int
        /\ (L + occ) + j = L + x /\ x = occ + k - 1
    BY <1>1, <1>2, <1>4
  <2>2. Suite(n)[k] = Successeur(ecrits, j)
    <3>1. Suite(n)[k] = (ecrits + k - 1) % Numeros
      BY DEF Suite
    <3>2. ecrits + k - 1 = ecrits + j
      BY <1>1, <2>1
    <3> QED BY <3>1, <3>2 DEF Successeur
  <2> HIDE DEF j, x, occ
  <2>3. Successeur(ecrits, j) = Successeur(recus, (L + occ) + j)
    BY <1>1, <1>8, <2>1, SuccesseurSuccesseur
  <2>4. Successeur(c, x) = Successeur(recus, L + x)
    BY <1>1, <2>1, SuccesseurSuccesseur
  <2> QED BY <2>1, <2>2, <2>3, <2>4
<1> HIDE DEF c
<1>10. Suite(n) \in Seq(Int)
  <2>1. \A k \in 1..n : (ecrits + k - 1) % Numeros \in Int
    BY <1>1, <1>4
  <2> QED BY <1>4, <2>1 DEF Suite
<1>11. Suit(tx_buf', tx_out, occ + n, c)
  <2> DEFINE t == Suite(n)
  <2>1. t \in Seq(Int) /\ Len(t) = n /\ \A k \in 1..n : t[k] = Successeur(c, occ + k - 1)
    BY <1>6, <1>9, <1>10
  <2>2. tx_buf' = Loge(tx_buf, tx_in, t)
    BY <1>5
  <2> HIDE DEF t
  <2>3. Suit(Loge(tx_buf, tx_in, t), tx_out, Occupe(tx_in, tx_out) + n, c)
    BY <1>1, <1>4, <1>7, <1>8, <2>1, LogeSuit
  <2> QED BY <2>2, <2>3
<1>12. Occupe(tx_in', tx_out) = occ + n
  BY <1>1, <1>4, <1>5, OccupePlus
<1>13. ecrits' = Successeur(recus, L + (occ + n))
  <2> DEFINE z == L + occ
  <2>1. z \in Int /\ z + n = L + (occ + n) /\ n \in Int
    BY <1>1, <1>2, <1>4
  <2>2. ecrits' = Successeur(Successeur(recus, z), n)
    BY <1>5, <1>8
  <2> HIDE DEF z
  <2>3. Successeur(Successeur(recus, z), n) = Successeur(recus, z + n)
    BY <1>1, <2>1, SuccesseurSuccesseur
  <2> QED BY <2>1, <2>2, <2>3
<1>14. Suivie(txf, recus)
  BY DEF TxFidele
<1>15. EnSortie' = EnSortie + n
  <2>1. occ \in Int
    BY <1>1, <1>2
  <2>2. EnSortie = L + occ /\ EnSortie' = L + (occ + n)
    BY <1>5, <1>12 DEF EnSortie, L
  <2> HIDE DEF occ
  <2> QED BY <1>1, <1>4, <2>1, <2>2
<1> HIDE DEF occ
<1>16. TxFidele'
  BY <1>5, <1>11, <1>12, <1>13, <1>14 DEF TxFidele, L, c
<1> QED BY <1>4, <1>5, <1>15, <1>16

\* The interrupt routine moves the first character of the buffer to the end of the FIFO.
LEMMA IrqEmetFidele ==
    ASSUME TypeOK, TxFidele, Emission, IrqEmet
    PROVE  /\ TxFidele' /\ Emission' /\ Occupe(tx_in', tx_out') = Occupe(tx_in, tx_out) - 1
           /\ EnSortie' = EnSortie /\ UNCHANGED <<ecrits, recus>>
<1> DEFINE occ == Occupe(tx_in, tx_out)
           L == Len(txf)
           c == Successeur(recus, L)
<1>1. /\ tx_in \in Places /\ tx_out \in Places /\ recus \in Int /\ L \in Nat /\ Taille \in Nat
      /\ tx_out \in Int /\ 0 \in 0..Taille /\ ProfondeurTx \in Nat /\ place \in Nat
  BY TailleAssumption, UartAssumption DEF TypeOK, Places
<1>2. /\ tx_out' = Apres(tx_out, 1) /\ place' = place - 1 /\ place > 0 /\ tx_out # tx_in
      /\ isr = "tx"
      /\ txf' = IF Len(txf) < ProfondeurTx THEN Append(txf, tx_buf[tx_out]) ELSE txf
      /\ UNCHANGED <<tx_in, tx_buf, recus, ecrits, isr>>
  BY DEF IrqEmet, bouts
<1>3. place + L <= ProfondeurTx
  BY <1>2 DEF Emission
<1>4. txf' = Append(txf, tx_buf[tx_out])
  BY <1>1, <1>2, <1>3
<1>5. Apres(tx_out, 0) = tx_out
  <2>1. Apres(tx_out, 0) = IF tx_out + 0 < Taille THEN tx_out + 0 ELSE tx_out + 0 - Taille
    BY <1>1, ApresReduit
  <2>2. tx_out + 0 = tx_out /\ tx_out < Taille
    BY <1>1, TailleAssumption DEF Places
  <2> QED BY <2>1, <2>2
<1>6. occ \in 0..(Taille - 1) /\ Apres(tx_out, occ) = tx_in
  BY <1>1, OccupeType
<1>7. occ >= 1
  <2>1. occ # 0
    BY <1>2, <1>5, <1>6
  <2> HIDE DEF occ
  <2> QED BY <1>1, <1>6, <2>1
<1>8. Suivie(txf, recus) /\ Suit(tx_buf, tx_out, occ, c) /\ ecrits = Successeur(recus, L + occ)
  BY DEF TxFidele
<1>9. c \in 0..(Numeros - 1)
  <2>1. L \in Int
    BY <1>1
  <2> HIDE DEF L
  <2> QED BY <1>1, <2>1, SuccesseurType
<1>10. tx_buf[tx_out] = c
  <2>1. 0 \in 0..(occ - 1)
    BY <1>6, <1>7
  <2>2. tx_buf[Apres(tx_out, 0)] = Successeur(c, 0)
    BY <1>8, <2>1 DEF Suit
  <2>3. Successeur(c, 0) = c
    BY <1>9, SuccesseurNul
  <2> QED BY <1>5, <2>2, <2>3
<1>11. Suivie(txf', recus) /\ Len(txf') = L + 1
  <2>1. txf \in Seq(0..(Numeros - 1))
    BY DEF TypeOK
  <2>2. txf' = Append(txf, c)
    BY <1>4, <1>10
  <2>3. Suivie(Append(txf, c), recus)
    BY <1>1, <1>8, <1>9, <2>1, FileAjoute
  <2>4. Len(Append(txf, c)) = L + 1
    BY <1>9, <2>1, FifoType
  <2> QED BY <2>2, <2>3, <2>4
<1> HIDE DEF L
<1>12. Occupe(tx_in, tx_out') = occ - 1
  <2>1. 1 \in Nat /\ 1 <= Occupe(tx_in, tx_out)
    BY <1>7
  <2> QED BY <1>1, <1>2, <2>1, OccupeMoins
<1>13. Successeur(recus, L + 1) = Successeur(c, 1)
  BY <1>1, SuccesseurSuccesseur
<1>14. Suit(tx_buf, tx_out', occ - 1, Successeur(c, 1))
  <2>1. c \in Int /\ occ \in Int /\ 1 \in Nat /\ 1 <= occ
    BY <1>6, <1>7, <1>9, UartAssumption
  <2> HIDE DEF c, occ
  <2>2. Suit(tx_buf, Apres(tx_out, 1), occ - 1, Successeur(c, 1))
    BY <1>1, <1>8, <2>1, SuitReste
  <2> QED BY <1>2, <2>2
<1>15. (L + 1) + (occ - 1) = L + occ
  BY <1>1, <1>6
<1>16. TxFidele'
  <2>1. Suit(tx_buf', tx_out', Occupe(tx_in', tx_out'), Successeur(recus', Len(txf')))
    BY <1>2, <1>11, <1>12, <1>13, <1>14
  <2>2. ecrits' = Successeur(recus', Len(txf') + Occupe(tx_in', tx_out'))
    BY <1>2, <1>8, <1>11, <1>12, <1>15
  <2> QED BY <1>2, <1>11, <2>1, <2>2 DEF TxFidele
<1>17. Emission'
  <2>1. place' + Len(txf') <= ProfondeurTx
    BY <1>1, <1>2, <1>3, <1>11
  <2> QED BY <2>1 DEF Emission
<1>18. EnSortie' = EnSortie
  BY <1>2, <1>11, <1>12, <1>15 DEF EnSortie, L
<1> QED BY <1>2, <1>12, <1>16, <1>17, <1>18

\* The host takes the first character of the FIFO.
LEMMA HotePrendFidele ==
    ASSUME TypeOK, TxFidele, Emission, HotePrend
    PROVE  /\ TxFidele' /\ Emission'
           /\ EnSortie' = EnSortie - 1 /\ recus' = Successeur(recus, 1) /\ ecrits' = ecrits
<1> DEFINE occ == Occupe(tx_in, tx_out)
           L == Len(txf)
<1>1. /\ recus \in 0..(Numeros - 1) /\ recus \in Int /\ L \in Nat /\ place \in Nat
      /\ txf \in Seq(0..(Numeros - 1)) /\ ProfondeurTx \in Nat
  BY UartAssumption DEF TypeOK
<1>2. /\ txf # <<>> /\ txf' = Tail(txf) /\ recus' = Successeur(Head(txf), 1)
      /\ UNCHANGED <<tx_in, tx_out, tx_buf, ecrits, isr, place>>
  BY DEF HotePrend, anneaux, routine
<1>3. Suivie(txf, recus) /\ Suit(tx_buf, tx_out, occ, Successeur(recus, L))
      /\ ecrits = Successeur(recus, L + occ)
  BY DEF TxFidele
<1>4. Head(txf) = recus /\ Suivie(Tail(txf), Successeur(recus, 1))
  BY <1>1, <1>2, <1>3, FileReste
<1>5. Len(txf') = L - 1
  BY <1>1, <1>2, FifoType
<1> HIDE DEF L
<1>6. occ \in Int
  <2>1. tx_in \in Places /\ tx_out \in Places
    BY DEF TypeOK
  <2>2. occ \in 0..(Taille - 1)
    BY <2>1, OccupeType
  <2> QED BY <2>2, TailleAssumption
<1> HIDE DEF occ
<1>7. recus' = Successeur(recus, 1)
  BY <1>2, <1>4
<1>8. Successeur(Successeur(recus, 1), L - 1) = Successeur(recus, L)
  <2> DEFINE j == L - 1
  <2>1. j \in Int /\ 1 + j = L /\ 1 \in Int
    BY <1>1
  <2> HIDE DEF j
  <2>2. Successeur(Successeur(recus, 1), j) = Successeur(recus, 1 + j)
    BY <1>1, <2>1, SuccesseurSuccesseur
  <2> QED BY <2>1, <2>2 DEF j
<1>9. Successeur(Successeur(recus, 1), (L - 1) + occ) = Successeur(recus, L + occ)
  <2> DEFINE j == (L - 1) + occ
  <2>1. j \in Int /\ 1 + j = L + occ /\ 1 \in Int
    BY <1>1, <1>6
  <2> HIDE DEF j
  <2>2. Successeur(Successeur(recus, 1), j) = Successeur(recus, 1 + j)
    BY <1>1, <2>1, SuccesseurSuccesseur
  <2> QED BY <2>1, <2>2 DEF j
<1>10. Occupe(tx_in', tx_out') = occ
  BY <1>2 DEF occ
<1>11. Suit(tx_buf', tx_out', Occupe(tx_in', tx_out'), Successeur(recus', Len(txf')))
  BY <1>2, <1>3, <1>5, <1>7, <1>8, <1>10
<1>12. ecrits' = Successeur(recus', Len(txf') + Occupe(tx_in', tx_out'))
  BY <1>2, <1>3, <1>5, <1>7, <1>9, <1>10
<1>13. Suivie(txf', recus')
  BY <1>2, <1>4, <1>7
<1>14. Emission'
  <2>1. isr \in {"rx", "tx"} => place + L <= ProfondeurTx
    BY DEF Emission, L
  <2> QED BY <1>1, <1>2, <1>5, <2>1 DEF Emission
<1>15. EnSortie' = EnSortie - 1
  BY <1>1, <1>5, <1>6, <1>10 DEF EnSortie, L, occ
<1> QED BY <1>2, <1>7, <1>11, <1>12, <1>13, <1>14, <1>15 DEF TxFidele

\* read(): what is taken is what comes next, although the index of the interrupt routine
\* that it was measured with is old (altera_avalon_jtag_uart_read.c:122).
LEMMA LitCopieFidele ==
    ASSUME TypeOK, RxFidele, RxAncien, LitCopie
    PROVE  /\ RxFidele'
           /\ \E n \in Nat : EnEntree' = EnEntree - n /\ n <= EnEntree /\ lus' = Successeur(lus, n)
           /\ envoyes' = envoyes
<1> DEFINE n == Moindre(APrendre(lu, rx_out), reste)
           occ == Occupe(rx_in, rx_out)
           R == Len(rxf)
<1>1. /\ rx_in \in Places /\ rx_out \in Places /\ lu \in Places /\ reste \in Nat
      /\ lus \in Int /\ R \in Nat /\ Taille \in Nat /\ rx_out \in Nat /\ rx_out < Taille
  <2>1. {rx_in, rx_out, lu} \subseteq Places
    BY DEF TypeOK
  <2>2. lus \in 0..(Numeros - 1) /\ reste \in 0..Demande /\ R \in Nat
    BY DEF TypeOK
  <2>3. rx_out \in 0..(Taille - 1)
    BY <2>1 DEF Places
  <2> HIDE DEF R
  <2> QED BY <2>1, <2>2, <2>3, TailleAssumption, UartAssumption
<1>2. occ \in 0..(Taille - 1)
  BY <1>1, OccupeType
<1>3. Occupe(lu, rx_out) <= occ
  BY DEF RxAncien, LitCopie, Avance
<1>4. n \in Nat /\ rx_out + n <= Taille /\ n <= occ
  <2> DEFINE ap == APrendre(lu, rx_out)
             oc == Occupe(lu, rx_out)
  <2>1. ap <= oc /\ ap \in 0..(Taille - rx_out)
    BY <1>1, APrendrePlace
  <2>2. oc \in 0..(Taille - 1)
    BY <1>1, OccupeType
  <2>3. oc <= occ
    BY <1>3
  <2>4. ap \in Nat
    BY <1>1, <2>1
  <2> HIDE DEF ap, oc, occ
  <2>5. Moindre(ap, reste) \in Nat /\ Moindre(ap, reste) <= ap
    BY <1>1, <2>4, MoindreType
  <2>6. n = Moindre(ap, reste)
    BY DEF ap
  <2> HIDE DEF n
  <2> QED BY <1>1, <1>2, <2>1, <2>2, <2>3, <2>5, <2>6
<1>5. /\ n > 0 /\ rx_out' = Apres(rx_out, n) /\ lus' = Successeur(rx_buf[rx_out + n - 1], 1)
      /\ UNCHANGED <<rx_in, rx_buf, rxf, envoyes>>
  BY DEF LitCopie, materiel
<1> HIDE DEF n
<1>6. Suit(rx_buf, rx_out, occ, lus) /\ Suivie(rxf, Successeur(lus, occ))
      /\ envoyes = Successeur(lus, occ + R)
  BY DEF RxFidele
<1>7. rx_buf[rx_out + n - 1] = Successeur(lus, n - 1)
  <2> DEFINE j == n - 1
  <2>1. j \in 0..(occ - 1) /\ j \in 0..Taille /\ rx_out + j < Taille /\ rx_out + j = rx_out + n - 1
    BY <1>1, <1>2, <1>4, <1>5
  <2> HIDE DEF j
  <2>2. rx_buf[Apres(rx_out, j)] = Successeur(lus, j)
    BY <1>6, <2>1 DEF Suit
  <2>3. Apres(rx_out, j) = rx_out + j
    BY <1>1, <2>1, ApresReduit
  <2> QED BY <2>1, <2>2, <2>3 DEF j
<1>8. lus' = Successeur(lus, n)
  <2> DEFINE j == n - 1
  <2>1. j \in Int /\ j + 1 = n /\ 1 \in Int
    BY <1>4
  <2>2. lus' = Successeur(Successeur(lus, j), 1)
    BY <1>5, <1>7
  <2> HIDE DEF j
  <2>3. Successeur(Successeur(lus, j), 1) = Successeur(lus, j + 1)
    BY <1>1, <2>1, SuccesseurSuccesseur
  <2> QED BY <2>1, <2>2, <2>3
<1>9. Occupe(rx_in, rx_out') = occ - n
  BY <1>1, <1>4, <1>5, OccupeMoins
<1>10. occ \in Int
  BY <1>2, <1>1
<1> HIDE DEF occ, R
<1>11. Suit(rx_buf, Apres(rx_out, n), occ - n, Successeur(lus, n))
  BY <1>1, <1>4, <1>6, <1>10, SuitReste
<1>12. Successeur(Successeur(lus, n), occ - n) = Successeur(lus, occ)
  <2> DEFINE j == occ - n
  <2>1. j \in Int /\ n + j = occ /\ n \in Int
    BY <1>4, <1>10
  <2> HIDE DEF j
  <2>2. Successeur(Successeur(lus, n), j) = Successeur(lus, n + j)
    BY <1>1, <2>1, SuccesseurSuccesseur
  <2> QED BY <2>1, <2>2 DEF j
<1>13. Successeur(Successeur(lus, n), (occ - n) + R) = Successeur(lus, occ + R)
  <2> DEFINE j == (occ - n) + R
  <2>1. j \in Int /\ n + j = occ + R /\ n \in Int
    BY <1>1, <1>4, <1>10
  <2> HIDE DEF j
  <2>2. Successeur(Successeur(lus, n), j) = Successeur(lus, n + j)
    BY <1>1, <2>1, SuccesseurSuccesseur
  <2> QED BY <2>1, <2>2 DEF j
<1>14. Occupe(rx_in', rx_out') = occ - n
  BY <1>5, <1>9
<1>15. Suit(rx_buf', rx_out', Occupe(rx_in', rx_out'), lus')
  BY <1>5, <1>8, <1>11, <1>14
<1>16. Suivie(rxf', Successeur(lus', Occupe(rx_in', rx_out')))
  BY <1>5, <1>6, <1>8, <1>12, <1>14
<1>17. envoyes' = Successeur(lus', Occupe(rx_in', rx_out') + Len(rxf'))
  BY <1>5, <1>6, <1>8, <1>13, <1>14 DEF R
<1>18. EnEntree' = EnEntree - n /\ n <= EnEntree
  <2>1. EnEntree = occ + R /\ EnEntree' = (occ - n) + R
    BY <1>5, <1>14 DEF EnEntree, occ, R
  <2> QED BY <1>1, <1>4, <1>10, <2>1
<1>19. RxFidele'
  BY <1>15, <1>16, <1>17 DEF RxFidele
<1> QED BY <1>4, <1>5, <1>8, <1>18, <1>19

\* The interrupt routine moves the first character of the FIFO to the end of the buffer,
\* which has room for it.
LEMMA IrqRecoitFidele ==
    ASSUME TypeOK, RxFidele, IrqRecoit
    PROVE  /\ RxFidele' /\ Occupe(rx_in', rx_out') = Occupe(rx_in, rx_out) + 1
           /\ EnEntree' = EnEntree /\ UNCHANGED <<envoyes, lus>>
<1> DEFINE occ == Occupe(rx_in, rx_out)
           R == Len(rxf)
           c == Successeur(lus, occ)
<1>1. /\ rx_in \in Places /\ rx_out \in Places /\ lus \in Int /\ R \in Nat /\ Taille \in Nat
      /\ rx_out \in Int /\ rxf \in Seq(0..(Numeros - 1)) /\ 1 < Taille
      /\ rx_buf \in [Places -> 0..(Numeros - 1)]
  <2>1. {rx_in, rx_out} \subseteq Places /\ rx_buf \in [Places -> 0..(Numeros - 1)]
    BY DEF TypeOK
  <2>2. lus \in 0..(Numeros - 1) /\ rxf \in Seq(0..(Numeros - 1)) /\ R \in Nat
    BY DEF TypeOK
  <2>3. rx_out \in 0..(Taille - 1)
    BY <2>1 DEF Places
  <2> HIDE DEF R
  <2> QED BY <2>1, <2>2, <2>3, TailleAssumption, UartAssumption
<1>2. /\ Apres(rx_in, 1) # rx_out /\ rxf # <<>> /\ rx_in' = Apres(rx_in, 1) /\ rxf' = Tail(rxf)
      /\ rx_buf' = [rx_buf EXCEPT ![rx_in] = Head(rxf)]
      /\ UNCHANGED <<rx_out, lus, envoyes>>
  BY DEF IrqRecoit, bouts
<1>3. occ \in 0..(Taille - 1) /\ Apres(rx_out, occ) = rx_in
  BY <1>1, OccupeType
<1>4. Suit(rx_buf, rx_out, occ, lus) /\ Suivie(rxf, c) /\ envoyes = Successeur(lus, occ + R)
  BY DEF RxFidele
<1>5. occ \in Int /\ occ \in Nat
  BY <1>3
<1> HIDE DEF occ, R
<1>6. occ + 1 < Taille
  <2> SUFFICES ASSUME occ = Taille - 1 PROVE FALSE
    BY <1>1, <1>3
  <2>1. Apres(rx_in, 1) = Apres(rx_out, occ + 1)
    BY <1>1, <1>3, <1>5, ApresApres
  <2>2. occ + 1 = Taille /\ Taille \in 0..Taille /\ ~(rx_out + Taille < Taille)
        /\ rx_out + Taille - Taille = rx_out
    BY <1>1 DEF Places
  <2>3. Apres(rx_out, Taille) = rx_out
    BY <1>1, <2>2, ApresReduit
  <2> QED BY <1>2, <2>1, <2>2, <2>3
<1>7. c \in 0..(Numeros - 1)
  BY <1>1, <1>5, SuccesseurType
<1> HIDE DEF c
<1>8. Head(rxf) = c /\ Suivie(Tail(rxf), Successeur(c, 1))
  BY <1>1, <1>2, <1>4, <1>7, FileReste
<1>9. Len(rxf') = R - 1
  BY <1>1, <1>2, FifoType DEF R
<1>10. Occupe(rx_in', rx_out') = occ + 1
  BY <1>1, <1>2, <1>6, OccupePlus DEF occ
<1>11. ASSUME NEW j \in 0..(occ - 1) PROVE rx_buf'[Apres(rx_out, j)] = rx_buf[Apres(rx_out, j)]
  <2>1. j \in 0..(Taille - 1) /\ j # occ /\ j \in Int
    BY <1>1, <1>3
  <2>2. Apres(rx_out, j) # rx_in /\ Apres(rx_out, j) \in Places
    BY <1>1, <1>3, <2>1, ApresDistinct, ApresType
  <2> QED BY <1>1, <1>2, <2>2
<1>12. rx_buf'[rx_in] = c
  BY <1>1, <1>2, <1>8
<1>13. ASSUME NEW k \in 0..(1 - 1)
       PROVE  rx_buf'[Apres(rx_out, occ + k)] = Successeur(lus, occ + k)
  <2>1. occ + k = occ
    BY <1>5
  <2> QED BY <1>3, <1>12, <2>1 DEF c
<1>14. Suit(rx_buf', rx_out, occ + 1, lus)
  <2>1. 1 \in Nat
    OBVIOUS
  <2> QED BY <1>1, <1>4, <1>5, <1>11, <1>13, <2>1, SuitAjoute
<1>15. Successeur(c, 1) = Successeur(lus, occ + 1)
  BY <1>1, <1>5, SuccesseurSuccesseur DEF c
<1>16. (occ + 1) + (R - 1) = occ + R
  BY <1>1, <1>5
<1>17. Suivie(rxf', Successeur(lus', Occupe(rx_in', rx_out')))
  BY <1>2, <1>8, <1>10, <1>15
<1>18. envoyes' = Successeur(lus', Occupe(rx_in', rx_out') + Len(rxf'))
  BY <1>2, <1>4, <1>9, <1>10, <1>16
<1>19. Suit(rx_buf', rx_out', Occupe(rx_in', rx_out'), lus')
  BY <1>2, <1>10, <1>14
<1>20. EnEntree' = EnEntree
  BY <1>9, <1>10, <1>16 DEF EnEntree, occ, R
<1>21. RxFidele'
  BY <1>17, <1>18, <1>19 DEF RxFidele
<1> QED BY <1>2, <1>10, <1>20, <1>21 DEF occ

\* The host sends one more, whether or not it crosses a read of the data register.
LEMMA HoteEnvoieFidele ==
    ASSUME TypeOK, RxFidele, HoteEnvoie \/ IrqCroise
    PROVE  /\ RxFidele'
           /\ EnEntree' = EnEntree + 1 /\ envoyes' = Successeur(envoyes, 1) /\ lus' = lus
<1> DEFINE occ == Occupe(rx_in, rx_out)
           R == Len(rxf)
           c == Successeur(lus, occ)
<1>1. /\ rx_in \in Places /\ rx_out \in Places /\ lus \in Int /\ R \in Nat
      /\ rxf \in Seq(0..(Numeros - 1)) /\ envoyes \in 0..(Numeros - 1)
  BY UartAssumption DEF TypeOK
<1>2. /\ rxf' = Append(rxf, envoyes) /\ envoyes' = Successeur(envoyes, 1)
      /\ UNCHANGED <<rx_in, rx_out, rx_buf, lus>>
  <2>1. CASE HoteEnvoie
    BY <2>1 DEF HoteEnvoie, anneaux
  <2>2. CASE IrqCroise
    <3>1. <<envoyes>> = Append(<<>>, envoyes)
      OBVIOUS
    <3> QED BY <2>2, <3>1 DEF IrqCroise, anneaux
  <2> QED BY <2>1, <2>2
<1>3. Suit(rx_buf, rx_out, occ, lus) /\ Suivie(rxf, c) /\ envoyes = Successeur(lus, occ + R)
  BY DEF RxFidele
<1>4. occ \in Int
  <2>1. occ \in 0..(Taille - 1)
    BY <1>1, OccupeType
  <2> HIDE DEF occ
  <2> QED BY <2>1, TailleAssumption
<1>5. Len(rxf') = R + 1
  BY <1>1, <1>2, FifoType
<1>6. Occupe(rx_in', rx_out') = occ
  BY <1>2
<1> HIDE DEF occ
<1>7. c \in Int
  <2>1. c \in 0..(Numeros - 1)
    BY <1>1, <1>4, SuccesseurType
  <2> HIDE DEF c
  <2> QED BY <2>1, UartAssumption
<1>8. envoyes = Successeur(c, R)
  <2> HIDE DEF R
  <2>1. R \in Int
    BY <1>1
  <2> QED BY <1>1, <1>3, <1>4, <2>1, SuccesseurSuccesseur
<1> HIDE DEF c
<1>9. Suivie(rxf', c)
  <2>1. Suivie(Append(rxf, envoyes), c)
    BY <1>1, <1>3, <1>7, <1>8, FileAjoute
  <2> QED BY <1>2, <2>1
<1> HIDE DEF R
<1>10. envoyes' = Successeur(lus, occ + (R + 1))
  <2> DEFINE z == occ + R
  <2>1. z \in Int /\ z + 1 = occ + (R + 1) /\ 1 \in Int
    BY <1>1, <1>4
  <2>2. envoyes' = Successeur(Successeur(lus, z), 1)
    BY <1>2, <1>3
  <2> HIDE DEF z
  <2>3. Successeur(Successeur(lus, z), 1) = Successeur(lus, z + 1)
    BY <1>1, <2>1, SuccesseurSuccesseur
  <2> QED BY <2>1, <2>2, <2>3
<1>11. Suit(rx_buf', rx_out', Occupe(rx_in', rx_out'), lus')
  BY <1>2, <1>3, <1>6
<1>12. Suivie(rxf', Successeur(lus', Occupe(rx_in', rx_out')))
  BY <1>2, <1>6, <1>9 DEF c
<1>13. envoyes' = Successeur(lus', Occupe(rx_in', rx_out') + Len(rxf'))
  BY <1>2, <1>5, <1>6, <1>10
<1>14. EnEntree' = EnEntree + 1
  BY <1>1, <1>4, <1>5, <1>6 DEF EnEntree, occ, R
<1>15. RxFidele'
  BY <1>11, <1>12, <1>13 DEF RxFidele
<1> QED BY <1>2, <1>14, <1>15

-----------------------------------------------------------------------------------
\* A step that leaves the buffer, the FIFO and the two ends of a direction alone.
LEMMA TxTel ==
    ASSUME TxFidele, UNCHANGED <<tx_in, tx_out, tx_buf, txf, recus, ecrits>> PROVE TxFidele'
BY DEF TxFidele

\* A step that leaves the input alone keeps it in order.
LEMMA RxTel ==
    ASSUME RxFidele, UNCHANGED <<rx_in, rx_out, rx_buf, rxf, lus, envoyes>> PROVE RxFidele'
BY DEF RxFidele

\* The old index of write() stays behind while the interrupt routine takes, that of
\* read() while it puts.
LEMMA NextAnciens ==
    ASSUME TypeOK, IFidele, [Next]_vars PROVE TxAncien' /\ RxAncien'
<1>0. /\ TxAncien /\ RxAncien /\ TxFidele /\ RxFidele /\ Emission
      /\ tx_in \in Places /\ tx_out \in Places /\ rx_in \in Places /\ rx_out \in Places
  BY DEF IFidele, TypeOK
<1>1. /\ Occupe(tx_in, tx_out) \in Int /\ Occupe(tx_in, tx_out) <= Occupe(tx_in, tx_out)
      /\ Occupe(rx_in, rx_out) \in Int /\ Occupe(rx_in, rx_out) <= Occupe(rx_in, rx_out)
  <2> DEFINE a == Occupe(tx_in, tx_out)
             b == Occupe(rx_in, rx_out)
  <2>1. a \in 0..(Taille - 1) /\ b \in 0..(Taille - 1)
    BY <1>0, OccupeType
  <2> HIDE DEF a, b
  <2>2. a \in Int /\ b \in Int /\ a <= a /\ b <= b
    BY <2>1, TailleAssumption
  <2> QED BY <2>2 DEF a, b
<1>2. CASE Programme \/ Appels
  <2>1. CASE EcritLit
    BY <1>1, <2>1 DEF EcritLit, Avance, TxAncien, RxAncien, anneaux
  <2>2. CASE LitLit
    BY <1>1, <2>2 DEF LitLit, Avance, TxAncien, RxAncien, anneaux
  <2>3. CASE ~EcritLit /\ ~LitLit
    <3>1. pc' \notin {"w_copie", "r_copie"}
      BY <1>2, <2>3 DEF Programme, EcritCopie, EcritIrq, EcritSuite, EcritAttend, EcritHote,
         LitCopie, LitRien, LitAttend, LitTest, LitIrq, FermeAttend, Appels, Ferme, Appel, Ioctl,
         Avance, Rend
    <3> QED BY <3>1 DEF TxAncien, RxAncien
  <2> QED BY <2>1, <2>2, <2>3
<1>3. CASE IrqEmet
  <2> DEFINE a == Occupe(tx_in, tx_out)
             z == Occupe(tx_in, lu)
             a1 == Occupe(tx_in', tx_out')
  <2>1. a1 = a - 1 /\ a \in Int /\ (pc = "w_copie" => a <= z)
        /\ (pc = "w_copie" => lu \in Places)
    BY <1>0, <1>1, <1>3, IrqEmetFidele DEF TxAncien, TypeOK
  <2>2. pc = "w_copie" => z \in 0..(Taille - 1)
    BY <1>0, <2>1, OccupeType
  <2>3. UNCHANGED <<tx_in, pc, lu, rx_in, rx_out>>
    BY <1>3 DEF IrqEmet, programme
  <2>4. Occupe(tx_in', lu') = z
    BY <2>3
  <2> HIDE DEF a, z, a1
  <2>5. pc = "w_copie" => a1 <= z
    BY <2>1, <2>2, TailleAssumption
  <2>6. TxAncien'
    BY <2>3, <2>4, <2>5 DEF TxAncien, a1
  <2>7. RxAncien'
    BY <1>0, <2>3 DEF RxAncien
  <2> QED BY <2>6, <2>7
<1>4. CASE IrqRecoit
  <2> DEFINE b == Occupe(rx_in, rx_out)
             z == Occupe(lu, rx_out)
             b1 == Occupe(rx_in', rx_out')
  <2>1. b1 = b + 1 /\ b \in Int /\ (pc = "r_copie" => z <= b) /\ lu \in Places
    BY <1>0, <1>1, <1>4, IrqRecoitFidele DEF RxAncien, TypeOK
  <2>2. z \in 0..(Taille - 1)
    BY <1>0, <2>1, OccupeType
  <2>3. UNCHANGED <<rx_out, pc, lu, tx_in, tx_out>>
    BY <1>4 DEF IrqRecoit, programme
  <2>4. Occupe(lu', rx_out') = z
    BY <2>3
  <2> HIDE DEF b, z, b1
  <2>5. pc = "r_copie" => z <= b1
    BY <2>1, <2>2, TailleAssumption
  <2>6. RxAncien'
    BY <2>3, <2>4, <2>5 DEF RxAncien, b1
  <2>7. TxAncien'
    BY <1>0, <2>3 DEF TxAncien
  <2> QED BY <2>6, <2>7
<1>5. CASE UNCHANGED <<tx_in, tx_out, rx_in, rx_out, pc, lu>>
  BY <1>0, <1>5 DEF TxAncien, RxAncien
<1>6. \/ Programme \/ Appels \/ IrqEmet \/ IrqRecoit
      \/ UNCHANGED <<tx_in, tx_out, rx_in, rx_out, pc, lu>>
  BY DEF Next, Irq, IrqControle, IrqFinRx, IrqCroise, IrqFinTx, Tick, HotePrend, HoteEnvoie,
     HotePause, vars, anneaux, programme
<1> QED BY <1>2, <1>3, <1>4, <1>5, <1>6

\* Only the interrupt routine and the host touch what Emission speaks of, and the control
\* register is read before each round.
LEMMA NextEmission ==
    ASSUME TypeOK, IFidele, [Next]_vars PROVE Emission'
<1>0. TxFidele /\ Emission /\ Len(txf) \in Nat /\ ProfondeurTx \in Nat /\ place \in Nat
      /\ Len(txf) <= ProfondeurTx
  BY UartAssumption DEF IFidele, TypeOK
<1>1. CASE IrqEmet
  BY <1>0, <1>1, IrqEmetFidele
<1>2. CASE HotePrend
  BY <1>0, <1>2, HotePrendFidele
<1>3. CASE IrqControle
  <2>1. place' + Len(txf) <= ProfondeurTx \/ isr' = "repos"
    BY <1>0, <1>3 DEF IrqControle
  <2> QED BY <1>3, <2>1 DEF Emission, IrqControle, materiel
<1>4. CASE IrqRecoit \/ IrqFinRx \/ IrqCroise
  BY <1>0, <1>4 DEF Emission, IrqRecoit, IrqFinRx, IrqCroise, materiel
<1>5. CASE IrqFinTx
  BY <1>5 DEF Emission, IrqFinTx
<1>6. CASE UNCHANGED <<isr, place, txf>>
  BY <1>0, <1>6 DEF Emission
<1>7. \/ IrqEmet \/ HotePrend \/ IrqControle \/ IrqRecoit \/ IrqFinRx \/ IrqCroise \/ IrqFinTx
      \/ UNCHANGED <<isr, place, txf>>
  BY DEF Next, Programme, EcritLit, EcritCopie, EcritIrq, EcritAttend, EcritHote, LitLit, LitCopie,
     LitRien, LitAttend, LitTest, LitIrq, FermeAttend, Appels, Ferme, Appel, Ioctl, Irq, Tick,
     HoteEnvoie, HotePause, vars, routine, materiel
<1> QED BY <1>1, <1>2, <1>3, <1>4, <1>5, <1>6, <1>7

\* Who touches the channel towards the host.
LEMMA TxTouche ==
    ASSUME [Next]_vars
    PROVE  \/ EcritCopie \/ IrqEmet \/ HotePrend
           \/ UNCHANGED <<tx_in, tx_out, tx_buf, txf, recus, ecrits>>
BY DEF Next, Programme, EcritLit, EcritIrq, EcritAttend, EcritHote, LitLit, LitCopie,
   LitRien, LitAttend, LitTest, LitIrq, FermeAttend, Appels, Ferme, Appel, Ioctl, Irq, IrqControle,
   IrqRecoit, IrqFinRx, IrqCroise, IrqFinTx, Tick, HoteEnvoie, HotePause, vars, anneaux, materiel,
   bouts

\* Who touches the channel towards the program.
LEMMA RxTouche ==
    ASSUME [Next]_vars
    PROVE  \/ LitCopie \/ IrqRecoit \/ HoteEnvoie \/ IrqCroise
           \/ UNCHANGED <<rx_in, rx_out, rx_buf, rxf, lus, envoyes>>
BY DEF Next, Programme, EcritLit, EcritCopie, EcritIrq, EcritAttend, EcritHote, LitLit, LitRien,
   LitAttend, LitTest, LitIrq, FermeAttend, Appels, Ferme, Appel, Ioctl, Irq, IrqControle,
   IrqEmet, IrqFinRx, IrqFinTx, Tick, HotePrend, HotePause, vars, anneaux, materiel, bouts

\* Every step keeps what is written and what is received whole and in order.
LEMMA NextFidele == TypeOK /\ IFidele /\ [Next]_vars => IFidele'
<1> SUFFICES ASSUME TypeOK, IFidele, [Next]_vars PROVE IFidele'
  OBVIOUS
<1>0. TxFidele /\ RxFidele /\ Emission /\ TxAncien /\ RxAncien
  BY DEF IFidele
<1>1. TxFidele'
  BY <1>0, TxTouche, EcritCopieFidele, IrqEmetFidele, HotePrendFidele, TxTel
<1>2. RxFidele'
  BY <1>0, RxTouche, LitCopieFidele, IrqRecoitFidele, HoteEnvoieFidele, RxTel
<1> QED BY <1>1, <1>2, NextAnciens, NextEmission DEF IFidele

\* Empty buffers are in order.
LEMMA InitFidele == Init => IFidele
<1> SUFFICES ASSUME Init PROVE IFidele
  OBVIOUS
<1>1. 0 \in Places /\ 0 \in 0..(Numeros - 1)
  BY TailleAssumption, UartAssumption DEF Places
<1>2. Occupe(0, 0) = 0
  BY <1>1, OccupeReduit
<1>3. Successeur(0, 0) = 0 /\ 0 + 0 = 0
  BY <1>1, SuccesseurNul
<1>4. txf = <<>> /\ rxf = <<>> /\ Len(<<>>) = 0
  BY DEF Init
<1>5. Suivie(<<>>, 0) /\ \A b : Suit(b, 0, 0, 0)
  BY <1>4 DEF Suivie, Suit
<1>6. TxFidele
  BY <1>2, <1>3, <1>4, <1>5 DEF Init, TxFidele
<1>7. RxFidele
  BY <1>2, <1>3, <1>4, <1>5 DEF Init, RxFidele
<1>8. Emission /\ TxAncien /\ RxAncien
  BY DEF Init, Emission, TxAncien, RxAncien
<1> QED BY <1>6, <1>7, <1>8 DEF IFidele

\* The two directions, put end to end.
LEMMA Concatenation ==
    ASSUME NEW q \in Seq(Int), NEW t \in Seq(Int), NEW c \in Int, NEW v,
           \A k \in 1..Len(q) : q[k] = Successeur(c, k - 1),
           \A k \in 1..Len(t) : t[k] = Successeur(c, Len(q) + k - 1),
           v = Successeur(c, Len(q) + Len(t))
    PROVE  Consecutifs(q \o t, c, v)
<1>1. Len(q) \in Nat /\ Len(t) \in Nat /\ Len(q \o t) = Len(q) + Len(t)
      /\ \A k \in 1..(Len(q) + Len(t)) :
            (q \o t)[k] = IF k <= Len(q) THEN q[k] ELSE t[k - Len(q)]
  OBVIOUS
<1>2. ASSUME NEW k \in 1..(Len(q) + Len(t)) PROVE (q \o t)[k] = Successeur(c, k - 1)
  <2>1. CASE k <= Len(q)
    BY <1>1, <2>1
  <2>2. CASE ~(k <= Len(q))
    <3> DEFINE j == k - Len(q)
    <3>1. j \in 1..Len(t) /\ Len(q) + j - 1 = k - 1
      BY <1>1, <2>2
    <3>2. (q \o t)[k] = t[j]
      BY <1>1, <2>2
    <3> HIDE DEF j
    <3>3. t[j] = Successeur(c, Len(q) + j - 1)
      BY <3>1
    <3> QED BY <3>1, <3>2, <3>3
  <2> QED BY <2>1, <2>2
<1> QED BY <1>1, <1>2 DEF Consecutifs

\* The characters of a buffer, in their order, are those that Suit says.
LEMMA ContenuType ==
    ASSUME NEW v \in [Places -> 0..(Numeros - 1)], NEW i \in Places, NEW o \in Places
    PROVE  Contenu(v, i, o) \in Seq(Int) /\ Len(Contenu(v, i, o)) = Occupe(i, o)
<1> DEFINE n == Occupe(i, o)
<1>1. n \in Nat
  BY OccupeType
<1>2. Contenu(v, i, o) = [k \in 1..n |-> v[Apres(o, k - 1)]]
  BY DEF Contenu
<1> HIDE DEF n
<1>3. ASSUME NEW k \in 1..n PROVE v[Apres(o, k - 1)] \in Int
  <2> DEFINE j == k - 1
  <2>1. j \in Int /\ o \in Int
    BY <1>1, TailleAssumption DEF Places
  <2> HIDE DEF j
  <2>2. Apres(o, j) \in Places
    BY <2>1, ApresType
  <2>3. v[Apres(o, j)] \in 0..(Numeros - 1)
    BY <2>2
  <2>4. v[Apres(o, j)] \in Int
    BY <2>3, UartAssumption
  <2> QED BY <2>4 DEF j
<1>4. Contenu(v, i, o) \in Seq(Int) /\ Len(Contenu(v, i, o)) = n
  BY <1>1, <1>2, <1>3
<1> QED BY <1>4 DEF n

\* A buffer whose places follow one another holds consecutive numbers.
LEMMA ContenuSuit ==
    ASSUME NEW v, NEW i \in Places, NEW o \in Places, NEW c \in Int, Suit(v, o, Occupe(i, o), c)
    PROVE  \A k \in 1..Occupe(i, o) : Contenu(v, i, o)[k] = Successeur(c, k - 1)
<1> DEFINE n == Occupe(i, o)
<1>1. n \in Nat /\ Suit(v, o, n, c)
  BY OccupeType
<1>2. Contenu(v, i, o) = [k \in 1..n |-> v[Apres(o, k - 1)]]
  BY DEF Contenu
<1> HIDE DEF n
<1> SUFFICES ASSUME NEW k \in 1..n PROVE Contenu(v, i, o)[k] = Successeur(c, k - 1)
  BY DEF n
<1>3. k - 1 \in 0..(n - 1)
  BY <1>1
<1>4. v[Apres(o, k - 1)] = Successeur(c, k - 1)
  BY <1>1, <1>3 DEF Suit
<1> QED BY <1>2, <1>4

\* What IFidele says place by place is what Fidele says of the sequences.
LEMMA EnOrdre == TypeOK /\ IFidele => Fidele
<1> SUFFICES ASSUME TypeOK, IFidele PROVE Fidele
  OBVIOUS
<1>0. /\ tx_in \in Places /\ tx_out \in Places /\ rx_in \in Places /\ rx_out \in Places
      /\ recus \in 0..(Numeros - 1) /\ lus \in 0..(Numeros - 1)
      /\ tx_buf \in [Places -> 0..(Numeros - 1)] /\ rx_buf \in [Places -> 0..(Numeros - 1)]
      /\ txf \in Seq(0..(Numeros - 1)) /\ rxf \in Seq(0..(Numeros - 1))
  BY DEF TypeOK
<1>1. /\ Occupe(tx_in, tx_out) \in 0..(Taille - 1) /\ Occupe(rx_in, rx_out) \in 0..(Taille - 1)
  BY <1>0, OccupeType
<1>2. TxFidele /\ RxFidele
  BY DEF IFidele
<1>3. Consecutifs(txf \o Contenu(tx_buf, tx_in, tx_out), recus, ecrits)
  <2> DEFINE t == Contenu(tx_buf, tx_in, tx_out)
             L == Len(txf)
             occ == Occupe(tx_in, tx_out)
             c == Successeur(recus, L)
  <2>1. txf \in Seq(Int) /\ L \in Nat /\ recus \in Int
    BY <1>0, UartAssumption
  <2>2. c \in Int
    <3> HIDE DEF L
    <3>1. L \in Int
      BY <2>1
    <3>2. c \in 0..(Numeros - 1)
      BY <2>1, <3>1, SuccesseurType
    <3> HIDE DEF c
    <3> QED BY <3>2, UartAssumption
  <2>3. Suit(tx_buf, tx_out, occ, c) /\ Suivie(txf, recus) /\ ecrits = Successeur(recus, L + occ)
    BY <1>2 DEF TxFidele
  <2> HIDE DEF c
  <2>4. t \in Seq(Int) /\ Len(t) = occ /\ \A k \in 1..occ : t[k] = Successeur(c, k - 1)
    <3>1. Suit(tx_buf, tx_out, Occupe(tx_in, tx_out), c)
      BY <2>3
    <3>2. tx_in \in Places /\ tx_out \in Places /\ tx_buf \in [Places -> 0..(Numeros - 1)]
      BY <1>0
    <3> QED BY <2>2, <3>1, <3>2, ContenuType, ContenuSuit
  <2> HIDE DEF t, occ
  <2>5. ASSUME NEW k \in 1..Len(t) PROVE t[k] = Successeur(recus, Len(txf) + k - 1)
    <3> DEFINE j == k - 1
    <3>1. j \in Int /\ L + j = L + k - 1 /\ L \in Int
      BY <2>1
    <3>2. t[k] = Successeur(c, j)
      BY <2>4
    <3> HIDE DEF j, L
    <3>3. Successeur(c, j) = Successeur(recus, L + j)
      BY <2>1, <3>1, SuccesseurSuccesseur DEF c
    <3> QED BY <3>1, <3>2, <3>3 DEF L
  <2>6. \A k \in 1..Len(txf) : txf[k] = Successeur(recus, k - 1)
    BY <2>3 DEF Suivie
  <2>7. ecrits = Successeur(recus, Len(txf) + Len(t))
    BY <2>3, <2>4
  <2>8. Consecutifs(txf \o t, recus, ecrits)
    BY <2>1, <2>4, <2>5, <2>6, <2>7, Concatenation
  <2> QED BY <2>8 DEF t
<1>4. Consecutifs(Contenu(rx_buf, rx_in, rx_out) \o rxf, lus, envoyes)
  <2> DEFINE q == Contenu(rx_buf, rx_in, rx_out)
             occ == Occupe(rx_in, rx_out)
             c == Successeur(lus, occ)
  <2>1. rxf \in Seq(Int) /\ lus \in Int
    BY <1>0, UartAssumption
  <2>2. occ \in Nat
    BY <1>1
  <2>3. Suit(rx_buf, rx_out, occ, lus) /\ Suivie(rxf, c) /\ envoyes = Successeur(lus, occ + Len(rxf))
    BY <1>2 DEF RxFidele
  <2>4. q \in Seq(Int) /\ Len(q) = occ /\ \A k \in 1..occ : q[k] = Successeur(lus, k - 1)
    <3>1. q \in Seq(Int) /\ Len(q) = occ
      BY <1>0, ContenuType
    <3>2. Suit(rx_buf, rx_out, Occupe(rx_in, rx_out), lus)
      BY <2>3
    <3>3. \A k \in 1..Occupe(rx_in, rx_out) : q[k] = Successeur(lus, k - 1)
      BY <1>0, <2>1, <3>2, ContenuSuit
    <3> QED BY <3>1, <3>3
  <2> HIDE DEF q, occ
  <2>5. ASSUME NEW k \in 1..Len(rxf) PROVE rxf[k] = Successeur(lus, Len(q) + k - 1)
    <3> DEFINE j == k - 1
    <3>1. j \in Int /\ occ + j = occ + k - 1 /\ occ \in Int
      BY <2>2
    <3>2. rxf[k] = Successeur(c, j)
      BY <2>3 DEF Suivie
    <3> HIDE DEF j
    <3>3. Successeur(c, j) = Successeur(lus, occ + j)
      BY <2>1, <3>1, SuccesseurSuccesseur
    <3> QED BY <2>4, <3>1, <3>2, <3>3
  <2>6. \A k \in 1..Len(q) : q[k] = Successeur(lus, k - 1)
    BY <2>4
  <2>7. envoyes = Successeur(lus, Len(q) + Len(rxf))
    BY <2>3, <2>4
  <2>8. Consecutifs(q \o rxf, lus, envoyes)
    BY <2>1, <2>4, <2>5, <2>6, <2>7, Concatenation
  <2> QED BY <2>8 DEF q
<1> QED BY <1>3, <1>4 DEF Fidele

\* Whatever the interrupt routine does between two accesses of the program, no character
\* is lost, repeated or put out of order (altera_avalon_jtag_uart_write.c:105,
\* altera_avalon_jtag_uart_read.c:122), for every size of the buffers and of the FIFOs.
THEOREM ToujoursFidele == Spec => []Fidele
BY EnOrdre, TypesDuPilote, InitFidele, NextFidele, PTL DEF Spec

-----------------------------------------------------------------------------------
\* The two channels.  Consecutive numbers are known by the first one and their count, so
\* that a step is known by what it does to the count and to the ends.
Numerotes(c, n) == [k \in 1..n |-> Successeur(c, k - 1)]

\* They are what Canal calls a series.
LEMMA Series ==
    /\ \A c, n : Sortie!Serie(c, n) = Numerotes(c, n)
    /\ \A c, n : Entree!Serie(c, n) = Numerotes(c, n)
BY DEF Sortie!Serie, Entree!Serie, Numerotes, Successeur

\* Consecutive numbers are a series.
LEMMA UneSerie ==
    ASSUME NEW q \in Seq(Int), NEW c \in Int, NEW v, Consecutifs(q, c, v)
    PROVE  q = Numerotes(c, Len(q)) /\ v = Successeur(c, Len(q))
<1>1. q = [k \in 1..Len(q) |-> q[k]]
  OBVIOUS
<1> QED BY <1>1 DEF Numerotes, Consecutifs

\* The second part of a sequence in two.
LEMMA DerriereUneFile ==
    ASSUME NEW V, NEW q \in Seq(V), NEW r \in Seq(V),
           NEW k \in (Len(q) + 1)..(Len(q) + Len(r))
    PROVE  (q \o r)[k] = r[k - Len(q)]
OBVIOUS

\* A series followed by the one that continues it.
LEMMA DeuxSeries ==
    ASSUME NEW c \in Int, NEW m \in Nat, NEW n \in Nat
    PROVE  Numerotes(c, m + n) = Numerotes(c, m) \o Numerotes(Successeur(c, m), n)
<1> DEFINE x == Numerotes(c, m)
           d == Successeur(c, m)
           y == Numerotes(d, n)
<1>1. ASSUME NEW e \in Int, NEW z \in Nat
      PROVE  Numerotes(e, z) \in Seq(Int) /\ Len(Numerotes(e, z)) = z
  <2>1. ASSUME NEW k \in 1..z PROVE Successeur(e, k - 1) \in Int
    <3> DEFINE j == k - 1
    <3>1. j \in Int
      OBVIOUS
    <3> HIDE DEF j
    <3>2. Successeur(e, j) \in 0..(Numeros - 1)
      BY <3>1, SuccesseurType
    <3>3. Successeur(e, j) \in Int
      BY <3>2, UartAssumption
    <3> QED BY <3>3 DEF j
  <2> QED BY <2>1 DEF Numerotes
<1>2. d \in Int
  <2>1. d \in 0..(Numeros - 1)
    BY SuccesseurType
  <2> HIDE DEF d
  <2> QED BY <2>1, UartAssumption
<1>3. x \in Seq(Int) /\ Len(x) = m
  BY <1>1
<1> HIDE DEF d
<1>4. y \in Seq(Int) /\ Len(y) = n
  BY <1>1, <1>2
<1>5. ASSUME NEW k \in 1..(m + n) PROVE (x \o y)[k] = Successeur(c, k - 1)
  <2>1. CASE k <= m
    <3>1. k \in 1..m
      BY <2>1
    <3>2. (x \o y)[k] = x[k]
      BY <1>3, <1>4, <3>1
    <3> QED BY <3>1, <3>2 DEF Numerotes
  <2>2. CASE ~(k <= m)
    <3> DEFINE j == k - m
               i == j - 1
    <3>1. j \in 1..n /\ i \in Int /\ m + i = k - 1 /\ m \in Int
      BY <2>2
    <3>2. (x \o y)[k] = y[j]
      <4>1. k \in (m + 1)..(m + n) /\ m \in Nat /\ n \in Nat
        BY <2>2
      <4> HIDE DEF x, y, j
      <4>2. k \in (Len(x) + 1)..(Len(x) + Len(y))
        BY <1>3, <1>4, <4>1
      <4>3. (x \o y)[k] = y[k - Len(x)]
        BY <1>3, <1>4, <4>2, DerriereUneFile
      <4> QED BY <1>3, <4>3 DEF j
    <3>3. y[j] = Successeur(d, i)
      BY <3>1 DEF Numerotes
    <3> HIDE DEF i
    <3>4. Successeur(d, i) = Successeur(c, m + i)
      BY <3>1, SuccesseurSuccesseur DEF d
    <3> QED BY <3>1, <3>2, <3>3, <3>4
  <2> QED BY <2>1, <2>2
<1>6. x \o y \in Seq(Int) /\ Len(x \o y) = m + n
  BY <1>3, <1>4
<1> HIDE DEF x, y
<1>7. x \o y = [k \in 1..(m + n) |-> (x \o y)[k]]
  <2> DEFINE w == x \o y
  <2>1. w \in Seq(Int) /\ Len(w) = m + n
    BY <1>6
  <2> HIDE DEF w
  <2>2. w = [k \in 1..Len(w) |-> w[k]]
    BY <2>1
  <2>3. w = [k \in 1..(m + n) |-> w[k]]
    BY <2>1, <2>2
  <2> QED BY <2>3 DEF w
<1>8. x \o y = Numerotes(c, m + n)
  BY <1>5, <1>7 DEF Numerotes
<1> QED BY <1>8 DEF x, y, d

\* What each channel holds, and how much.
LesContenus ==
    /\ txf \o Contenu(tx_buf, tx_in, tx_out) \in Seq(Int)
    /\ Len(txf \o Contenu(tx_buf, tx_in, tx_out)) = EnSortie
    /\ Contenu(rx_buf, rx_in, rx_out) \o rxf \in Seq(Int)
    /\ Len(Contenu(rx_buf, rx_in, rx_out) \o rxf) = EnEntree
    /\ EnSortie \in 0..(Taille - 1 + ProfondeurTx) /\ EnEntree \in 0..(Taille - 1 + ProfondeurRx)

\* A buffer keeps one place free and a FIFO its depth, which bounds each channel.
LEMMA ContenusBornes == TypeOK => LesContenus
<1> SUFFICES ASSUME TypeOK PROVE LesContenus
  OBVIOUS
<1> DEFINE t == Contenu(tx_buf, tx_in, tx_out)
           r == Contenu(rx_buf, rx_in, rx_out)
           a == Occupe(tx_in, tx_out)
           z == Occupe(rx_in, rx_out)
<1>1. t \in Seq(Int) /\ Len(t) = a /\ r \in Seq(Int) /\ Len(r) = z
  BY ContenuType DEF TypeOK
<1>2. a \in 0..(Taille - 1) /\ z \in 0..(Taille - 1)
  BY OccupeType DEF TypeOK
<1>3. txf \in Seq(Int) /\ rxf \in Seq(Int)
  <2>1. txf \in Seq(0..(Numeros - 1)) /\ rxf \in Seq(0..(Numeros - 1))
    BY DEF TypeOK
  <2> QED BY <2>1, UartAssumption
<1>4. Len(txf) \in 0..ProfondeurTx /\ Len(rxf) \in 0..ProfondeurRx
  <2>1. Len(txf) \in Nat /\ Len(rxf) \in Nat
    BY <1>3
  <2>2. Len(txf) <= ProfondeurTx /\ Len(rxf) <= ProfondeurRx
    BY DEF TypeOK
  <2> QED BY <2>1, <2>2, UartAssumption
<1> HIDE DEF t, r, a, z
<1>5. /\ txf \o t \in Seq(Int) /\ Len(txf \o t) = Len(txf) + a
      /\ r \o rxf \in Seq(Int) /\ Len(r \o rxf) = z + Len(rxf)
  <2>1. \A u, w \in Seq(Int) : u \o w \in Seq(Int) /\ Len(u \o w) = Len(u) + Len(w)
    OBVIOUS
  <2> QED BY <1>1, <1>3, <2>1
<1> DEFINE x == Len(txf)
           y == Len(rxf)
<1>6. x \in 0..ProfondeurTx /\ y \in 0..ProfondeurRx
  BY <1>4
<1> HIDE DEF x, y
<1>7. x + a \in 0..(Taille - 1 + ProfondeurTx) /\ z + y \in 0..(Taille - 1 + ProfondeurRx)
  BY <1>2, <1>6, TailleAssumption, UartAssumption
<1> QED BY <1>5, <1>7 DEF LesContenus, EnSortie, EnEntree, t, r, a, z, x, y

\* What each channel holds is a series.
EnSeries ==
    /\ txf \o Contenu(tx_buf, tx_in, tx_out) = Numerotes(recus, EnSortie)
    /\ ecrits = Successeur(recus, EnSortie)
    /\ Contenu(rx_buf, rx_in, rx_out) \o rxf = Numerotes(lus, EnEntree)
    /\ envoyes = Successeur(lus, EnEntree)
    /\ EnSortie \in 0..(Taille - 1 + ProfondeurTx) /\ EnEntree \in 0..(Taille - 1 + ProfondeurRx)

\* So it is, as long as nothing is lost.
LEMMA ToujoursEnSeries == TypeOK /\ Fidele => EnSeries
<1> SUFFICES ASSUME TypeOK, Fidele PROVE EnSeries
  OBVIOUS
<1> DEFINE q == txf \o Contenu(tx_buf, tx_in, tx_out)
           r == Contenu(rx_buf, rx_in, rx_out) \o rxf
<1>1. LesContenus
  BY ContenusBornes
<1>2. q \in Seq(Int) /\ Len(q) = EnSortie /\ r \in Seq(Int) /\ Len(r) = EnEntree
  BY <1>1 DEF LesContenus
<1>3. Consecutifs(q, recus, ecrits) /\ Consecutifs(r, lus, envoyes)
  BY DEF Fidele
<1>4. recus \in Int /\ lus \in Int
  BY UartAssumption DEF TypeOK
<1> HIDE DEF q, r
<1>5. q = Numerotes(recus, EnSortie) /\ ecrits = Successeur(recus, EnSortie)
  BY <1>2, <1>3, <1>4, UneSerie
<1>6. r = Numerotes(lus, EnEntree) /\ envoyes = Successeur(lus, EnEntree)
  BY <1>2, <1>3, <1>4, UneSerie
<1> QED BY <1>1, <1>5, <1>6 DEF EnSeries, LesContenus, q, r

\* What a step knows of the state before it and of the one after.
Connu == TypeOK /\ IFidele /\ EnSeries

\* The steps of the channel towards the host: write() puts some in, the host takes one.
LEMMA PasDeSortie ==
    ASSUME Connu, Connu', [Next]_vars PROVE [Sortie!Next]_(Sortie!vars)
<1> DEFINE q == txf \o Contenu(tx_buf, tx_in, tx_out)
           r == q'
           x == EnSortie
           y == EnSortie'
           cap == Taille - 1 + ProfondeurTx
<1>1. /\ q = Numerotes(recus, x) /\ r = Numerotes(recus', y) /\ ecrits = Successeur(recus, x)
      /\ x \in 0..cap /\ y \in 0..cap
  BY DEF Connu, EnSeries
<1>2. /\ recus \in Int /\ recus' \in Int /\ ecrits \in 0..(Numeros - 1)
      /\ TypeOK /\ TxFidele /\ TxAncien /\ Emission
  <2>1. TypeOK /\ TypeOK' /\ TxFidele /\ TxAncien /\ Emission
    BY DEF Connu, IFidele
  <2>2. {recus, recus', ecrits} \subseteq 0..(Numeros - 1)
    BY <2>1 DEF TypeOK
  <2> QED BY <2>1, <2>2, UartAssumption
<1>3. cap \in Nat /\ Len(q) = x /\ Len(r) = y
  <2>1. LesContenus /\ LesContenus'
    BY ContenusBornes, PTL DEF Connu
  <2> QED BY <2>1, TailleAssumption, UartAssumption DEF LesContenus
<1> HIDE DEF q, r, x, y, cap
<1>4. ASSUME NEW n \in Nat, y = x + n, ecrits' = Successeur(ecrits, n), recus' = recus
      PROVE  [Sortie!Next]_(Sortie!vars)
  <2>1. Numerotes(recus, x + n) = Numerotes(recus, x) \o Numerotes(Successeur(recus, x), n)
    <3>1. x \in Nat /\ n \in Nat
      BY <1>1, <1>4
    <3> QED BY <1>2, <3>1, DeuxSeries
  <2>2. r = q \o Numerotes(ecrits, n)
    BY <1>1, <1>4, <2>1
  <2>3. CASE n = 0
    <3>1. ecrits' = ecrits
      BY <1>2, <1>4, <2>3, SuccesseurNul
    <3>2. r = q
      BY <1>1, <1>4, <2>3
    <3> QED BY <1>4, <3>1, <3>2 DEF Sortie!vars, q, r
  <2>4. CASE n # 0
    <3>1. n \in 1..cap /\ Len(q) + n <= cap
      BY <1>1, <1>3, <1>4, <2>4
    <3>2. r = q \o Sortie!Serie(ecrits, n)
      BY <2>2, Series
    <3>3. Sortie!Entrent(n)
      BY <1>4, <3>1, <3>2 DEF Sortie!Entrent, Successeur, q, r, cap
    <3> QED BY <3>1, <3>3 DEF Sortie!Next, cap
  <2> QED BY <2>3, <2>4
<1>5. CASE EcritCopie
  <2>1. PICK n \in Nat : EnSortie' = EnSortie + n /\ ecrits' = Successeur(ecrits, n)
    BY <1>2, <1>5, EcritCopieFidele
  <2>2. recus' = recus
    BY <1>2, <1>5, EcritCopieFidele
  <2> QED BY <1>4, <2>1, <2>2 DEF x, y
<1>6. CASE IrqEmet
  <2>1. y = x /\ ecrits' = ecrits /\ recus' = recus
    BY <1>2, <1>6, IrqEmetFidele DEF x, y
  <2>2. y = x + 0
    BY <1>1, <2>1
  <2>3. ecrits' = Successeur(ecrits, 0)
    BY <1>2, <2>1, SuccesseurNul
  <2> QED BY <1>4, <2>1, <2>2, <2>3
<1>7. CASE HotePrend
  <2>1. y = x - 1 /\ recus' = Successeur(recus, 1) /\ ecrits' = ecrits
    BY <1>2, <1>7, HotePrendFidele DEF x, y
  <2>2. x = 1 + y /\ 1 \in 1..cap /\ 1 \in Nat /\ y \in Nat
    BY <1>1, <1>3, <2>1
  <2>3. Numerotes(recus, 1 + y) = Numerotes(recus, 1) \o Numerotes(Successeur(recus, 1), y)
    BY <1>2, <2>2, DeuxSeries
  <2>4. q = Sortie!Serie(recus, 1) \o r
    BY <1>1, <2>1, <2>2, <2>3, Series
  <2>5. Sortie!Sortent(1)
    BY <2>1, <2>4 DEF Sortie!Sortent, Successeur, q, r
  <2> QED BY <2>2, <2>5 DEF Sortie!Next, cap
<1>8. CASE UNCHANGED <<tx_in, tx_out, tx_buf, txf, recus, ecrits>>
  BY <1>8 DEF Sortie!vars
<1> QED BY <1>5, <1>6, <1>7, <1>8, TxTouche

\* Those of the channel towards the program: the host sends one, read() takes some.
LEMMA PasDEntree ==
    ASSUME Connu, Connu', [Next]_vars PROVE [Entree!Next]_(Entree!vars)
<1> DEFINE q == Contenu(rx_buf, rx_in, rx_out) \o rxf
           r == q'
           x == EnEntree
           y == EnEntree'
           cap == Taille - 1 + ProfondeurRx
<1>1. /\ q = Numerotes(lus, x) /\ r = Numerotes(lus', y) /\ envoyes = Successeur(lus, x)
      /\ x \in 0..cap /\ y \in 0..cap
  BY DEF Connu, EnSeries
<1>2. /\ lus \in Int /\ lus' \in Int /\ lus \in 0..(Numeros - 1)
      /\ TypeOK /\ RxFidele /\ RxAncien
  <2>1. TypeOK /\ TypeOK' /\ RxFidele /\ RxAncien
    BY DEF Connu, IFidele
  <2>2. {lus, lus'} \subseteq 0..(Numeros - 1)
    BY <2>1 DEF TypeOK
  <2> QED BY <2>1, <2>2, UartAssumption
<1>3. cap \in Nat /\ Len(q) = x /\ Len(r) = y
  <2>1. LesContenus /\ LesContenus'
    BY ContenusBornes, PTL DEF Connu
  <2> QED BY <2>1, TailleAssumption, UartAssumption DEF LesContenus
<1> HIDE DEF q, r, x, y, cap
<1>4. ASSUME NEW n \in Nat, y = x - n, n <= x, lus' = Successeur(lus, n), envoyes' = envoyes
      PROVE  [Entree!Next]_(Entree!vars)
  <2>1. x = n + y /\ y \in Nat
    BY <1>1, <1>4
  <2>2. Numerotes(lus, n + y) = Numerotes(lus, n) \o Numerotes(Successeur(lus, n), y)
    BY <1>2, <2>1, DeuxSeries
  <2>3. q = Numerotes(lus, n) \o r
    BY <1>1, <1>4, <2>1, <2>2
  <2>4. CASE n = 0
    <3>1. lus' = lus /\ x = y
      BY <1>1, <1>2, <1>4, <2>4, SuccesseurNul
    <3>2. r = q
      BY <1>1, <3>1
    <3> QED BY <1>4, <3>1, <3>2 DEF Entree!vars, q, r
  <2>5. CASE n # 0
    <3>1. n \in 1..cap
      BY <1>1, <1>3, <1>4, <2>5
    <3>2. q = Entree!Serie(lus, n) \o r
      BY <2>3, Series
    <3>3. Entree!Sortent(n)
      BY <1>4, <3>2 DEF Entree!Sortent, Successeur, q, r
    <3> QED BY <3>1, <3>3 DEF Entree!Next, cap
  <2> QED BY <2>4, <2>5
<1>5. CASE LitCopie
  <2>1. PICK n \in Nat : EnEntree' = EnEntree - n /\ n <= EnEntree /\ lus' = Successeur(lus, n)
    BY <1>2, <1>5, LitCopieFidele
  <2>2. envoyes' = envoyes
    BY <1>2, <1>5, LitCopieFidele
  <2> QED BY <1>4, <2>1, <2>2 DEF x, y
<1>6. CASE IrqRecoit
  <2>1. y = x /\ lus' = lus /\ envoyes' = envoyes
    BY <1>2, <1>6, IrqRecoitFidele DEF x, y
  <2>2. y = x - 0 /\ 0 <= x
    BY <1>1, <2>1
  <2>3. lus' = Successeur(lus, 0)
    BY <1>2, <2>1, SuccesseurNul
  <2> QED BY <1>4, <2>1, <2>2, <2>3
<1>7. CASE HoteEnvoie \/ IrqCroise
  <2>1. y = x + 1 /\ envoyes' = Successeur(envoyes, 1) /\ lus' = lus
    BY <1>2, <1>7, HoteEnvoieFidele DEF x, y
  <2>2. Len(q) + 1 <= cap /\ 1 \in 1..cap /\ 1 \in Nat /\ x \in Nat
    BY <1>1, <1>3, <2>1
  <2>3. Numerotes(lus, x + 1) = Numerotes(lus, x) \o Numerotes(Successeur(lus, x), 1)
    BY <1>2, <2>2, DeuxSeries
  <2>4. r = q \o Entree!Serie(envoyes, 1)
    BY <1>1, <2>1, <2>3, Series
  <2>5. Entree!Entrent(1)
    BY <2>1, <2>2, <2>4 DEF Entree!Entrent, Successeur, q, r, cap
  <2> QED BY <2>2, <2>5 DEF Entree!Next, cap
<1>8. CASE UNCHANGED <<rx_in, rx_out, rx_buf, rxf, lus, envoyes>>
  BY <1>8 DEF Entree!vars
<1> QED BY <1>5, <1>6, <1>7, <1>8, RxTouche

\* Both channels start empty.
LEMMA CanauxVides == Init => Sortie!Init /\ Entree!Init
<1> SUFFICES ASSUME Init PROVE Sortie!Init /\ Entree!Init
  OBVIOUS
<1>1. 0 \in Places
  BY TailleAssumption DEF Places
<1>2. Occupe(0, 0) = 0
  BY <1>1, OccupeReduit
<1>3. Contenu(tx_buf, 0, 0) = <<>> /\ Contenu(rx_buf, 0, 0) = <<>>
  BY <1>2 DEF Contenu
<1>4. <<>> \o <<>> = <<>>
  OBVIOUS
<1> QED BY <1>3, <1>4 DEF Init, Sortie!Init, Entree!Init

\* The driver and the device implement the two channels: between the program and the host
\* only the ends of a queue are seen, never the buffers, the indices, the interrupt nor
\* the old values that each side reads of the other (altera_avalon_jtag_uart_write.c:105,
\* altera_avalon_jtag_uart_read.c:122, altera_avalon_jtag_uart_init.c:156 and :186).
THEOREM DeuxCanaux == Spec => Canaux
<1>1. TypeOK /\ IFidele => Connu
  BY EnOrdre, ToujoursEnSeries DEF Connu
<1>2. Connu /\ Connu' /\ [Next]_vars => [Sortie!Next]_(Sortie!vars) /\ [Entree!Next]_(Entree!vars)
  BY PasDeSortie, PasDEntree
<1>3. Spec => []Connu
  BY <1>1, TypesDuPilote, InitFidele, NextFidele, PTL DEF Spec
<1> QED BY <1>2, <1>3, CanauxVides, PTL DEF Spec, Canaux, Sortie!Spec, Entree!Spec

-----------------------------------------------------------------------------------
\* What write() has accepted arrives.

\* The steps that the characters on their way to the host still have to make: two for
\* each one in the buffer, one for each one in the FIFO.
Retard == 2 * Occupe(tx_in, tx_out) + Len(txf)

\* A host that takes a character, and the routine that hands one to the device, lower it.
LEMMA RetardBaisse ==
    ASSUME TypeOK, TxFidele, Emission, IrqEmet \/ HotePrend
    PROVE  Retard' = Retard - 1
<1>1. /\ tx_in \in Places /\ tx_out \in Places /\ Len(txf) \in Nat
      /\ Occupe(tx_in, tx_out) \in Nat
  <2>1. tx_in \in Places /\ tx_out \in Places /\ Len(txf) \in Nat
    BY DEF TypeOK
  <2> QED BY <2>1, OccupeType
<1>2. CASE IrqEmet
  <2>1. Occupe(tx_in', tx_out') = Occupe(tx_in, tx_out) - 1 /\ EnSortie' = EnSortie
    BY <1>2, IrqEmetFidele
  <2>2. Len(txf') + Occupe(tx_in', tx_out') = Len(txf) + Occupe(tx_in, tx_out)
    BY <2>1 DEF EnSortie
  <2>3. Len(txf') \in Int
    BY <1>1, <1>2, FifoType DEF IrqEmet, TypeOK, Places
  <2> QED BY <1>1, <2>1, <2>2, <2>3 DEF Retard
<1>3. CASE HotePrend
  <2>1. txf # <<>> /\ txf' = Tail(txf) /\ tx_in' = tx_in /\ tx_out' = tx_out
    BY <1>3 DEF HotePrend, anneaux
  <2>2. Len(txf') = Len(txf) - 1
    BY <1>1, <2>1 DEF TypeOK
  <2> QED BY <1>1, <2>1, <2>2 DEF Retard
<1> QED BY <1>2, <1>3

\* What write() has put in the buffer is bound to arrive: only write() puts back the end
\* of the delivery, the routine and the host bring it nearer by a step each time, and as
\* long as something is left there is a character for the host to take, or the device asks
\* for one, or a write() is about to let it ask (write.c:136, init.c:186).
THEOREM LivraisonBornee ==
    Spec => /\ [](/\ Retard \in 0..(2 * (Taille - 1) + ProfondeurTx)
                  /\ Retard = 0 <=> tx_in = tx_out /\ txf = <<>>
                  /\ Retard # 0 => txf # <<>> \/ WI \/ pc \in {"w_lit", "w_copie", "w_irq"})
            /\ [][ /\ IrqEmet \/ HotePrend => Retard' = Retard - 1
                   /\ ~EcritCopie => Retard' <= Retard ]_vars
<1> DEFINE Q == /\ Retard \in 0..(2 * (Taille - 1) + ProfondeurTx)
                /\ Retard = 0 <=> tx_in = tx_out /\ txf = <<>>
                /\ Retard # 0 => txf # <<>> \/ WI \/ pc \in {"w_lit", "w_copie", "w_irq"}
           A == /\ IrqEmet \/ HotePrend => Retard' = Retard - 1
                /\ ~EcritCopie => Retard' <= Retard
<1>1. TypeOK => /\ Retard \in 0..(2 * (Taille - 1) + ProfondeurTx)
                /\ Retard = 0 <=> tx_in = tx_out /\ txf = <<>>
  <2> SUFFICES ASSUME TypeOK
               PROVE  /\ Retard \in 0..(2 * (Taille - 1) + ProfondeurTx)
                      /\ Retard = 0 <=> tx_in = tx_out /\ txf = <<>>
    OBVIOUS
  <2>1. /\ tx_in \in Places /\ tx_out \in Places /\ Taille \in Nat /\ 1 < Taille
        /\ Len(txf) \in 0..ProfondeurTx /\ ProfondeurTx \in Nat /\ txf \in Seq(0..(Numeros - 1))
    BY TailleAssumption, UartAssumption DEF TypeOK
  <2>2. Occupe(tx_in, tx_out) \in 0..(Taille - 1)
    BY <2>1, OccupeType
  <2>3. Len(txf) = 0 <=> txf = <<>>
    BY <2>1
  <2>4. Occupe(tx_in, tx_out) = 0 <=> tx_in = tx_out
    <3>1. Occupe(tx_in, tx_out) = IF tx_out <= tx_in THEN tx_in - tx_out
                                  ELSE tx_in - tx_out + Taille
      BY <2>1, OccupeReduit
    <3> QED BY <2>1, <3>1 DEF Places
  <2> DEFINE o == Occupe(tx_in, tx_out)
             n == Len(txf)
  <2>5. o \in 0..(Taille - 1) /\ n \in 0..ProfondeurTx /\ Retard = 2 * o + n
    BY <2>1, <2>2 DEF Retard
  <2>6. (o = 0 <=> tx_in = tx_out) /\ (n = 0 <=> txf = <<>>)
    BY <2>3, <2>4
  <2> HIDE DEF o, n
  <2>7. Retard \in 0..(2 * (Taille - 1) + ProfondeurTx) /\ (Retard = 0 <=> o = 0 /\ n = 0)
    BY <2>1, <2>5
  <2> QED BY <2>6, <2>7
<1>2. TypeOK /\ Reveils => Q
  <2> SUFFICES ASSUME TypeOK, Reveils, Retard # 0, txf = <<>>
               PROVE  WI \/ pc \in {"w_lit", "w_copie", "w_irq"}
    BY <1>1
  <2>1. tx_in # tx_out
    BY <1>1
  <2>2. we \/ pc \in {"w_lit", "w_copie", "w_irq"}
    BY <2>1 DEF Reveils
  <2>3. Len(txf) <= SeuilTx
    BY UartAssumption
  <2> QED BY <2>2, <2>3 DEF WI
<1>3. TypeOK /\ IFidele /\ [Next]_vars => [A]_vars
  <2> SUFFICES ASSUME TypeOK, IFidele, Next PROVE A
    OBVIOUS
  <2>1. TxFidele /\ Emission
    BY DEF IFidele
  <2>2. IrqEmet \/ HotePrend => Retard' = Retard - 1
    BY <2>1, RetardBaisse
  <2>3. Retard \in Int
    BY <1>1
  <2>4. UNCHANGED <<tx_in, tx_out, txf>> => Retard' = Retard
    BY DEF Retard
  <2>5. ~EcritCopie => Retard' <= Retard
    BY <2>2, <2>3, <2>4, TxTouche
  <2> QED BY <2>2, <2>5
<1>4. Spec => []IFidele
  BY InitFidele, TypesDuPilote, NextFidele, PTL DEF Spec
<1> QED BY <1>2, <1>3, <1>4, TypesDuPilote, ReveilsToujoursPrets, PTL DEF Spec
===================================================================================
