-------------------------------- MODULE JtagUart --------------------------------
(***************************************************************************)
(* The interrupt driven driver of the JTAG UART: a program that calls      *)
(* write(), read(), close() and ioctl() one at a time, the interrupt       *)
(* routine and the routine of the alarm, which suspend it between any two  *)
(* of its accesses to what they share, the device itself (the FIFOs, the   *)
(* interrupt lines and the bits of soc_jtag_uart.v), and a host that comes *)
(* and goes.  Characters are numbered modulo Numeros.                      *)
(***************************************************************************)
EXTENDS Anneau, Alarmes

CONSTANTS
    ProfondeurTx, \* the depth of the transmit FIFO of the device, 64 in the source
    ProfondeurRx, \* that of its receive FIFO, 64 too
    SeuilTx,      \* fifo_AE: its transmit FIFO holds no more than this, 8 in the source
    SeuilRx,      \* fifo_AF: its receive FIFO has place for no more than this, 8 too
    Numeros,      \* more than any number of characters on their way
    Demande,      \* the largest count of a call
    Defaut,       \* ALTERA_AVALON_JTAG_UART_DEFAULT_TIMEOUT, 10 in the source
    INT_MAX,      \* 2^31 - 1 in the source
    ParSeconde    \* alt_ticks_per_second()

ASSUME UartAssumption ==
    /\ ProfondeurTx \in Nat /\ SeuilTx \in Nat /\ SeuilTx < ProfondeurTx
    /\ ProfondeurRx \in Nat /\ SeuilRx \in Nat /\ SeuilRx < ProfondeurRx
    /\ Numeros \in Nat /\ 0 < Numeros /\ Demande \in Nat /\ 0 < Demande
    /\ Defaut \in Nat /\ INT_MAX \in Nat /\ 3 < INT_MAX /\ 2 <= Defaut /\ Defaut < INT_MAX
    /\ ParSeconde \in Nat /\ 0 < ParSeconde /\ ParSeconde + 1 < Tours

VARIABLES
    rx_in, rx_out, rx_buf, tx_in, tx_out, tx_buf,   \* the buffers of the driver
    re, we,          \* the bits of irq_enable
    timeout, host_inactive, alarm, nticks,
    txf, rxf,        \* the FIFOs of the device
    pause, ac,       \* its register pause_irq, and the bit "activity" of its control register
    isr, wi, place, dispo,          \* the interrupt routine
    pc, reste, fait, nb, lu, vu,    \* the program
    emploi,          \* whether the program writes or reads
    ecrits, recus, envoyes, lus     \* the next number at each of the four ends

RELU == -1   \* no value of host_inactive

anneaux   == <<rx_in, rx_out, rx_buf, tx_in, tx_out, tx_buf>>
horloge   == <<timeout, host_inactive, alarm, nticks>>
materiel  == <<txf, rxf, pause, ac>>
routine   == <<isr, wi, place, dispo>>
programme == <<pc, reste, fait, nb, lu, vu>>
bouts     == <<ecrits, recus, envoyes, lus>>
vars == <<anneaux, re, we, horloge, materiel, routine, programme, emploi, bouts>>

Suite(n)     == [k \in 1..n |-> (ecrits + k - 1) % Numeros]
Successeur(c, n) == (c + n) % Numeros

\* The interrupt lines of the device: ipen_AF is up once the host has paused with
\* characters waiting, or when there is nearly no place left for more, ipen_AE when
\* there is nearly nothing left to send.
AF == ProfondeurRx - Len(rxf) <= SeuilRx
RI == re /\ (pause \/ AF)
WI == we /\ Len(txf) <= SeuilTx

\* altera_avalon_jtag_uart_init: without a system clock there is no alarm, and the
\* host is taken to be there for ever.
Init ==
    /\ rx_in = 0 /\ rx_out = 0 /\ tx_in = 0 /\ tx_out = 0
    /\ rx_buf = [i \in Places |-> 0] /\ tx_buf = [i \in Places |-> 0]
    /\ re = TRUE /\ we = FALSE
    /\ timeout \in {Defaut, INT_MAX} /\ host_inactive = 0
    /\ nticks = 0 /\ alarm = AlarmeDemarre(ParSeconde, nticks)
    /\ txf = <<>> /\ rxf = <<>> /\ pause = FALSE /\ ac = FALSE
    /\ isr = "repos" /\ wi = FALSE /\ place = 0 /\ dispo = FALSE
    /\ pc = "main" /\ reste = 0 /\ fait = FALSE /\ nb = FALSE /\ lu = 0 /\ vu = RELU
    /\ emploi \in {"ecrit", "lit"}
    /\ ecrits = 0 /\ recus = 0 /\ envoyes = 0 /\ lus = 0

---------------------------------------------------------------------------------
\* The program runs while no interrupt routine does.  A call forgets its variables when
\* it has no more use for them.
Avance(de, vers) == isr = "repos" /\ pc = de /\ pc' = vers
Oublie == reste' = 0 /\ nb' = FALSE /\ fait' = FALSE /\ lu' = 0 /\ vu' = RELU
Rend(de) == Avance(de, "main") /\ Oublie

\* host_inactive is not volatile: a build reads it at each turn of a loop that waits, or
\* once before the loop.
Regarde == vu' \in {RELU, host_inactive}
Inactif == IF vu = RELU THEN host_inactive ELSE vu

Appel(vers, k, b) ==
    /\ Avance("main", vers)
    /\ reste' = k /\ nb' = b
    /\ UNCHANGED <<anneaux, re, we, horloge, materiel, routine, fait, lu, vu, emploi, bouts>>

\* write(): a stable value of tx_out, then as much as fits without wrapping.
EcritLit ==
    /\ Avance("w_lit", IF reste > 0 THEN "w_copie" ELSE "w_irq")
    /\ lu' = IF reste > 0 THEN tx_out ELSE lu
    /\ UNCHANGED <<anneaux, re, we, horloge, materiel, routine, reste, fait, nb, vu, emploi, bouts>>

EcritCopie ==
    LET n == Moindre(ALoger(tx_in, lu), reste)
    IN  /\ Avance("w_copie", IF n = 0 THEN "w_irq" ELSE "w_lit")
        /\ tx_buf' = Loge(tx_buf, tx_in, Suite(n))
        /\ tx_in' = Apres(tx_in, n)
        /\ ecrits' = Successeur(ecrits, n)
        /\ reste' = reste - n
        /\ lu' = IF n = 0 THEN lu ELSE 0
        /\ UNCHANGED <<rx_in, rx_out, rx_buf, tx_out, re, we, horloge, materiel, routine,
                       fait, nb, vu, emploi, recus, envoyes, lus>>

\* What follows the request of the interrupt: the call ends, or waits for place.
EcritSuite ==
    \/ (reste = 0 \/ nb) /\ Rend("w_irq")
    \/ reste > 0 /\ ~nb /\ Avance("w_irq", "w_att") /\ Regarde /\ UNCHANGED <<reste, fait, nb, lu>>

\* Slip: the interrupt is asked for only when the call has to wait.
EcritIrqSiPlein ==
    /\ EcritSuite
    /\ we' = (we \/ reste > 0)
    /\ UNCHANGED <<anneaux, re, horloge, materiel, routine, emploi, bouts>>

EcritIrq ==
    /\ EcritSuite
    /\ we' = TRUE
    /\ UNCHANGED <<anneaux, re, horloge, materiel, routine, emploi, bouts>>

EcritAttend ==
    /\ Avance("w_att", "w_hote")
    /\ lu # tx_out \/ Inactif >= timeout
    /\ UNCHANGED <<anneaux, re, we, horloge, materiel, routine, reste, fait, nb, lu, vu, emploi,
                   bouts>>

\* Any inactivity of the host ends the call, even if there is place now; the value may
\* be the one read before the loop.
EcritHote ==
    /\ \E h \in {host_inactive, Inactif} :
         \/ h # 0 /\ Rend("w_hote")
         \/ /\ h = 0 /\ Avance("w_hote", "w_lit")
            /\ vu' = RELU /\ lu' = 0 /\ UNCHANGED <<reste, fait, nb>>
    /\ UNCHANGED <<anneaux, re, we, horloge, materiel, routine, emploi, bouts>>

\* read(): a stable value of rx_in, then as much as there is without wrapping.
LitLit ==
    /\ Avance("r_lit", "r_copie")
    /\ lu' = rx_in
    /\ UNCHANGED <<anneaux, re, we, horloge, materiel, routine, reste, fait, nb, vu, emploi, bouts>>

LitCopie ==
    LET n == Moindre(APrendre(lu, rx_out), reste)
    IN  /\ n > 0
        /\ \/ n = reste /\ Avance("r_copie", "r_irq") /\ Oublie
           \/ /\ n < reste /\ Avance("r_copie", "r_lit")
              /\ reste' = reste - n /\ fait' = TRUE /\ lu' = 0 /\ nb' = FALSE
              /\ UNCHANGED vu
        /\ rx_out' = Apres(rx_out, n)
        /\ lus' = Successeur(rx_buf[rx_out + n - 1], 1)
        /\ UNCHANGED <<rx_in, rx_buf, tx_in, tx_out, tx_buf, re, we, horloge, materiel, routine,
                       emploi, ecrits, recus, envoyes>>

\* Nothing more to take: the call ends, unless it has taken nothing and may wait.
LitRien ==
    /\ APrendre(lu, rx_out) = 0
    /\ \/ fait /\ Avance("r_copie", "r_irq") /\ Oublie
       \/ ~fait /\ nb /\ Rend("r_copie")
       \/ ~fait /\ ~nb /\ Avance("r_copie", "r_att") /\ Regarde /\ UNCHANGED <<reste, fait, nb, lu>>
    /\ UNCHANGED <<anneaux, re, we, horloge, materiel, routine, emploi, bouts>>

LitAttend ==
    /\ Avance("r_att", "r_test")
    /\ lu # rx_in \/ Inactif >= timeout
    /\ vu' = RELU
    /\ UNCHANGED <<anneaux, re, we, horloge, materiel, routine, reste, fait, nb, lu, emploi, bouts>>

LitTest ==
    /\ \/ lu = rx_in /\ Rend("r_test")
       \/ lu # rx_in /\ Avance("r_test", "r_lit") /\ lu' = 0 /\ UNCHANGED <<reste, fait, nb, vu>>
    /\ UNCHANGED <<anneaux, re, we, horloge, materiel, routine, emploi, bouts>>

\* Slip: the interrupt is allowed again only while something remains to be read.
LitIrqSiReste ==
    /\ Rend("r_irq")
    /\ re' = (re \/ rx_in # rx_out)
    /\ UNCHANGED <<anneaux, we, horloge, materiel, routine, emploi, bouts>>

\* A call that took something made place: the interrupt is allowed again.
LitIrq ==
    /\ Rend("r_irq")
    /\ re' = TRUE
    /\ UNCHANGED <<anneaux, we, horloge, materiel, routine, emploi, bouts>>

\* close(): waits until the buffer is empty or the host taken for absent.
Ferme(b) ==
    /\ Avance("main", "c_att")
    /\ nb' = b /\ Regarde
    /\ UNCHANGED <<anneaux, re, we, horloge, materiel, routine, reste, fait, lu, emploi, bouts>>

\* Slip: only the buffer is waited for, whatever the host does.
FermeAttendVide ==
    /\ Rend("c_att")
    /\ tx_out = tx_in \/ nb
    /\ UNCHANGED <<anneaux, re, we, horloge, materiel, routine, emploi, bouts>>

FermeAttend ==
    /\ Rend("c_att")
    /\ tx_out = tx_in \/ Inactif >= timeout \/ nb
    /\ UNCHANGED <<anneaux, re, we, horloge, materiel, routine, emploi, bouts>>

\* ioctl(TIOCSTIMEOUT), refused when there is no alarm.
Ioctl(t) ==
    /\ Avance("main", "main")
    /\ timeout # INT_MAX
    /\ timeout' = IF t >= 2 /\ t < INT_MAX THEN t ELSE INT_MAX - 1
    /\ UNCHANGED <<anneaux, re, we, host_inactive, alarm, nticks, materiel, routine, reste, fait,
                   nb, lu, vu, emploi, bouts>>

---------------------------------------------------------------------------------
\* altera_avalon_jtag_uart_irq: the control register is read on entry and after each
\* round, until neither line is up.
IrqControle ==
    /\ isr = "boucle" \/ (isr = "repos" /\ (RI \/ WI))
    /\ isr' = IF RI THEN "rx" ELSE IF WI THEN "tx" ELSE "repos"
    /\ wi' = WI
    /\ place' = IF WI THEN ProfondeurTx - Len(txf) ELSE 0
    /\ dispo' = RI
    /\ UNCHANGED <<anneaux, re, we, horloge, materiel, programme, emploi, bouts>>

\* Slip: the character goes to the place after the one that the index is moved past.
IrqRecoitDecale ==
    /\ isr = "rx" /\ Apres(rx_in, 1) # rx_out /\ rxf # <<>>
    /\ rx_buf' = [rx_buf EXCEPT ![Apres(rx_in, 1)] = Head(rxf)]
    /\ rx_in' = Apres(rx_in, 1)
    /\ rxf' = Tail(rxf) /\ pause' = FALSE
    /\ dispo' = (Tail(rxf) # <<>>)
    /\ UNCHANGED <<rx_out, tx_in, tx_out, tx_buf, re, we, horloge, txf, ac, isr, wi, place,
                   programme, emploi, bouts>>

\* One character from the device to the buffer, while it is not full.  Every read of
\* the data register clears pause_irq, characters left behind or not.
IrqRecoit ==
    /\ isr = "rx" /\ Apres(rx_in, 1) # rx_out /\ rxf # <<>>
    /\ rx_buf' = [rx_buf EXCEPT ![rx_in] = Head(rxf)]
    /\ rx_in' = Apres(rx_in, 1)
    /\ rxf' = Tail(rxf) /\ pause' = FALSE
    /\ dispo' = (Tail(rxf) # <<>>)
    /\ UNCHANGED <<rx_out, tx_in, tx_out, tx_buf, re, we, horloge, txf, ac, isr, wi, place,
                   programme, emploi, bouts>>

Plein == Apres(rx_in, 1) = rx_out

\* The buffer is full and nothing is read, or the read finds the device empty.  If the
\* last character read said that more were waiting, the buffer is full: its interrupt
\* is forbidden until a read().
IrqFinRx ==
    /\ isr = "rx" /\ (Plein \/ rxf = <<>>)
    /\ re' = (re /\ ~(Plein /\ dispo))
    /\ pause' = (pause /\ Plein)
    /\ dispo' = FALSE
    /\ isr' = IF wi THEN "tx" ELSE "boucle"
    /\ UNCHANGED <<anneaux, we, horloge, txf, rxf, ac, wi, place, programme, emploi, bouts>>

\* A character arrives in the very period of the read that finds the device empty: the
\* word read has a valid bit of before it and a count of after it, and the routine
\* forbids its interrupt although the buffer has place.
IrqCroise ==
    /\ isr = "rx" /\ ~Plein /\ rxf = <<>> /\ emploi = "lit"
    /\ rxf' = <<envoyes>> /\ envoyes' = Successeur(envoyes, 1)
    /\ ac' = TRUE /\ pause' = FALSE
    /\ re' = FALSE
    /\ dispo' = FALSE
    /\ isr' = IF wi THEN "tx" ELSE "boucle"
    /\ UNCHANGED <<anneaux, we, horloge, txf, wi, place, programme, emploi, ecrits, recus, lus>>

\* Slip: one character too many for the place that the control register announced.
IrqEmetTrop ==
    /\ isr = "tx" /\ place >= 0 /\ tx_out # tx_in
    /\ txf' = IF Len(txf) < ProfondeurTx THEN Append(txf, tx_buf[tx_out]) ELSE txf
    /\ tx_out' = Apres(tx_out, 1)
    /\ place' = place - 1
    /\ UNCHANGED <<rx_in, rx_out, rx_buf, tx_in, tx_buf, re, we, horloge, rxf, pause, ac, isr, wi,
                   dispo, programme, emploi, bouts>>

\* One character from the buffer to the device, which drops it if it is full.
IrqEmet ==
    /\ isr = "tx" /\ place > 0 /\ tx_out # tx_in
    /\ txf' = IF Len(txf) < ProfondeurTx THEN Append(txf, tx_buf[tx_out]) ELSE txf
    /\ tx_out' = Apres(tx_out, 1)
    /\ place' = place - 1
    /\ UNCHANGED <<rx_in, rx_out, rx_buf, tx_in, tx_buf, re, we, horloge, rxf, pause, ac, isr, wi,
                   dispo, programme, emploi, bouts>>

\* Slip: the interrupt is forbidden even if the device was full first.
IrqFinTxToujours ==
    /\ isr = "tx" /\ (place = 0 \/ tx_out = tx_in)
    /\ we' = FALSE
    /\ isr' = "boucle" /\ wi' = FALSE /\ place' = 0
    /\ UNCHANGED <<anneaux, re, horloge, materiel, dispo, programme, emploi, bouts>>

\* The device is full or the buffer empty, which forbids the interrupt.
IrqFinTx ==
    /\ isr = "tx" /\ (place = 0 \/ tx_out = tx_in)
    /\ we' = (we /\ place = 0)
    /\ isr' = "boucle" /\ wi' = FALSE /\ place' = 0
    /\ UNCHANGED <<anneaux, re, horloge, materiel, dispo, programme, emploi, bouts>>

Irq == IrqControle \/ IrqRecoit \/ IrqFinRx \/ IrqCroise \/ IrqEmet \/ IrqFinTx

\* altera_avalon_jtag_uart_timeout: the activity of the host since the last second.
Timeout == IF ac THEN ac' = FALSE /\ host_inactive' = 0
           ELSE /\ ac' = ac
                /\ host_inactive' = IF host_inactive < INT_MAX - 2 THEN host_inactive + 1
                                    ELSE host_inactive

\* alt_tick, called by the system clock, if there is one.
Tick ==
    /\ isr = "repos" /\ timeout # INT_MAX
    /\ nticks' = (nticks + 1) % Tours
    /\ alarm' = AlarmeTick(alarm, nticks', ParSeconde)
    /\ IF Echue(alarm, nticks') THEN Timeout ELSE UNCHANGED <<ac, host_inactive>>
    /\ UNCHANGED <<anneaux, re, we, timeout, txf, rxf, pause, routine, programme, emploi, bouts>>

---------------------------------------------------------------------------------
\* The host, through the JTAG: it takes characters (r_ena), sends some (t_ena), or
\* tells that it has no more to send for now (t_pause).  The last two are its activity;
\* an absent host does none of these.
HotePrend ==
    /\ txf # <<>>
    /\ txf' = Tail(txf) /\ recus' = Successeur(Head(txf), 1)
    /\ UNCHANGED <<anneaux, re, we, horloge, rxf, pause, ac, routine, programme, emploi, ecrits,
                   envoyes, lus>>

HoteEnvoie ==
    /\ emploi = "lit" /\ Len(rxf) < ProfondeurRx
    /\ rxf' = Append(rxf, envoyes) /\ envoyes' = Successeur(envoyes, 1) /\ ac' = TRUE
    /\ UNCHANGED <<anneaux, re, we, horloge, txf, pause, routine, programme, emploi, ecrits, recus,
                   lus>>

HotePause ==
    /\ pause' = (pause \/ rxf # <<>>) /\ ac' = TRUE
    /\ UNCHANGED <<anneaux, re, we, horloge, txf, rxf, routine, programme, emploi, bouts>>

Programme == EcritLit \/ EcritCopie \/ EcritIrq \/ EcritAttend \/ EcritHote \/ LitLit
             \/ LitCopie \/ LitRien \/ LitAttend \/ LitTest \/ LitIrq \/ FermeAttend

Appels == \/ /\ emploi = "ecrit"
             /\ \E b \in BOOLEAN : Ferme(b) \/ \E k \in 1..Demande : Appel("w_lit", k, b)
          \/ /\ emploi = "lit"
             /\ \E b \in BOOLEAN, k \in 1..Demande : Appel("r_lit", k, b)
          \/ \E t \in 0..INT_MAX : Ioctl(t)

Next == Programme \/ Appels \/ Irq \/ Tick \/ HotePrend \/ HoteEnvoie \/ HotePause

\* The processor runs and the clock ticks; nothing is asked of the host.
Spec == Init /\ [][Next]_vars /\ WF_vars(Programme) /\ WF_vars(Irq) /\ WF_vars(Tick)

---------------------------------------------------------------------------------
\* Indices in the buffers, characters that are numbers, a state of the program and of
\* the interrupt routine that go together.
TypeOK ==
    /\ {rx_in, rx_out, tx_in, tx_out, lu} \subseteq Places
    /\ {rx_buf, tx_buf} \subseteq [Places -> 0..(Numeros - 1)]
    /\ {re, we, pause, ac, wi, dispo, fait, nb} \subseteq BOOLEAN
    /\ emploi \in {"ecrit", "lit"}
    /\ timeout \in 2..INT_MAX
    /\ host_inactive \in 0..(INT_MAX - 2) /\ vu \in {RELU} \cup 0..(INT_MAX - 2)
    /\ alarm \in Alarme /\ nticks \in Ticks
    /\ {txf, rxf} \subseteq Seq(0..(Numeros - 1))
    /\ Len(txf) <= ProfondeurTx /\ Len(rxf) <= ProfondeurRx
    /\ isr \in {"repos", "boucle", "rx", "tx"} /\ place \in 0..ProfondeurTx
    /\ pc \in {"main", "w_lit", "w_copie", "w_irq", "w_att", "w_hote", "r_lit", "r_copie",
               "r_att", "r_test", "r_irq", "c_att"}
    /\ reste \in 0..Demande
    /\ {ecrits, recus, envoyes, lus} \subseteq 0..(Numeros - 1)

\* The interrupt of the transmitter may be forbidden only while the buffer is empty or
\* before a write() that has not yet asked for it (write.c:129), and that of the
\* receiver only while there is something to read or in a read() that has taken
\* something (read.c:190): otherwise nothing would ever move the characters again.  A
\* call that waits for an index that has not moved since it read it waits for a buffer
\* that is full, or empty, indeed, and whose interrupt is allowed (write.c:183,
\* read.c:173).
Reveils ==
    /\ tx_in # tx_out => we \/ pc \in {"w_lit", "w_copie", "w_irq"}
    /\ ~re => rx_in # rx_out \/ (fait /\ pc \in {"r_lit", "r_copie"}) \/ pc = "r_irq"
    /\ pc = "w_att" /\ lu = tx_out => we /\ Apres(tx_in, 1) = tx_out
    /\ pc = "r_att" /\ lu = rx_in => re /\ rx_in = rx_out

\* Consecutive numbers that lead from the number de to the number vers.
Consecutifs(s, de, vers) ==
    /\ \A k \in 1..Len(s) : s[k] = Successeur(de, k - 1)
    /\ vers = Successeur(de, Len(s))

\* What was written and the host has not taken is in the buffer and the FIFO, in its
\* order, once each; so is what the host sent and the program has not read: the
\* indices that the program and the interrupt routine read from one another, one of
\* them old, never lose, repeat or reorder a character (write.c:105, read.c:122).
Fidele ==
    /\ Consecutifs(txf \o Contenu(tx_buf, tx_in, tx_out), recus, ecrits)
    /\ Consecutifs(Contenu(rx_buf, rx_in, rx_out) \o rxf, lus, envoyes)

\* Each direction is a channel of one buffer and one FIFO: only write() and the host put
\* something in, at the end and as long as there is place, and only the host and read()
\* take something out, at the head; the interrupt routine, which carries the characters
\* from the one to the other, does not show (init.c:156, init.c:186).
Sortie == INSTANCE Canal WITH
    Capacite <- Taille - 1 + ProfondeurTx,
    contenu <- txf \o Contenu(tx_buf, tx_in, tx_out), entre <- ecrits, sorti <- recus
Entree == INSTANCE Canal WITH
    Capacite <- Taille - 1 + ProfondeurRx,
    contenu <- Contenu(rx_buf, rx_in, rx_out) \o rxf, entre <- envoyes, sorti <- lus
Canaux == Sortie!Spec /\ Entree!Spec

\* The presence of the host is looked at every ParSeconde ticks exactly, whatever the
\* wraps of the counter of ticks and of the tick the alarm is due (alt_tick.c:102).
AlarmePonctuelle ==
    [][nticks' # nticks =>
         LET r == Reste(alarm, nticks)
         IN  /\ Reste(alarm, nticks)' = IF r = 1 THEN ParSeconde ELSE r - 1
             /\ r # 1 => UNCHANGED <<host_inactive, ac>>]_vars

\* Where a loop that waits reads host_inactive at each turn, and unless the timeout is
\* out of reach, a host that is silent for ever cannot keep a call from ending
\* (init.c:247, read.c:173, write.c:183).
FinSansHote ==
    <>[](~ac /\ vu = RELU /\ timeout < INT_MAX - 1) => []<>(pc = "main")

\* A read() that waits while the device holds a character does not wait for ever,
\* whatever the build makes of host_inactive (init.c:156, read.c:173), with a host that
\* never leaves characters without pausing in the end: characters that come after the
\* last read of the interrupt routine, too few to fill the device, raise no interrupt
\* before the next pause (soc_jtag_uart.v:437-449).
LectureServie ==
    []<>(pause \/ rxf = <<>>) => ((pc = "r_att" /\ rxf # <<>>) ~> (pc # "r_att"))

\* What write() has put in the buffer goes to a host that takes what is there, even if
\* the program never calls the driver again (init.c:186, write.c:136).
Livraison ==
    WF_vars(HotePrend) => (<>[](pc = "main") => <>[](tx_in = tx_out /\ txf = <<>>))
=================================================================================
