# Autopilot of a sailing boat: TLA+ models and proofs

The repository is a student project for a Cyclone FPGA (`TP_BE_voilier/`, VHDL and
C): a Nios II soft CPU and three peripherals on its Avalon bus, that read an
anemometer, read a compass and manage the tiller of a sailing boat (three buttons,
three LEDs, a buzzer). Its own logic is in some twenty VHDL files; the rest is generated
by Quartus, Qsys and the BSP editor, or by the simulator. This directory holds
models of that logic, and of the parts of the BSP that have one worth modelling, for TLC,
and theorems about them for TLAPS. Names follow the source, in French.

## Inventory

Paths without a directory are in `TP_BE_voilier/`, those of the drivers in
`software/voilier_bsp/drivers/`, those of the HAL in `software/voilier_bsp/HAL/src/`.

| part | source | state | operations |
|---|---|---|---|
| primitives | `counter.vhd`, `edge_detector.vhd`, `basculeD.vhd`, `registre.vhd` | a counter, a flip-flop, a register | clock edge, asynchronous reset |
| press timer | `gestion_temps_appui_bouton.vhd` (three instances) | count, its enable, its reset, flip-flop, answer `00`/`01`/`10` | clock edge, reset, button |
| bip | `gestion_bip.vhd` (two instances) | latches `activation_bip`, `attente_bip`, `temp_choix_btn`, two counters, two flip-flops | clock edge, reset, answers of the timers |
| state machine | `Machine_etat.vhd` | register `current_st`, latch `next_st` | clock edge, reset, and any change of an input of the latch |
| tiller | `gestion_barre.vhd`, `bus_avalon_f7.vhd` | the above, and the reset register | write of the register, read of the code, reset of the system |
| LEDs | `gestion_leds.vhd` | a second bip, two blink counters, two latches, the latch of the starboard LED | clock edge, reset, buttons, change of mode |
| acquisition machine | `def_etats.vhd` (two instances) | register and latch | clock edge, reset, commands |
| compass | `Conversion_Adaptation.vhd`, `cascadeCompteurs.vhd`, `conversion_degres.vhd`, `bus_avalon.vhd` | counters, three registers, the command register | clock edge, pulse, write |
| anemometer | `ConversionVitesseVent.vhd`, `bus_avalon_f2.vhd` | counter of edges, of the period, two registers, the command register | clock edge, signal, write |
| UART driver | `altera_avalon_jtag_uart_*.c` | two ring buffers, `irq_enable`, `timeout`, `host_inactive` | read, write, close, ioctl; interrupt routine; routine of the alarm |
| UART device | `soc/synthesis/submodules/soc_jtag_uart.v` | two FIFOs, `pause_irq`, `ac`, interrupt enables | access of the processor; character, pause or read of the host |
| alarms | `alt_alarm_start.c`, `alt_tick.c` | counter of ticks, the tick an alarm is due, `rollover` | start, tick |
| descriptors | `alt_open.c`, `alt_close.c`, `alt_ioctl.c`, `alt_fd_lock.c`, `alt_get_fd.c`, ... | lists of devices and file systems, `alt_fd_list`, `alt_max_fd` | registration, redirection of the standard streams, open, close, ioctl |
| software | `software/voilier/hello_world_small.c` | a counter | a chaser; the bus accesses are commented out |
| rest of the BSP, SoC | `software/voilier_bsp/`, `soc/` | generated or vendor code | |

How the parts of the tiller interact: the three timers send their answers, one clock
period long, to the state machine and to the bip; the bip sends the machine whether
it sounds and whether a second bip is due; the rudder buttons reach the machine
directly too, without synchronisation; the machine's state is the code that the
software reads. The LEDs follow the state, the answers of the rudder timers and the
rudder buttons, and give nothing back. The software writes the reset of all of them,
which the system reset clears.

The two sensors share nothing with the tiller. Each has its register of commands
(reset, continuous, start/stop), its acquisition machine, and a chain of registers: the
measure, that of the last period, and the one that the bus shows.

The UART driver is four actors on shared words: the program, its interrupt
routine, the routine that an alarm calls once a second, and a host that fills and
empties the FIFOs of the device when it likes. The routines suspend the program
between any two of its accesses. The device asks for the interrupt routine when its transmit
FIFO is nearly empty, when its receive FIFO is nearly full, or when the host has
paused with characters waiting, not for each character.

What is hard in the VHDL is not the clocked part but the rest. `next_st` (twice), the
latches of the bip and those of the LEDs are transparent: they have no clock, most have no
reset, and what they hold depends on the order in which their inputs move. The
synthesis reports them as unsafe (`output_files/TP_voilier.map.rpt`). Buttons and
resets come at any moment. What is hard in the C is the interleaving of the driver's
actors, the wrap of the counter of ticks, and what failed calls leave behind.
`PROJECT.json` lists these hazards at their lines, with the properties that cover them.

What makes each part correct:

- timer: a press is answered once, at its release, long or short according to its
  length, whatever glitches, presses and resets came before;
- bip: every press is answered by the bips it claims, each of full length, but one answered in the
  very period in which a bip ends;
- machine: the state that it is about to take is a successor of the present one; a
  short press on STBY/AUTO that starts a bip changes the mode, unless a rudder button competes with it, and
  does not change it back; a course change stays readable while its bips last; it comes back to
  rest. A press answered in the very period in which a bip ends starts none, and then the mode
  does change back: the models say so as they find it;
- LEDs: steering by hand is always shown; the standby LED blinks for ever and a flash
  ends, wherever a change of mode froze them;
- sensors: the measure is within one unit of the input; the machine obeys the last
  command and makes one acquisition for a start; no wind reads zero in the end;
- UART driver: no character is lost, doubled or overtaken; nobody sleeps on an
  interrupt that is forbidden; calls end when the host is gone; what was written arrives, and
  what a host that pauses has sent is read;
- alarms: due at a constant number of ticks, across every wrap;
- descriptors: none leaks, whatever failed; a locked device is opened by nobody else.

## Plan

All of it is done.

1. `Composants`, `TempsAppui`, `AppuiBouton`: the timer, alone.
2. `Bip`, `GestionBip`, `BipAbstrait`: the bip, alone, and its promise.
3. `MachineEtat`, `GestionBarre`: the tiller, composed of the above; `BarreAppuis`: the same
   with the history of the presses.
4. `BarreVue`, `GestionLeds`: the LEDs, in the surroundings that the tiller is shown to give.
5. `DefEtats`, `Capteur`: the acquisition machine and both sensors.
6. `Anneau`, `Alarmes`, `JtagUart`: the UART driver on its buffers, its alarm and its device;
   `Canal`, its promise.
7. `Descripteurs`: the file descriptors of the HAL.
8. Proofs about each: types, inductive invariants, the safety of the refinements, and bounds on how
   long each part takes to come to what a liveness property expects.

## Modules

- **Composants**: `Compteur` is `counter.vhd` at an edge; `FrontMontant` and
  `FrontDescendant` are the outputs of `edge_detector.vhd`, given the flip-flop.
- **TempsAppui**: a record per timer, and what an edge (`ChronoHorloge`), the
  asynchronous reset (`ChronoRaz`) and an edge during reset (`ChronoHorlogeRaz`) make
  of it. `Seuil` and `Max` stand for 999999 and 2^27 - 1.
- **AppuiBouton**: one timer, a free button, a reset at any time. `duree` is a
  history variable: the number of consecutive samples of the press.
- **Bip**: a record per bip. `Verrou` is the unclocked process, as the latches settle;
  `BipCompteurs` what the edge clocks. An edge is `BipHorloge`: counters first,
  then the latches in two waves, the answers of the timers (`BipMilieu`) and then the
  ends of the counters (`BipFin`), the order in which these inputs change.
- **GestionBip**: one bip, answers of any origin that last one period. The rigid variable
  `chaud` says whether a started block may be reset again; both cases are checked
  together. **BipAbstrait** is its promise, with neither clock, counter nor latch:
  whether it sounds (`son`) and how many bips are owed (`dus`). `TientPromesse` maps
  `son` to `activation_bip` and `dus` to 2, 1 or 0 according to the latches (`BipsDus`).
- **MachineEtat**: `Decode` is the process of `next_st`; its argument `n` is the value
  the latch keeps when a branch assigns nothing.
- **GestionBarre**: the composition. After an edge the inputs of `next_st` settle in four
  stages: new state, then new answers, then the bip they start, then the bips that
  end. VHDL semantics evaluates the latch at each (delta cycles); a circuit may
  miss any of the first three, which last a few nanoseconds. `Glitches` is the
  set of the sets of stages that may be caught: `Simulation` is all three, `Circuit`
  any of them, chosen anew at each edge. A theorem that mentions `Spec` alone holds for
  every such choice. `Bouton` moves a button between two edges; `EcritRaz` is a write
  of 0 to the reset register (it comes with an edge), `RazSysteme` the asynchronous
  reset of the system, `HorlogeEnRaz` an edge during reset, at which the software may
  write 1. `RazAChaud` says whether a started block may be reset again.
- **BarreAppuis** adds to the tiller the history variable that AppuiBouton has, one `duree` per button,
  so as to speak of a press from the button to the course (`PressionObeie`). Each of its
  timers is an instance of AppuiBouton (`EntoureLesChronos`).
- **BarreVue** is the tiller as its LEDs see it: reset, rudder buttons, answers, state and
  latch, with timers and bip left out. `GestionBarre` implements it (`EntoureLesLeds`),
  as it gives its bip the surroundings of GestionBip (`EntoureLeBip`).
- **GestionLeds** composes `gestion_leds.vhd` with that view. `l` is its second gestion_bip, enabled
  by the mode: with the enable low the latches are frozen while counters and edge detectors run on.
  `c` is the blinking, whose two latches heed their inputs in standby only. At a change of mode the
  enable and these inputs race, and the model takes either order, for an enable that rises (the
  latches may catch the end or the answer of the period that ends) as for one that falls (they may
  catch those of the period that begins): `LedHorloge`, `ClignoteHorloge`.
- **DefEtats** is `def_etats.vhd`, as MachineEtat is the other machine. **Capteur** is
  one step per edge of the clock, for either sensor (`capteur`), with free input, free
  writes of the processor and resets, that of the system, which clears the command
  register without a clock, among them. `vrai` is what the measure under way should be;
  `depuis` and `faites` count edges since the last write and acquisitions since
  the last change of command.
- **Alarmes**: starting an alarm and a tick of it, modulo `Tours` (2^32).
  **Anneau**: the indices of a ring buffer and what each side may move without wrapping.
- **JtagUart**: the program's calls cut at each access to what the routines change (`pc`), the
  interrupt routine cut at each character (`isr`), `Tick` for `alt_tick` with its callback, the
  device as `soc_jtag_uart.v` has it, and the host. Of the device: two FIFOs (`txf`, `rxf`) of
  depths `ProfondeurTx` and `ProfondeurRx`, the lines `RI` (`ipen_AF`: the host paused, or no more
  than `SeuilRx` places are left) and `WI` (`ipen_AE`: no more than `SeuilTx` characters are left),
  `pause` (`pause_irq`, set by a pause with characters waiting and cleared by any read of the data
  register) and `ac` (`activity`, set by a character or a pause of the host, not by its reading).
  `IrqCroise` is the read that finds the FIFO empty in the period in which a character comes: its
  valid bit is of before and its count of after, so the routine forbids its interrupt with place in
  the buffer. It does no harm: a routine that finds the FIFO empty has taken a character from it
  that the program has not seen yet, and the read() that takes it allows the interrupt again
  (`Reveils`). That `fifo_AE` and `fifo_AF` are registered, one period late, is less than an access
  of the processor takes and is left out. `lu` is the index that a call read and still uses; `place`
  the room that the control register announced. `host_inactive` is not volatile: `vu` is the value
  that a build has read before a waiting loop, or RELU if it reads at each turn; `Regarde` lets each
  call be either. Characters are numbers modulo `Numeros`. **Canal** is what each direction
  promises: a bounded queue of numbered characters, in which some enter and some leave. `Sortie` and
  `Entree` map it to buffer and FIFO together, so that `Canaux` sees neither indices nor interrupts.
- **Descripteurs**: a name is the sequence of its components, a device its name, a file
  system its mount point. `alt_main` registers devices and file systems, some or all, in any order,
  then redirects the three standard streams; then one program calls. The answers of the
  drivers' own open() are free. `tenus` is what the program holds.
- **MCGestionBarre**, **MCBarreAppuis**, **MCDescripteurs** give constants their values for TLC.
- `Bip_lemmes`, `*_proofs`: the theorems.

A definition headed "Slip" is a plausible error in the definition that follows
it. Each property of each passing run has been seen to fail with one of them
(`PROJECT.json`, "mutants").

Registers that the source leaves uninitialised start at 0, as the FPGA loads them.
The flip-flop of a button samples one value per edge: metastability is not modelled.

## Runs

| run | configuration | shows |
|---|---|---|
| appui | threshold 6, 4-bit counter | the timer's properties and its inductive invariant, types included, with resets and glitches |
| appui_long | threshold 4, 3-bit counter | refuted: a press beyond the counter stays long (`LongMemeAuDela`) |
| bip | bip 3, silence 2 periods, `chaud` or not | full bips and silences with resets at any time; without, a due second bip is on its way and the bip implements BipAbstrait, liveness included |
| barre | STBY/AUTO and starboard with the history of their presses, threshold 5, simulator's stages, no warm reset | the latch holds a successor of the state; a short press on STBY/AUTO that starts a bip leaves it pointing to the other mode, but for two rivals (below); one that starts none is cancelled (`BasculeAnnulee`); a press made alone is obeyed according to its length, from the button to the mode, the course change and the bips |
| barre_circuit | STBY/AUTO and port, any stages, warm resets | inductive invariant, types included; a press does not change the mode back, unless answered as a bip ends; a course change is held; the block comes to rest when the buttons do, but for a course change that a reset in a double bip leaves waiting; bip and LEDs live in the surroundings that their modules assume |
| raz_tiede | two buttons, warm resets | refuted: a reset puts the machine in standby (`RazMetEnVeille`) |
| silence | two buttons | refuted: a change of mode is accompanied by a bip (`ConfirmationSonore`) |
| leds | flash 3, dark 2 periods, warm resets | manual steering is shown; blinking and flash are never left half-way; the one goes on for ever, the other ends |
| capteurs | both sensors, 3 edges in a microsecond, 8 in a period | the measure is exact to one unit, the heading to one degree; a start makes one acquisition; no wind reads zero |
| uart | buffers of 3, transmit FIFO of 1, receive FIFO of 2, thresholds 0, 3 ticks in a wrap | no character lost, doubled or overtaken; each direction is a bounded channel; interrupts allowed when needed, and a sleeping call woken; the alarm punctual; calls end; a read() served by a host that pauses in the end; delivery |
| descripteurs | 6 descriptors, 2 devices, 2 nested mount points | no leak; locks shared as far as the code lets them; no open of a locked device |
| verrou | 4 descriptors | refuted: a granted lock is exclusive (`VerrouSeul`) |

**Bounds.** For the tiller the source counts to 999999, 499999 and 249999 on 27, 26 and
21 bits; the models count to 2..6, 2..3 and 1..2 on 1 to 4 bits. What the behaviour
depends on is the order of the ends (a silence is shorter than a bip, a threshold below the
maximum) and room for every coincidence: a press that ends before, with and after
a bip or a silence, a counter that overflows. A bip of three periods and a silence of
two give each. Each run has two
of the three buttons, STBY/AUTO and a rudder button, port in one and starboard in the other: the
rudder buttons play the same part. In barre a threshold of 5 on three bits leaves
short and long presses on either side of the two lengths that `Nette` leaves out,
and gives 137 000 states; in barre_circuit the threshold is the least (2), to leave room for
the stages and the resets. For the LEDs a flash may
outlast a stay in standby or the reverse.

For the sensors, three edges in a microsecond make its phase matter, and `MaxTemps` is five
units, of which the first (`Base`) is the heading zero, two
(`Pas`) are a degree and three degrees (`Cap`) the full turn, so that a pulse may fall inside a degree and
at its ends; `Mesurable` bounds the input to what the counters can tell (37 ms, 250 turns a
second). `Ecart` is the least number of edges between two writes of the processor, 4
here, where each instruction takes six; `Delai`, the edges that the acquisition machine
is given, is 4 too. `faites` stops at 2: one acquisition or too many.

For the driver, a buffer of three places wraps, fills and empties within two calls of at most
`Demande` = 2 characters; a transmit FIFO of one is full as soon as it is not empty, the hardest
case for the room announced. A receive FIFO of two, with a threshold of 0, is the least that has a
character waiting without being almost full, so that a character may raise no interrupt: with one,
`pause` would never matter. A wrap of three ticks is the least in which an alarm of one tick (due
after two the first time) can fall before and after it. `Numeros` = 6 exceeds the characters on
their way (two in a buffer, two in a FIFO at most), so that a lost or repeated one shows. `INT_MAX`
= 4 keeps apart no timeout, a reachable one and one that the counter of seconds cannot reach. For
descriptors, three beyond the standard streams allow a lower one to be freed below a higher one.
`MaxFd` is 4 on this board (`system.h:256`), as in verrou; the run descripteurs has room for more.
All runs are exhaustive. The proofs have no bounds at all.

**Fairness.** The oscillator never stops: `WF(Horloge)` in the tiller, `WF_c(Coup)` in
GestionLeds (an edge of the clock out of reset, seen from the blinking, which
every such edge moves), `WF(Next)` in Capteur, a step of which is an edge. In JtagUart the
processor runs (`WF(Programme)`, `WF(Irq)`) and the system clock ticks (`WF(Tick)`); a new
call is never forced. No fairness is asked of buttons, software, reset, inputs or host.
Hypotheses are in the statements instead: `RetourAuCalme` assumes that the buttons are
eventually left alone; without it a crew that keeps pressing keeps the bip sounding.
`Clignote`, `FlashFini` and `VentNul` assume that the mode or the command eventually
stays. `Livraison` assumes a host that takes what is there. `FinSansHote` assumes a
host silent for ever, builds that read `host_inactive` at each turn of a
loop, and a timeout that the counter can reach: without the second, a call
waits for ever on the value read once. `LectureServie` holds for every build; it assumes that the host
again and again pauses or has nothing waiting. A host that sends a character after the last
read of the interrupt routine and never pauses again leaves it in the FIFO
without an interrupt (`soc_jtag_uart.v:437-449`), and a read() asleep beside it. No more than that is asked
of the host: it may stop at any time, with a full FIFO or in the middle of a call. A software that never
writes 1 to the reset register leaves the tiller at rest in reset.

**Refutations.** The counter of a press clears its enable one period after its maximum, when it has
wrapped: the comments at `gestion_temps_appui_bouton.vhd:19` and `:53` expect it to stop (in the
source, a press of more than 2.7 s). The reset clears the state but not the latch `next_st`: reset
in automatic mode, the machine is back in automatic mode one period after the reset. A short press
on STBY/AUTO answered in the period in which a bip ends changes the mode silently, which p. 30 of
`Rapport voilier.pdf` excludes. The mode does not keep: one period later the first stage of the
latch decodes the same answer in the new mode, again without a bip to close its guard, and the mode
is changed back (`BasculeAnnulee`), so that the press is lost. `alt_fd_lock.c:61` looks at the
descriptors below `alt_max_fd`, itself the highest in use, and so grants a lock on a device that
this one has open, which its comment at `:43` excludes; the loop of `alt_open.c:79` goes one
further. `Verrous` says what is left of it: the lock is shared with one other descriptor at most.

## Proofs

All are for every value of the constants, under the assumptions that the modules name:
`SeuilAssumption` (a positive threshold not above the maximum), `BipAssumption` (0 <
silence < bip, both within their counters), `BarreAssumption` (types), `CapteurAssumption` (periods
within their counters, `Ecart` and `Delai` at least 4), `TailleAssumption` and `UartAssumption` (sizes
of buffers, thresholds below the depths of the FIFOs, timeouts in order), `ToursAssumption`
(a wrap of more than two ticks), `DescripteursAssumption` (room for the
three standard streams, devices and mount points apart).

- **AppuiBouton_proofs.** `InvAppui` relates the counter to the number of samples: at most one
  period too many (a glitch leaves one), at most two too few (the reset that follows a release), and
  includes the types. `SansReste` alone is not inductive, since it says nothing of a press under
  way, of the delayed enable nor of the reset in progress. From it: every press of three samples
  that fits the counter is answered (`ToutePressionEntendue`), the answer tells long from short
  within two periods (`ClassementFidele`), no answer without a release (`ReponsesJustifiees`).
- **Bip_lemmes, GestionBip_proofs.** That a bip and a silence run their full time
  (`BipPlein`) rests on their never ending together, which `BipLie` ensures: a bip
  claimed during the silence started after it, and is longer. `HorlogeSaine` shows both
  preserved by an edge, `RazSaine` by either reset. `SecondBipJamaisOublie` and
  `TientPromesseEtapes` (the safety of the refinement: initial state and every step)
  are for a block never reset once started (`~chaud`), the condition without
  which TLC refutes the former.
- **GestionBarre_proofs.** `InvBarre` adds to the types and to the bip's invariant that a block in
  reset is in standby without answers, and that a course change whose end has been decoded has no
  silence or second bip to wait for. From it `CommandeToujoursTenue`, and `BarreEntoureLeBip`: the
  tiller gives its bip the surroundings of GestionBip.tla, so the results about the latter hold in
  the tiller. `BasculeToujoursUnique` rests on `AppuiSonne`: while the answer of a press on
  STBY/AUTO stands, a bip sounds, which closes the guard `activation_bip = 0` in the new mode,
  unless a bip ended in the very period of the answer (`FinUn`). This is its one exception, in the
  period that follows the answer; `BasculeToujoursAnnulee` says what comes of it when the latch
  catches the first stage (`\A g \in Glitches : 1 \in g`): the latch points back to the mode that
  the press left. `BarreEntoureLesLeds` adds `Pose`: between two steps the latch has settled, it is
  what `Decode` makes of it. Each of the four stages of an edge then moves it within what BarreVue
  allows (`EtageVue`), caught or missed. These hold with warm resets and any stages, but for the
  assumption just named. `BasculeToujoursEntendue`: a short press on STBY/AUTO that starts a bip, in
  a hub of the diagram, leaves the latch pointing to the other *mode* (`Bascule`), not only to
  another state, and nothing that moves before the next edge undoes it. It names two rivals that do
  win against the press: a rudder button answered at the same edge in automatic mode, whose branch
  comes later in the process once the bip has closed the guard (`Machine_etat.vhd:44-51`), and a
  rudder button down in the period of the answer in standby (34-37). Both are left out by
  `SansRival`. The third way to lose a press, an answer as a bip ends, starts no bip and is that of
  `BasculeAnnulee`. The theorem assumes that the latch always catches the second stage (answers
  there, bip not yet), which VHDL semantics grants and a circuit need not: without it TLC refutes
  the property, and the press is not obeyed. `SuccesseurToujoursPret` and `DiagrammeSuivi` assume
  `~RazAChaud`; the refutation raz_tiede shows why. Three results speak of the whole block:
  - `BarreEntoureLesChronos`: with the history of the presses, each timer is a behaviour of AppuiBouton,
    so the results about one timer hold of the three in the tiller.
  - `PressionToujoursObeie` joins the three components: `CompteDe`, the relation of a timer's count
    to its press as in InvAppui, gives the class of the answer (`ReponsesAuRelachement`),
    `OrdreDecode` what the latch makes of it at the stage at which the answer is there and the bip
    is not, `BipCommence` the bip that begins. It holds whatever happened before, warm resets
    included, under the assumption of `BasculeToujoursEntendue` (`\A g \in Glitches : 2 \in g`). A
    press in the two periods after the threshold, during a bip, or together with another is left out
    of it.
  - `RetourBorne`: `Attente` counts the edges until the block is silent in a hub of its diagram. It
    is at most `2 * UneSec + DemiSec + 4`, and while no button is pressed every edge lowers it. The
    exception, `Orphelin`, is a second bip that a reset in a double bip left due and that nothing is
    about to sound; `~RazAChaud` excludes it, which the invariant shows.
- **GestionLeds_proofs.** `InvLeds`: a counter stands at zero or at its end
  unless its latch is up, in the flash as in the blinking, whatever the mode and the reset did
  to the latches. `BarreToujoursMontree` needs more: `InvMontree` adds that starboard
  steering is on its way from standby only and never while port is down, so that the latch of the
  starboard LED has let its button through. `RythmeTenu` gives the rhythm of the standby LED to the edge:
  `Phase` is what is left of a light or of a dark, it loses one at each edge in standby, and the other
  begins in full when it is over; only the first after automatic mode may last an edge more, or be cut.
  `FlashToujoursFini` bounds the flash by `2 * UneSec + DemiSec + 2` edges, wherever a stay in
  standby froze it.
- **Capteur_proofs.** `MesureJuste` is inductive once the counter is known not to overflow
  (`Mesure`): no more is counted than the pulse, or the edges, that there were. `CommandesSuivies`
  rests on `Machine`, which says for each number of edges since the last write how far the
  acquisition machine and its latch can be, whatever they were before. `CapToujoursJuste` takes
  `MesureJuste` to the register: for a pulse of `Base` units or more the subtraction does not wrap,
  and the heading is that of the length rounded down or up to a microsecond, hence one degree too
  many at most (`CapAUnDegrePres`, by the division with remainder). `VentRetombe`: `Rang`, at most
  two periods and an edge, is lowered by every edge without wind, and at 0 the register is 0.
- **JtagUart_proofs.** `Reveils` is inductive with the types, in two parts: `Interruptions` (an
  interrupt is forbidden only when it has nothing to move, or a call is about to allow it) and
  `Sommeil` (a call that waits for an index that has not moved waits for a buffer full, or empty,
  indeed, with its interrupt allowed). They rest on `Lecture`: `pause` stands only over characters
  that wait, and a routine that finds the device empty has taken something that the program has not
  seen, so it forbids its interrupt, as in `IrqCroise`, with something left to read. `Attente` says
  that an alarm always has between 1 and `ParSeconde` + 1 ticks to wait, from which
  `AlarmePonctuelle` follows across wraps. `Fidele` needs what the actors believe of one another: an
  index read by the program is behind the real one (`TxAncien`, `RxAncien`), so that room or
  contents are only ever underestimated, and the room that the control register announced to the
  interrupt routine is still there (`Emission`), so that the device drops nothing. `DeuxCanaux` is
  the refinement: what is in buffer and FIFO is a series of consecutive numbers (`EnSeries`), so a
  step that lengthens it at the end, or shortens it at the head, is one of Canal, and any other
  leaves it as it was; its length never exceeds both capacities. `PatienceBornee`: a silent host has
  at most `timeout` periods of the alarm and one tick, and nothing but a sign of the host or an
  ioctl() gives time back. `LivraisonBornee`: `Retard`, two for a character in the buffer and one
  for a character in the FIFO, is lowered by each step of the routine or of the host, and only
  write() raises it; while it is positive, one of them is due.
- **Descripteurs_proofs.** `SansFuite` and `Verrous` are inductive with `Couvre`: the high water
  mark, though closes and failed opens never lower it, is not below any allocated
  descriptor outside the standard streams nor below any lock. `OuvertureRefusee` follows.

Model-checked only: liveness, which is out of the prover's reach. What each of these
properties needs besides fairness is proved, most often a bound on the number of steps:

| property | what is proved of it |
|---|---|
| `RetourAuCalme` | `RetourBorne` |
| `Clignote`, `FlashFini` | `RythmeTenu`, `FlashToujoursFini` |
| `VentNul` | `VentRetombe` |
| `FinSansHote` | `PatienceBornee`: the loop may end; that it is run is fairness |
| `LectureServie` | `Reveils`: the interrupt that wakes the call is allowed |
| `Livraison` | `LivraisonBornee` |
| `TientPromesse` | `TientPromesseEtapes`, all but its fairness |

## Not modelled

- The 4-bit code of the states and its read by the bus, `data_valid`, `out_1s`:
  functions of the state that no property is about. The refresh constants of the sensors
  (5000000 and 500000 edges, 100 ms and 10 ms, where comments speak of a second) are parameters.
  Metastability and glitches other than those of the stages above.
- This board's BSP is built with the small JTAG UART driver (`public.mk:215`) and with direct
  drivers (`public.mk:195`), which read and write the device by polling and have no
  descriptors. The interrupt-driven driver and the descriptors are the code that the same
  sources give without these two options. Of it: the variants for an operating system, that
  for `ALTERA_AVALON_JTAG_UART_IGNORE_FIFO_FULL_ERROR`, calls of a count of zero,
  `alt_alarm_stop` and lists of several alarms, and read, write, lseek, fstat and
  fcntl on descriptors, which change neither list nor lock. One program calls open, close and ioctl:
  without an operating system there is no other.
- The rest of the BSP (stubs of the C library, cache, DMA and flash layers without a device here,
  profiling, logging, exception entry) and its headers are most of the C in the
  repository: vendor code, much of it empty or one call long, with no state of its own. So the models
  cover nearly all of the project's VHDL and a small share of its C.
- The application software, a chaser: its bus accesses are commented out, and what it may write to
  the registers of the peripherals is in their models. CPU and interconnect are generated, as is the
  JTAG UART, which is modelled because its driver cannot be understood without it; of it the bus
  cycle, the memories of the FIFOs and the JTAG side (`alt_jtag_atlantic`) are left out. Test
  benches hold stimuli and no assertion. The `.bak` files are former versions of the sources.
