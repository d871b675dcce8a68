------------------------------ MODULE Descripteurs ------------------------------
(***************************************************************************)
(* The file descriptors of the HAL, where it is built with them: the lists *)
(* of devices and file systems, the pool of descriptors and its high water *)
(* mark, the redirection of the standard streams by alt_main, and open(),  *)
(* close() and ioctl() as one program calls them.  A name is the sequence  *)
(* of its components; a device is its name, a file system its mount point. *)
(***************************************************************************)
EXTENDS Integers, Sequences, SequencesExt

CONSTANTS
    MaxFd,           \* ALT_MAX_FD
    Nul,             \* "/dev/null", registered and open from the start
    Peripheriques,   \* the devices that alt_sys_init registers
    Montages,        \* the file systems that it registers
    Noms,            \* the names that the program opens
    StdOut, StdIn, StdErr   \* the names in system.h

AUCUN == <<>>        \* no device: a null pointer

ASSUME DescripteursAssumption ==
    /\ MaxFd \in Nat /\ 2 < MaxFd
    /\ Peripheriques \cap Montages = {} /\ Nul \notin Montages
    /\ AUCUN \notin Peripheriques \cup Montages \cup {Nul}

VARIABLES
    phase,   \* how far alt_main is
    devs,    \* the devices of alt_dev_list, searched by their whole name
    fss,     \* alt_fs_list from its head
    fd,      \* alt_fd_list: the device, and the flags ALT_FD_DEV and ALT_FD_EXCL
    maxfd,   \* alt_max_fd
    tenus    \* the descriptors that open() gave the program and that it has not closed

vars == <<phase, devs, fss, fd, maxfd, tenus>>

Fds    == 0..(MaxFd - 1)
Std    == 0..2
Libre  == [dev |-> AUCUN, peri |-> FALSE, excl |-> FALSE]

Init ==
    /\ phase = "alt_sys_init"
    /\ devs = {Nul} /\ fss = <<>>
    /\ fd = [i \in Fds |-> IF i \in Std THEN [Libre EXCEPT !.dev = Nul] ELSE Libre]
    /\ maxfd = -1
    /\ tenus = {}

---------------------------------------------------------------------------------
\* alt_find_file: the first file system of the list whose mount point is a prefix.
AltFindFile(nom) ==
    LET ks == {k \in 1..Len(fss) : IsPrefix(fss[k], nom)}
    IN  IF ks = {} THEN AUCUN ELSE fss[CHOOSE k \in ks : \A j \in ks : k <= j]

\* A device of that name, or a file system that contains it.
Trouve(nom) == IF nom \in devs THEN nom ELSE AltFindFile(nom)

\* alt_get_fd for what the name designates: the first free descriptor, or -1 (no free
\* one, or no device to ask one for).
AltGetFd(nom) ==
    LET libres == {i \in Fds : fd[i].dev = AUCUN}
    IN  IF Trouve(nom) = AUCUN \/ libres = {} THEN -1
        ELSE CHOOSE i \in libres : \A j \in libres : i <= j

\* Slip: the mark is that of the last descriptor allocated.
MarqueDernier(nom) == IF AltGetFd(nom) >= 0 THEN AltGetFd(nom) ELSE maxfd

\* The high water mark once alt_get_fd has returned; it stays if the open then fails.
Marque(nom) == IF AltGetFd(nom) > maxfd THEN AltGetFd(nom) ELSE maxfd

\* alt_file_locked: the descriptors up to the mark, but the new one, that hold the device.
AltFileLocked(nom) ==
    \E i \in 0..Marque(nom) : i # AltGetFd(nom) /\ fd[i].dev = Trouve(nom) /\ fd[i].excl

\* What open() returns, ok being the answer of the driver's own open().
AltOpen(nom, ok) ==
    IF ok /\ (nom \in devs => ~AltFileLocked(nom)) THEN AltGetFd(nom) ELSE -1

\* The descriptor that an open() leaves when it succeeds.
Ouvert(nom) == [dev |-> Trouve(nom), peri |-> nom \in devs, excl |-> FALSE]

\* Slip: a standard stream is given back like the others.
LibereStd(i) == [fd EXCEPT ![i] = Libre]

\* alt_release_fd: the standard streams are never given back.
AltReleaseFd(i) == IF i \in Std THEN fd ELSE [fd EXCEPT ![i] = Libre]

---------------------------------------------------------------------------------
\* alt_sys_init registers devices and file systems, some of them or all, in any order,
\* each at the head of its list.
AltDevReg(d) ==
    /\ phase = "alt_sys_init" /\ d \notin devs
    /\ devs' = devs \cup {d}
    /\ UNCHANGED <<phase, fss, fd, maxfd, tenus>>

AltFsReg(m) ==
    /\ phase = "alt_sys_init" /\ \A k \in 1..Len(fss) : fss[k] # m
    /\ fss' = <<m>> \o fss
    /\ UNCHANGED <<phase, devs, fd, maxfd, tenus>>

AltSysInitFin ==
    /\ phase = "alt_sys_init" /\ phase' = "stdout"
    /\ UNCHANGED <<devs, fss, fd, maxfd, tenus>>

\* Slip: the descriptor that served to open the device is not given back.
OuvreFdGarde(de, vers, s, nom) ==
    \E ok \in BOOLEAN :
        LET old == AltOpen(nom, ok)
        IN  /\ phase = de /\ phase' = vers
            /\ fd' = IF old < 0 THEN fd
                     ELSE [fd EXCEPT ![s] = Ouvert(nom), ![old] = Ouvert(nom)]
            /\ maxfd' = Marque(nom)
            /\ UNCHANGED <<devs, fss, tenus>>

\* alt_open_fd: the device is opened on a descriptor that is copied and given back; if
\* it cannot be, the stream stays on /dev/null.
AltOpenFd(de, vers, s, nom) ==
    \E ok \in BOOLEAN :
        /\ phase = de /\ phase' = vers
        /\ fd' = IF AltOpen(nom, ok) < 0 THEN fd ELSE [fd EXCEPT ![s] = Ouvert(nom)]
        /\ maxfd' = Marque(nom)
        /\ UNCHANGED <<devs, fss, tenus>>

AltIoRedirect == \/ AltOpenFd("stdout", "stdin", 1, StdOut)
                 \/ AltOpenFd("stdin", "stderr", 0, StdIn)
                 \/ AltOpenFd("stderr", "main", 2, StdErr)

---------------------------------------------------------------------------------
\* The program.  An open() that fails gives back what it had allocated.
Open(nom, ok) ==
    LET i == AltOpen(nom, ok)
    IN  /\ phase = "main"
        /\ fd' = IF i < 0 THEN fd ELSE [fd EXCEPT ![i] = Ouvert(nom)]
        /\ tenus' = IF i < 0 THEN tenus ELSE tenus \cup {i}
        /\ maxfd' = Marque(nom)
        /\ UNCHANGED <<phase, devs, fss>>

\* Whatever the driver's own close() answers.
Close(i) ==
    /\ phase = "main"
    /\ fd' = AltReleaseFd(i)
    /\ tenus' = tenus \ {i}
    /\ UNCHANGED <<phase, devs, fss, maxfd>>

\* Slip: the standard streams, always open, do not count.
VerrouSansStd(i) == \A j \in 3..(maxfd - 1) : j # i => fd[j].dev # fd[i].dev

\* alt_fd_lock looks at the descriptors below the mark only.
AltFdLock(i) == \A j \in 0..(maxfd - 1) : j # i => fd[j].dev # fd[i].dev

\* ioctl(TIOCEXCL) and ioctl(TIOCNXCL), which a file system gets itself.
IoctlExcl(i) ==
    /\ phase = "main" /\ fd[i].peri /\ AltFdLock(i)
    /\ fd' = [fd EXCEPT ![i].excl = TRUE]
    /\ UNCHANGED <<phase, devs, fss, maxfd, tenus>>

IoctlNxcl(i) ==
    /\ phase = "main" /\ fd[i].peri
    /\ fd' = [fd EXCEPT ![i].excl = FALSE]
    /\ UNCHANGED <<phase, devs, fss, maxfd, tenus>>

Programme == \/ \E nom \in Noms, ok \in BOOLEAN : Open(nom, ok)
             \/ \E i \in tenus \cup Std : Close(i) \/ IoctlExcl(i) \/ IoctlNxcl(i)

Next == \/ \E d \in Peripheriques : AltDevReg(d)
        \/ \E m \in Montages : AltFsReg(m)
        \/ AltSysInitFin \/ AltIoRedirect \/ Programme

Spec == Init /\ [][Next]_vars

---------------------------------------------------------------------------------
\* The standard streams always have a device, if only /dev/null.
TypeOK ==
    /\ phase \in {"alt_sys_init", "stdout", "stdin", "stderr", "main"}
    /\ devs \subseteq Peripheriques \cup {Nul}
    /\ fss \in Seq(Montages)
    /\ fd \in [Fds -> [dev : {AUCUN, Nul} \cup Peripheriques \cup Montages,
                       peri : BOOLEAN, excl : BOOLEAN]]
    /\ \A i \in Std : fd[i].dev # AUCUN
    /\ maxfd \in {-1} \cup Fds
    /\ tenus \subseteq Fds

\* Outside the standard streams a descriptor is allocated exactly when the program
\* holds it: the redirection, and an open() refused for want
\* of the device, by a lock or by the driver, leave nothing behind (alt_open.c:161).
SansFuite == \A i \in Fds \ Std : fd[i].dev # AUCUN <=> i \in tenus

\* A lock is on a device, below or at the mark that open() searches to, and is shared
\* with one other descriptor at most: alt_fd_lock leaves one unexamined (alt_fd_lock.c:61).
Verrous ==
    \A i \in Fds : fd[i].excl =>
        /\ fd[i].peri /\ i <= maxfd
        /\ \A j, k \in Fds \ {i} : fd[j].dev = fd[i].dev /\ fd[k].dev = fd[i].dev => j = k

\* No open() gives a descriptor of a device that another one has locked, whatever was
\* opened, closed, locked and refused before (alt_open.c:79).
OuvertureRefusee ==
    [][\A i \in tenus' \ tenus : fd'[i].peri =>
          \A j \in Fds : fd[j].dev = fd'[i].dev => ~fd[j].excl]_vars

\* "If there are no other open file descriptors which reference the same device, then
\* alt_fd_lock() will grant the lock" (alt_fd_lock.c:43): a lock is then exclusive.
VerrouSeul ==
    \A i, j \in Fds : fd[i].excl /\ i # j => fd[j].dev # fd[i].dev
=================================================================================
