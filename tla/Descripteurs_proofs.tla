--------------------------- MODULE Descripteurs_proofs ---------------------------
(***************************************************************************)
(* For every number of descriptors, set of devices and list of mount       *)
(* points: no descriptor is lost, a lock is shared with one descriptor at  *)
(* most, and no open() gets round it.                                      *)
(***************************************************************************)
EXTENDS Descripteurs, WellFoundedInduction, TLAPS

\* The high water mark covers what is allocated, and the standard streams once one of
\* them is a device; there is no lock before main().
Couvre ==
    /\ \A i \in Fds \ Std : fd[i].dev # AUCUN => i <= maxfd
    /\ \A i \in Fds : fd[i].peri => 2 <= maxfd /\ fd[i].dev \in devs
    /\ \A i \in Fds : fd[i].excl => phase = "main"
    /\ AUCUN \notin devs

IInv == TypeOK /\ SansFuite /\ Verrous /\ Couvre

\* A set of natural numbers that is not empty has a least element.
LEMMA PlusPetit ==
    ASSUME NEW S \in SUBSET Nat, S # {}
    PROVE  \E k \in S : \A j \in S : k <= j
<1>1. PICK k \in S : \A j \in S : ~(<<j, k>> \in OpToRel(<, Nat))
  BY NatLessThanWellFounded, WFMin
<1>2. ASSUME NEW j \in S PROVE k <= j
  <2>1. ~(<<j, k>> \in OpToRel(<, Nat))
    BY <1>1
  <2>2. ~(j < k)
    BY <2>1 DEF OpToRel
  <2> QED BY <2>2
<1> QED BY <1>2

\* What a name designates is no device at all or one that is registered.
LEMMA TrouveType ==
    ASSUME TypeOK, NEW nom
    PROVE  /\ Trouve(nom) \in {AUCUN} \cup devs \cup Montages
           /\ nom \notin devs => Trouve(nom) \in {AUCUN} \cup Montages
<1>1. fss \in Seq(Montages)
  BY DEF TypeOK
<1>2. \A k \in 1..Len(fss) : fss[k] \in Montages
  BY <1>1
<1>3. AltFindFile(nom) \in {AUCUN} \cup Montages
  <2> DEFINE ks == {k \in 1..Len(fss) : IsPrefix(fss[k], nom)}
             c  == CHOOSE k \in ks : \A j \in ks : k <= j
  <2>1. CASE ks = {}
    BY <2>1 DEF AltFindFile
  <2>2. CASE ks # {}
    <3>1. AltFindFile(nom) = fss[c]
      BY <2>2 DEF AltFindFile
    <3>2. ks \subseteq Nat /\ ks # {}
      BY <2>2
    <3>3. \E k \in ks : \A j \in ks : k <= j
      BY <3>2, PlusPetit
    <3>4. c \in ks
      BY <3>3
    <3> QED BY <3>1, <3>4, <1>2
  <2> QED BY <2>1, <2>2
<1> QED BY <1>3 DEF Trouve

\* alt_get_fd returns a descriptor that is free, none of the standard streams, or -1.
LEMMA AltGetFdType ==
    ASSUME TypeOK, NEW nom, AltGetFd(nom) # -1
    PROVE  /\ AltGetFd(nom) \in Fds \ Std
           /\ fd[AltGetFd(nom)].dev = AUCUN
           /\ Trouve(nom) # AUCUN
<1> DEFINE libres == {i \in Fds : fd[i].dev = AUCUN}
           c      == CHOOSE i \in libres : \A j \in libres : i <= j
<1>1. Trouve(nom) # AUCUN /\ libres # {}
  BY DEF AltGetFd
<1>2. AltGetFd(nom) = c
  BY <1>1 DEF AltGetFd
<1>3. libres \subseteq Nat
  BY DescripteursAssumption DEF Fds
<1>4. \E i \in libres : \A j \in libres : i <= j
  BY <1>1, <1>3, PlusPetit
<1>5. c \in libres
  BY <1>4
<1>6. libres \cap Std = {}
  BY DEF TypeOK
<1> QED BY <1>1, <1>2, <1>5, <1>6

\* The mark never falls and covers what alt_get_fd returns.
LEMMA MarqueType ==
    ASSUME TypeOK, NEW nom
    PROVE  /\ Marque(nom) \in {-1} \cup Fds
           /\ maxfd <= Marque(nom)
           /\ AltGetFd(nom) <= Marque(nom)
<1>1. maxfd \in {-1} \cup Fds
  BY DEF TypeOK
<1>2. AltGetFd(nom) = -1 \/ AltGetFd(nom) \in Fds
  BY AltGetFdType
<1>3. Fds \subseteq Nat
  BY DescripteursAssumption DEF Fds
<1>4. AltGetFd(nom) \in Int /\ maxfd \in Int
  <2>1. \A n \in {-1} \cup Fds : n \in Int
    BY <1>3
  <2>2. AltGetFd(nom) \in {-1} \cup Fds
    BY <1>2
  <2> QED BY <1>1, <2>1, <2>2
<1>5. CASE AltGetFd(nom) > maxfd
  <2>1. Marque(nom) = AltGetFd(nom)
    BY <1>5 DEF Marque
  <2> QED BY <2>1, <1>1, <1>2, <1>4, <1>5
<1>6. CASE ~(AltGetFd(nom) > maxfd)
  <2>1. Marque(nom) = maxfd
    BY <1>6 DEF Marque
  <2> QED BY <2>1, <1>1, <1>4, <1>6
<1> QED BY <1>5, <1>6

\* An open() that finds a peripheral finds one of the list.
LEMMA OuvertPeri == ASSUME NEW nom, Ouvert(nom).peri PROVE Ouvert(nom).dev \in devs
  BY DEF Ouvert, Trouve

\* An open() that succeeds: a free descriptor, of what the name designates, on which no
\* other one has a lock.
LEMMA OuvertureReussie ==
    ASSUME IInv, NEW nom, NEW ok \in BOOLEAN, ~(AltOpen(nom, ok) < 0)
    PROVE  /\ AltOpen(nom, ok) = AltGetFd(nom)
           /\ AltGetFd(nom) \in Fds \ Std
           /\ fd[AltGetFd(nom)].dev = AUCUN
           /\ Ouvert(nom) \in [dev : {Nul} \cup Peripheriques \cup Montages,
                               peri : BOOLEAN, excl : BOOLEAN]
           /\ Ouvert(nom).dev # AUCUN
           /\ nom \in devs => \A j \in Fds : fd[j].dev = Trouve(nom) => ~fd[j].excl
<1>1. AltOpen(nom, ok) = AltGetFd(nom) /\ AltGetFd(nom) # -1
  BY DEF AltOpen
<1>2. TypeOK
  BY DEF IInv
<1>3. AltGetFd(nom) \in Fds \ Std /\ fd[AltGetFd(nom)].dev = AUCUN /\ Trouve(nom) # AUCUN
  BY <1>1, <1>2, AltGetFdType
<1>4. Trouve(nom) \in {Nul} \cup Peripheriques \cup Montages
  BY <1>2, <1>3, TrouveType DEF TypeOK
<1>5. Ouvert(nom) \in [dev : {Nul} \cup Peripheriques \cup Montages,
                       peri : BOOLEAN, excl : BOOLEAN] /\ Ouvert(nom).dev # AUCUN
  BY <1>3, <1>4 DEF Ouvert
<1>6. ASSUME nom \in devs, NEW j \in Fds, fd[j].dev = Trouve(nom)
      PROVE  ~fd[j].excl
  <2>1. ~AltFileLocked(nom)
    BY <1>1, <1>6 DEF AltOpen
  <2>2. j # AltGetFd(nom)
    BY <1>3, <1>6
  <2>3. CASE j <= Marque(nom)
    <3>1. j \in 0..Marque(nom)
      BY <2>3, <1>2, MarqueType, DescripteursAssumption DEF Fds
    <3> QED BY <3>1, <2>1, <2>2, <1>6 DEF AltFileLocked
  <2>4. CASE ~(j <= Marque(nom))
    <3>1. maxfd <= Marque(nom) /\ Marque(nom) \in {-1} \cup Fds /\ maxfd \in {-1} \cup Fds
      BY <1>2, MarqueType DEF TypeOK
    <3>2. ~(j <= maxfd)
      BY <3>1, <2>4, DescripteursAssumption DEF Fds
    <3> QED BY <3>2 DEF IInv, Verrous
  <2> QED BY <2>3, <2>4
<1> QED BY <1>1, <1>3, <1>5, <1>6

\* The tables at the start: the standard streams on /dev/null, nothing locked.
LEMMA InitIInv == Init => IInv
<1> SUFFICES ASSUME Init PROVE IInv
  OBVIOUS
<1>1. Fds \subseteq Nat /\ Std \subseteq Fds
  BY DescripteursAssumption DEF Fds, Std
<1>2. \A i \in Fds : fd[i] \in {Libre, [Libre EXCEPT !.dev = Nul]}
  BY DEF Init
<1>3. \A i \in Std : fd[i].dev = Nul
  BY <1>1 DEF Init, Libre
<1>4. \A i \in Fds \ Std : fd[i].dev = AUCUN
  BY DEF Init, Libre
<1>5. \A i \in Fds : ~fd[i].excl /\ ~fd[i].peri
  BY <1>2 DEF Libre
<1>6. fd \in [Fds -> [dev : {AUCUN, Nul} \cup Peripheriques \cup Montages,
                      peri : BOOLEAN, excl : BOOLEAN]]
  BY DEF Init, Libre
<1>7. TypeOK
  BY <1>3, <1>6, DescripteursAssumption DEF TypeOK, Init
<1>8. SansFuite
  BY <1>4 DEF SansFuite, Init
<1>9. Verrous
  BY <1>5 DEF Verrous
<1>10. Couvre
  BY <1>4, <1>5, DescripteursAssumption DEF Couvre, Init
<1> QED BY <1>7, <1>8, <1>9, <1>10 DEF IInv

\* A step of alt_main before main(), where fd, maxfd and tenus do not change.
LEMMA Demarrage ==
    ASSUME IInv, TypeOK', phase # "main", UNCHANGED <<fd, maxfd, tenus>>,
           devs \subseteq devs', AUCUN \notin devs'
    PROVE  IInv'
<1>1. SansFuite'
  BY DEF IInv, SansFuite
<1>2. Verrous'
  BY DEF IInv, Verrous
<1>3. Couvre'
  BY DEF IInv, Couvre
<1> QED BY <1>1, <1>2, <1>3 DEF IInv

\* Registering a device touches no descriptor.
LEMMA AltDevRegIInv == ASSUME IInv, NEW d \in Peripheriques, AltDevReg(d) PROVE IInv'
<1>1. TypeOK'
  BY DEF IInv, TypeOK, AltDevReg
<1>2. AUCUN \notin devs'
  BY DescripteursAssumption DEF IInv, Couvre, AltDevReg
<1> QED BY <1>1, <1>2, Demarrage DEF IInv, Couvre, AltDevReg

\* Nor does mounting a file system.
LEMMA AltFsRegIInv == ASSUME IInv, NEW m \in Montages, AltFsReg(m) PROVE IInv'
<1>1. fss' \in Seq(Montages)
  BY DEF IInv, TypeOK, AltFsReg
<1>2. TypeOK'
  BY <1>1 DEF IInv, TypeOK, AltFsReg
<1>3. AUCUN \notin devs'
  BY DEF IInv, Couvre, AltFsReg
<1> QED BY <1>2, <1>3, Demarrage DEF IInv, Couvre, AltFsReg

\* The end of alt_sys_init moves nothing but alt_main.
LEMMA AltSysInitFinIInv == ASSUME IInv, AltSysInitFin PROVE IInv'
<1>1. TypeOK'
  BY DEF IInv, TypeOK, AltSysInitFin
<1>2. AUCUN \notin devs'
  BY DEF IInv, Couvre, AltSysInitFin
<1> QED BY <1>1, <1>2, Demarrage DEF IInv, Couvre, AltSysInitFin

\* The redirection of the stream s, whether the open() succeeds or not.
LEMMA AltOpenFdIInv ==
    ASSUME IInv, NEW de \in {"stdout", "stdin", "stderr"},
           NEW vers \in {"stdin", "stderr", "main"}, NEW s \in Std, NEW nom,
           AltOpenFd(de, vers, s, nom)
    PROVE  IInv'
<1>1. PICK ok \in BOOLEAN :
        /\ phase = de /\ phase' = vers
        /\ fd' = IF AltOpen(nom, ok) < 0 THEN fd ELSE [fd EXCEPT ![s] = Ouvert(nom)]
        /\ maxfd' = Marque(nom)
        /\ UNCHANGED <<devs, fss, tenus>>
  BY DEF AltOpenFd
<1>2. TypeOK /\ Std \subseteq Fds /\ Fds \subseteq Nat
  BY DescripteursAssumption DEF IInv, Fds, Std
<1>3. maxfd' \in {-1} \cup Fds /\ maxfd <= maxfd' /\ maxfd \in Int /\ maxfd' \in Int
  <2>1. \A n \in {-1} \cup Fds : n \in Int
    BY <1>2
  <2> QED BY <1>1, <1>2, <2>1, MarqueType DEF TypeOK
<1>4. \A i \in Fds : ~fd[i].excl
  BY <1>1 DEF IInv, Couvre
<1>5. CASE AltOpen(nom, ok) < 0
  <2>1. fd' = fd
    BY <1>1, <1>5
  <2>2. TypeOK'
    BY <1>1, <1>2, <1>3, <2>1 DEF TypeOK
  <2>3. SansFuite'
    BY <1>1, <2>1 DEF IInv, SansFuite
  <2>4. Verrous'
    BY <1>4, <2>1 DEF Verrous
  <2>5. Couvre'
    <3>1. \A i \in Fds \ Std : fd'[i].dev # AUCUN => i <= maxfd'
      BY <1>2, <1>3, <2>1 DEF IInv, Couvre
    <3>2. \A i \in Fds : fd'[i].peri => 2 <= maxfd' /\ fd'[i].dev \in devs'
      BY <1>1, <1>3, <2>1 DEF IInv, Couvre
    <3> QED BY <1>1, <1>4, <2>1, <3>1, <3>2 DEF IInv, Couvre
  <2> QED BY <2>2, <2>3, <2>4, <2>5 DEF IInv
<1>6. CASE ~(AltOpen(nom, ok) < 0)
  <2>1. fd' = [fd EXCEPT ![s] = Ouvert(nom)]
    BY <1>1, <1>6
  <2>2. /\ Ouvert(nom) \in [dev : {Nul} \cup Peripheriques \cup Montages,
                            peri : BOOLEAN, excl : BOOLEAN]
        /\ Ouvert(nom).dev # AUCUN /\ ~Ouvert(nom).excl
        /\ AltGetFd(nom) \in Fds \ Std
    BY <1>6, OuvertureReussie DEF Ouvert
  <2>3. \A i \in Fds : fd'[i] = IF i = s THEN Ouvert(nom) ELSE fd[i]
    BY <1>2, <2>1 DEF TypeOK
  <2>4. TypeOK'
    <3>1. fd' \in [Fds -> [dev : {AUCUN, Nul} \cup Peripheriques \cup Montages,
                           peri : BOOLEAN, excl : BOOLEAN]]
      BY <1>2, <2>1, <2>2 DEF TypeOK
    <3>2. \A i \in Std : fd'[i].dev # AUCUN
      BY <1>2, <2>2, <2>3 DEF TypeOK
    <3> QED BY <1>1, <1>2, <1>3, <3>1, <3>2 DEF TypeOK
  <2>5. SansFuite'
    BY <1>1, <2>3 DEF IInv, SansFuite
  <2>6. \A i \in Fds : ~fd'[i].excl
    BY <1>4, <2>2, <2>3
  <2>7. Verrous'
    BY <2>6 DEF Verrous
  <2>8. Couvre'
    <3>1. \A i \in Fds \ Std : fd'[i].dev # AUCUN => i <= maxfd'
      <4> SUFFICES ASSUME NEW i \in Fds \ Std, fd'[i].dev # AUCUN PROVE i <= maxfd'
        OBVIOUS
      <4>1. fd'[i] = fd[i]
        BY <2>3
      <4>2. i <= maxfd
        BY <4>1 DEF IInv, Couvre
      <4> QED BY <4>2, <1>2, <1>3
    <3>2. 2 <= maxfd'
      <4>1. AltGetFd(nom) <= maxfd'
        BY <1>1, <1>2, MarqueType
      <4>2. AltGetFd(nom) \in Nat /\ AltGetFd(nom) \notin 0..2
        BY <1>2, <2>2 DEF Std
      <4> QED BY <1>3, <4>1, <4>2
    <3>3. \A i \in Fds : fd'[i].peri => fd'[i].dev \in devs'
      BY <1>1, <2>3, OuvertPeri DEF IInv, Couvre
    <3> QED BY <1>1, <2>6, <3>1, <3>2, <3>3 DEF IInv, Couvre
  <2> QED BY <2>4, <2>5, <2>7, <2>8 DEF IInv
<1> QED BY <1>5, <1>6

\* An open() of the program.
LEMMA OpenIInv == ASSUME IInv, NEW nom, NEW ok \in BOOLEAN, Open(nom, ok) PROVE IInv'
<1>1. TypeOK /\ Std \subseteq Fds /\ Fds \subseteq Nat
  BY DescripteursAssumption DEF IInv, Fds, Std
<1>2. maxfd' \in {-1} \cup Fds /\ maxfd <= maxfd' /\ maxfd \in Int /\ maxfd' \in Int
  <2>1. \A n \in {-1} \cup Fds : n \in Int
    BY <1>1
  <2> QED BY <1>1, <2>1, MarqueType DEF TypeOK, Open
<1>3. phase = "main" /\ phase' = phase /\ devs' = devs /\ fss' = fss
  BY DEF Open
<1>4. CASE AltOpen(nom, ok) < 0
  <2>1. fd' = fd /\ tenus' = tenus
    BY <1>4 DEF Open
  <2>2. TypeOK'
    BY <1>1, <1>2, <1>3, <2>1 DEF TypeOK
  <2>3. SansFuite'
    BY <2>1 DEF IInv, SansFuite
  <2>4. Verrous'
    <3>1. \A i \in Fds : fd[i].excl => i <= maxfd'
      BY <1>1, <1>2 DEF IInv, Verrous
    <3> QED BY <2>1, <3>1 DEF IInv, Verrous
  <2>5. Couvre'
    <3>1. \A i \in Fds \ Std : fd'[i].dev # AUCUN => i <= maxfd'
      BY <1>1, <1>2, <2>1 DEF IInv, Couvre
    <3>2. \A i \in Fds : fd'[i].peri => 2 <= maxfd' /\ fd'[i].dev \in devs'
      BY <1>2, <1>3, <2>1 DEF IInv, Couvre
    <3> QED BY <1>3, <2>1, <3>1, <3>2 DEF IInv, Couvre
  <2> QED BY <2>2, <2>3, <2>4, <2>5 DEF IInv
<1>5. CASE ~(AltOpen(nom, ok) < 0)
  <2> DEFINE n == AltGetFd(nom)
  <2>1. fd' = [fd EXCEPT ![n] = Ouvert(nom)] /\ tenus' = tenus \cup {n}
    BY <1>5, OuvertureReussie DEF Open
  <2>2. /\ Ouvert(nom) \in [dev : {Nul} \cup Peripheriques \cup Montages,
                            peri : BOOLEAN, excl : BOOLEAN]
        /\ Ouvert(nom).dev # AUCUN /\ ~Ouvert(nom).excl
        /\ n \in Fds \ Std /\ fd[n].dev = AUCUN
        /\ nom \in devs => \A j \in Fds : fd[j].dev = Trouve(nom) => ~fd[j].excl
    BY <1>5, OuvertureReussie DEF Ouvert
  <2>3. n <= maxfd' /\ n \in Nat /\ n \notin 0..2
    BY <1>1, <2>2, MarqueType DEF Open, Std
  <2> HIDE DEF n
  <2>4. \A i \in Fds : fd'[i] = IF i = n THEN Ouvert(nom) ELSE fd[i]
    BY <2>1, <1>1 DEF TypeOK
  <2>5. TypeOK'
    <3>1. fd' \in [Fds -> [dev : {AUCUN, Nul} \cup Peripheriques \cup Montages,
                           peri : BOOLEAN, excl : BOOLEAN]]
      BY <1>1, <2>1, <2>2 DEF TypeOK
    <3>2. \A i \in Std : fd'[i].dev # AUCUN
      BY <1>1, <2>2, <2>4 DEF TypeOK
    <3>3. tenus' \subseteq Fds
      BY <1>1, <2>1, <2>2 DEF TypeOK
    <3> QED BY <1>1, <1>2, <1>3, <3>1, <3>2, <3>3 DEF TypeOK
  <2>6. SansFuite'
    <3> SUFFICES ASSUME NEW i \in Fds \ Std PROVE fd'[i].dev # AUCUN <=> i \in tenus'
      BY DEF SansFuite
    <3>1. CASE i = n
      BY <3>1, <2>1, <2>2, <2>4
    <3>2. CASE i # n
      BY <3>2, <2>1, <2>4 DEF IInv, SansFuite
    <3> QED BY <3>1, <3>2
  <2>7. Verrous'
    <3> SUFFICES ASSUME NEW i \in Fds, fd'[i].excl
                 PROVE  /\ fd'[i].peri /\ i <= maxfd'
                        /\ \A j, k \in Fds \ {i} :
                             fd'[j].dev = fd'[i].dev /\ fd'[k].dev = fd'[i].dev => j = k
      BY DEF Verrous
    <3>1. i # n /\ fd'[i] = fd[i] /\ fd[i].excl
      BY <2>2, <2>4
    <3>2. fd[i].peri /\ i <= maxfd
      BY <3>1 DEF IInv, Verrous
    <3>3. i <= maxfd'
      BY <3>2, <1>1, <1>2
    <3>4. fd[i].dev # Ouvert(nom).dev
      <4>1. CASE nom \in devs
        BY <4>1, <2>2, <3>1 DEF Ouvert
      <4>2. CASE nom \notin devs
        <5>1. fd[i].dev \in {Nul} \cup Peripheriques
          BY <3>2 DEF IInv, Couvre, TypeOK
        <5>2. Ouvert(nom).dev \in Montages
          BY <4>2, <2>2, <1>1, TrouveType DEF Ouvert
        <5> QED BY <5>1, <5>2, DescripteursAssumption
      <4> QED BY <4>1, <4>2
    <3>5. ASSUME NEW j \in Fds \ {i}, NEW k \in Fds \ {i},
                 fd'[j].dev = fd'[i].dev, fd'[k].dev = fd'[i].dev
          PROVE  j = k
      <4>1. j # n /\ k # n
        BY <3>1, <3>4, <3>5, <2>4
      <4>2. fd[j].dev = fd[i].dev /\ fd[k].dev = fd[i].dev
        BY <3>1, <3>5, <2>4, <4>1
      <4> QED BY <3>1, <4>2 DEF IInv, Verrous
    <3> QED BY <3>1, <3>2, <3>3, <3>5
  <2>8. Couvre'
    <3>1. ASSUME NEW i \in Fds \ Std, fd'[i].dev # AUCUN PROVE i <= maxfd'
      <4>1. CASE i = n
        BY <4>1, <2>3
      <4>2. CASE i # n
        <5>1. i <= maxfd
          BY <4>2, <3>1, <2>4 DEF IInv, Couvre
        <5> QED BY <5>1, <1>1, <1>2
      <4> QED BY <4>1, <4>2
    <3>2. 2 <= maxfd'
      BY <2>3, <1>2
    <3>3. \A i \in Fds : fd'[i].excl => phase' = "main"
      BY <1>3
    <3>4. AUCUN \notin devs'
      BY <1>3 DEF IInv, Couvre
    <3>5. \A i \in Fds : fd'[i].peri => fd'[i].dev \in devs'
      BY <1>3, <2>4, OuvertPeri DEF IInv, Couvre
    <3> QED BY <3>1, <3>2, <3>3, <3>4, <3>5 DEF Couvre
  <2> QED BY <2>5, <2>6, <2>7, <2>8 DEF IInv
<1> QED BY <1>4, <1>5

\* A close() frees its descriptor, the standard ones excepted, and leaves the others alone.
LEMMA CloseIInv == ASSUME IInv, NEW i \in tenus \cup Std, Close(i) PROVE IInv'
<1>1. TypeOK /\ Std \subseteq Fds /\ tenus \subseteq Fds
  BY DescripteursAssumption DEF IInv, Fds, Std, TypeOK
<1>2. UNCHANGED <<phase, devs, fss, maxfd>> /\ tenus' = tenus \ {i}
  BY DEF Close
<1>3. CASE i \in Std
  <2>1. fd' = fd
    BY <1>3 DEF Close, AltReleaseFd
  <2>2. TypeOK'
    BY <1>1, <1>2, <2>1 DEF TypeOK
  <2>3. SansFuite'
    BY <1>2, <1>3, <2>1 DEF IInv, SansFuite
  <2>4. Verrous' /\ Couvre'
    BY <1>2, <2>1 DEF IInv, Verrous, Couvre
  <2> QED BY <2>2, <2>3, <2>4 DEF IInv
<1>4. CASE i \notin Std
  <2>1. fd' = [fd EXCEPT ![i] = Libre] /\ i \in Fds
    BY <1>1, <1>4 DEF Close, AltReleaseFd
  <2>2. /\ Libre \in [dev : {AUCUN, Nul} \cup Peripheriques \cup Montages,
                      peri : BOOLEAN, excl : BOOLEAN]
        /\ Libre.dev = AUCUN /\ ~Libre.peri /\ ~Libre.excl
    BY DEF Libre
  <2>3. \A j \in Fds : fd'[j] = IF j = i THEN Libre ELSE fd[j]
    BY <1>1, <2>1 DEF TypeOK
  <2>4. TypeOK'
    <3>1. fd' \in [Fds -> [dev : {AUCUN, Nul} \cup Peripheriques \cup Montages,
                           peri : BOOLEAN, excl : BOOLEAN]]
      BY <1>1, <2>1, <2>2 DEF TypeOK
    <3>2. \A j \in Std : fd'[j].dev # AUCUN
      BY <1>1, <1>4, <2>3 DEF TypeOK
    <3> QED BY <1>1, <1>2, <3>1, <3>2 DEF TypeOK
  <2>5. SansFuite'
    <3> SUFFICES ASSUME NEW j \in Fds \ Std PROVE fd'[j].dev # AUCUN <=> j \in tenus'
      BY DEF SansFuite
    <3>1. CASE j = i
      BY <3>1, <1>2, <2>2, <2>3
    <3>2. CASE j # i
      BY <3>2, <1>2, <2>3 DEF IInv, SansFuite
    <3> QED BY <3>1, <3>2
  <2>6. Verrous'
    <3> SUFFICES ASSUME NEW l \in Fds, fd'[l].excl
                 PROVE  /\ fd'[l].peri /\ l <= maxfd'
                        /\ \A j, k \in Fds \ {l} :
                             fd'[j].dev = fd'[l].dev /\ fd'[k].dev = fd'[l].dev => j = k
      BY DEF Verrous
    <3>1. l # i /\ fd'[l] = fd[l] /\ fd[l].excl
      BY <2>2, <2>3
    <3>2. fd[l].peri /\ l <= maxfd
      BY <3>1 DEF IInv, Verrous
    <3>3. fd[l].dev # AUCUN
      BY <3>2 DEF IInv, Couvre
    <3>4. ASSUME NEW j \in Fds \ {l}, NEW k \in Fds \ {l},
                 fd'[j].dev = fd'[l].dev, fd'[k].dev = fd'[l].dev
          PROVE  j = k
      <4>1. j # i /\ k # i
        BY <3>1, <3>3, <3>4, <2>2, <2>3
      <4>2. fd[j].dev = fd[l].dev /\ fd[k].dev = fd[l].dev
        BY <3>1, <3>4, <2>3, <4>1
      <4> QED BY <3>1, <4>2 DEF IInv, Verrous
    <3> QED BY <3>1, <3>2, <3>4, <1>2
  <2>7. Couvre'
    <3>1. \A j \in Fds \ Std : fd'[j].dev # AUCUN => j <= maxfd'
      BY <1>2, <2>2, <2>3 DEF IInv, Couvre
    <3>2. \A j \in Fds : fd'[j].peri => 2 <= maxfd' /\ fd'[j].dev \in devs'
      BY <1>2, <2>2, <2>3 DEF IInv, Couvre
    <3>3. \A j \in Fds : fd'[j].excl => phase' = "main"
      BY DEF Close
    <3> QED BY <1>2, <3>1, <3>2, <3>3 DEF IInv, Couvre
  <2> QED BY <2>4, <2>5, <2>6, <2>7 DEF IInv
<1> QED BY <1>3, <1>4

\* A lock that is granted: any other descriptor of the device is the one at the mark.
LEMMA VerrouAuPlusUn ==
    ASSUME IInv, NEW i \in Fds, fd[i].peri, AltFdLock(i),
           NEW j \in Fds \ {i}, fd[j].dev = fd[i].dev
    PROVE  j = maxfd
<1>1. Fds \subseteq Nat /\ maxfd \in {-1} \cup Fds /\ 2 <= maxfd
  BY DescripteursAssumption DEF IInv, TypeOK, Couvre, Fds
<1>2. j <= maxfd
  <2>1. CASE j \in Std
    BY <2>1, <1>1 DEF Std
  <2>2. CASE j \notin Std
    <3>1. fd[j].dev # AUCUN
      BY DEF IInv, Couvre
    <3> QED BY <2>2, <3>1 DEF IInv, Couvre
  <2> QED BY <2>1, <2>2
<1>3. j \notin 0..(maxfd - 1)
  BY DEF AltFdLock
<1> QED BY <1>1, <1>2, <1>3

\* ioctl() changes one lock and nothing else.
LEMMA IoctlIInv ==
    ASSUME IInv, NEW i \in Fds, fd[i].peri, NEW b \in BOOLEAN, b => AltFdLock(i),
           phase = "main", fd' = [fd EXCEPT ![i].excl = b],
           UNCHANGED <<phase, devs, fss, maxfd, tenus>>
    PROVE  IInv'
<1>1. fd \in [Fds -> [dev : {AUCUN, Nul} \cup Peripheriques \cup Montages,
                      peri : BOOLEAN, excl : BOOLEAN]] /\ Std \subseteq Fds
  BY DescripteursAssumption DEF IInv, TypeOK, Fds, Std
<1>2. \A j \in Fds : /\ fd'[j].dev = fd[j].dev /\ fd'[j].peri = fd[j].peri
                     /\ fd'[j].excl = IF j = i THEN b ELSE fd[j].excl
  BY <1>1
<1>3. TypeOK'
  <2>1. fd' \in [Fds -> [dev : {AUCUN, Nul} \cup Peripheriques \cup Montages,
                         peri : BOOLEAN, excl : BOOLEAN]]
    BY <1>1
  <2>2. \A j \in Std : fd'[j].dev # AUCUN
    BY <1>1, <1>2 DEF IInv, TypeOK
  <2> QED BY <2>1, <2>2 DEF IInv, TypeOK
<1>4. SansFuite'
  BY <1>2 DEF IInv, SansFuite
<1>5. Couvre'
  BY <1>2 DEF IInv, Couvre
<1>6. Verrous'
  <2> SUFFICES ASSUME NEW l \in Fds, fd'[l].excl
               PROVE  /\ fd[l].peri /\ l <= maxfd
                      /\ \A j, k \in Fds \ {l} :
                           fd[j].dev = fd[l].dev /\ fd[k].dev = fd[l].dev => j = k
    BY <1>2 DEF Verrous
  <2>1. CASE l # i
    BY <2>1, <1>2 DEF IInv, Verrous
  <2>2. CASE l = i
    <3>1. AltFdLock(i)
      BY <2>2, <1>2
    <3>2. \A j \in Fds \ {i} : fd[j].dev = fd[i].dev => j = maxfd
      BY <3>1, VerrouAuPlusUn
    <3>3. i <= maxfd
      <4>1. CASE i \in Std
        <5>1. 2 <= maxfd /\ maxfd \in Int
          BY DescripteursAssumption DEF IInv, Couvre, TypeOK, Fds
        <5> QED BY <5>1, <4>1 DEF Std
      <4>2. CASE i \notin Std
        <5>1. fd[i].dev # AUCUN
          BY DEF IInv, Couvre
        <5> QED BY <4>2, <5>1 DEF IInv, Couvre
      <4> QED BY <4>1, <4>2
    <3> QED BY <2>2, <3>2, <3>3
  <2> QED BY <2>1, <2>2
<1> QED BY <1>3, <1>4, <1>5, <1>6 DEF IInv

---------------------------------------------------------------------------------
\* Every call keeps the invariant.
LEMMA NextIInv == ASSUME IInv, [Next]_vars PROVE IInv'
<1>1. CASE UNCHANGED vars
  BY <1>1 DEF vars, IInv, TypeOK, SansFuite, Verrous, Couvre
<1>2. ASSUME NEW d \in Peripheriques, AltDevReg(d) PROVE IInv'
  BY <1>2, AltDevRegIInv
<1>3. ASSUME NEW m \in Montages, AltFsReg(m) PROVE IInv'
  BY <1>3, AltFsRegIInv
<1>4. CASE AltSysInitFin
  BY <1>4, AltSysInitFinIInv
<1>5. CASE AltIoRedirect
  <2>1. 0 \in Std /\ 1 \in Std /\ 2 \in Std
    BY DEF Std
  <2>2. CASE AltOpenFd("stdout", "stdin", 1, StdOut)
    BY <2>1, <2>2, AltOpenFdIInv
  <2>3. CASE AltOpenFd("stdin", "stderr", 0, StdIn)
    BY <2>1, <2>3, AltOpenFdIInv
  <2>4. CASE AltOpenFd("stderr", "main", 2, StdErr)
    BY <2>1, <2>4, AltOpenFdIInv
  <2> QED BY <1>5, <2>2, <2>3, <2>4 DEF AltIoRedirect
<1>6. ASSUME NEW nom \in Noms, NEW ok \in BOOLEAN, Open(nom, ok) PROVE IInv'
  BY <1>6, OpenIInv
<1>7. ASSUME NEW i \in tenus \cup Std, Close(i) \/ IoctlExcl(i) \/ IoctlNxcl(i) PROVE IInv'
  <2>1. i \in Fds
    BY DescripteursAssumption DEF IInv, TypeOK, Fds, Std
  <2>2. CASE Close(i)
    BY <2>2, CloseIInv
  <2>3. CASE IoctlExcl(i)
    BY <2>1, <2>3, IoctlIInv DEF IoctlExcl
  <2>4. CASE IoctlNxcl(i)
    BY <2>1, <2>4, IoctlIInv DEF IoctlNxcl
  <2> QED BY <1>7, <2>2, <2>3, <2>4
<1> QED BY <1>1, <1>2, <1>3, <1>4, <1>5, <1>6, <1>7 DEF Next, Programme

\* Every descriptor in use is known, every lock has its holder, in every state.
THEOREM Invariant == Spec => []IInv
<1>1. Init => IInv
  BY InitIInv
<1>2. IInv /\ [Next]_vars => IInv'
  BY NextIInv
<1> QED BY <1>1, <1>2, PTL DEF Spec

\* The types of the state (alt_file.h:117).
THEOREM TypesDesDescripteurs == Spec => []TypeOK
<1>1. IInv => TypeOK
  BY DEF IInv
<1> QED BY <1>1, Invariant, PTL

\* No failure of open(), and no redirection, loses a descriptor (alt_open.c:161).
THEOREM AucuneFuite == Spec => []SansFuite
<1>1. IInv => SansFuite
  BY DEF IInv
<1> QED BY <1>1, Invariant, PTL

\* A lock is on a device and shared with one descriptor at most (alt_fd_lock.c:61).
THEOREM VerrousTenus == Spec => []Verrous
<1>1. IInv => Verrous
  BY DEF IInv
<1> QED BY <1>1, Invariant, PTL

\* A step that gives the program a descriptor is an open() that succeeds.
LEMMA NextOuverture ==
    ASSUME IInv, [Next]_vars
    PROVE  \A i \in tenus' \ tenus : fd'[i].peri =>
             \A j \in Fds : fd[j].dev = fd'[i].dev => ~fd[j].excl
<1>1. CASE \E nom \in Noms, ok \in BOOLEAN : Open(nom, ok)
  <2>1. PICK nom \in Noms, ok \in BOOLEAN : Open(nom, ok)
    BY <1>1
  <2>2. CASE AltOpen(nom, ok) < 0
    BY <2>1, <2>2 DEF Open
  <2>3. CASE ~(AltOpen(nom, ok) < 0)
    <3> SUFFICES ASSUME NEW i \in tenus' \ tenus, fd'[i].peri,
                        NEW j \in Fds, fd[j].dev = fd'[i].dev
                 PROVE  ~fd[j].excl
      OBVIOUS
    <3>1. /\ fd' = [fd EXCEPT ![AltGetFd(nom)] = Ouvert(nom)] /\ i = AltGetFd(nom)
          /\ AltGetFd(nom) \in Fds
      BY <2>1, <2>3, OuvertureReussie DEF Open
    <3>2. fd'[i] = Ouvert(nom)
      BY <3>1 DEF IInv, TypeOK
    <3>3. nom \in devs /\ fd'[i].dev = Trouve(nom)
      <4>1. Ouvert(nom).peri
        BY <3>2
      <4>2. nom \in devs
        BY <4>1 DEF Ouvert
      <4>3. Ouvert(nom).dev = Trouve(nom)
        BY DEF Ouvert
      <4> QED BY <3>2, <4>2, <4>3
    <3>4. \A k \in Fds : fd[k].dev = Trouve(nom) => ~fd[k].excl
      BY <3>3, <2>3, OuvertureReussie
    <3> QED BY <3>3, <3>4
  <2> QED BY <2>2, <2>3
<1>2. CASE ~\E nom \in Noms, ok \in BOOLEAN : Open(nom, ok)
  <2>1. tenus' \subseteq tenus
    BY <1>2 DEF Next, vars, AltDevReg, AltFsReg, AltSysInitFin, AltIoRedirect, AltOpenFd,
       Programme, Close, IoctlExcl, IoctlNxcl
  <2> QED BY <2>1
<1> QED BY <1>1, <1>2

\* No open() gives a descriptor of a device that another one has locked (alt_open.c:79).
THEOREM AucunContournement == Spec => OuvertureRefusee
<1>1. IInv /\ [Next]_vars =>
        [\A i \in tenus' \ tenus : fd'[i].peri =>
           \A j \in Fds : fd[j].dev = fd'[i].dev => ~fd[j].excl]_vars
  BY NextOuverture
<1> QED BY <1>1, Invariant, PTL DEF Spec, OuvertureRefusee
================================================================================
