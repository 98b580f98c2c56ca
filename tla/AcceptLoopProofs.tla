--------------------------- MODULE AcceptLoopProofs ---------------------------
(***************************************************************************)
(* Proofs about AcceptLoop, for any number of descriptors, ids and         *)
(* handlers.                                                               *)
(***************************************************************************)
EXTENDS AcceptLoop, SequenceTheorems, WellFoundedInduction, TLAPS

(***************************************************************************)
(* What a descriptor is watched for is what it was opened for.             *)
(***************************************************************************)
WatchedFiles ==
  \A n \in DOMAIN interest : file[n] \in Handlers /\ interest[n] = Id(file[n])

\* A file of a handler was opened for a handler that was made; if that lives it
\* has no other.
OneFile ==
  \A n \in Fds :
    /\ file[n] \in 1..ID_COUNT \cup {Free, Other}
    /\ file[n] \in Live => fd_[file[n]] = n

\* handlers_ gives only handlers with the id that was looked up.
Keyed == \A i \in DOMAIN handlers : Id(handlers[i]) = i

DescriptorTypes ==
  /\ file \in [Fds -> Handlers \cup {Free, Other}]
  /\ DOMAIN interest \subseteq Fds /\ Range(interest) \subseteq Ids
  /\ ID_COUNT \in 0..MaxId
  /\ Live \subseteq 1..ID_COUNT /\ Range(fd_) \subseteq Fds \cup {NoFd}
  /\ status \subseteq Live
  /\ DOMAIN handlers \subseteq Ids /\ Range(handlers) \subseteq 1..ID_COUNT

\* What holds of the descriptors and registrations, wherever the thread is.
Registered ==
  /\ DescriptorTypes
  /\ OwnFds
  /\ OneFile
  /\ WatchedFiles
  /\ InterestIsCurrent
  /\ Keyed
  /\ FoundById

\* What holds of the handlers, depending on where the thread is.
Phases ==
  /\ pc = "listen" =>
       /\ kept = {} /\ status = {}
       /\ ID_COUNT \in {0, Acceptor}
       /\ ID_COUNT = Acceptor => Acceptor \in Live
       /\ todo = <<>> => ID_COUNT = Acceptor /\ fd_[Acceptor] # NoFd
  /\ Acceptor \notin kept
  /\ pc \in {"serving", "release"} => serving[1] \in Live

\* The entries of the batch, and the one being served, carry the id of their file.
Reported ==
  /\ \A e \in batch : e.id = Id(e.file)
  /\ pc = "serving" =>
       serving[1] \in Handlers /\ serving[2] \in Handlers /\ Id(serving[1]) = Id(serving[2])

\* What TypeOK says besides DescriptorTypes.
OtherTypes ==
  /\ kept \subseteq Live
  /\ pc \in States
  /\ todo \in Seq(ListenCalls)
  /\ batch \subseteq [id : Ids, file : Handlers]
  /\ serving \in (Handlers \cup {0}) \X (Handlers \cup {0})

IInv == Registered /\ OtherTypes /\ Phases /\ AcceptorListens /\ Reported

-----------------------------------------------------------------------------

LEMMA DivMod ==
  ASSUME NEW a \in Int, NEW m \in Nat \ {0}
  PROVE  /\ a = (m * (a \div m)) + (a % m)
         /\ a \div m \in Int
         /\ a % m \in 0..(m - 1)
  OBVIOUS

\* Numbers with the same remainder differ by a multiple.
LEMMA SameRemainder ==
  ASSUME NEW a \in Nat, NEW b \in Nat, NEW m \in Nat \ {0}, a % m = b % m
  PROVE  (a - b) % m = 0 /\ (a = b \/ a >= b + m \/ b >= a + m)
<1> DEFINE q == a \div m
           p == b \div m
           r == a % m
<1>1. /\ a = (m * q) + r /\ q \in Int
      /\ b = (m * p) + r /\ p \in Int
      /\ r \in 0..(m - 1)
  BY DivMod
<1> HIDE DEF q, p, r
<1>2. (a - b) % m = 0
  <2>1. a - b = (q - p) * m
    BY <1>1
  <2>2. ((q - p) * m) % m = 0
    BY <1>1
  <2> QED
    BY <2>1, <2>2
<1>3. ASSUME NEW x \in Int, NEW y \in Int, x > y
      PROVE  m * x >= (m * y) + m
  <2>1. PICK d \in Nat : x = y + d + 1
    BY <1>3
  <2>2. m * d \in Nat
    OBVIOUS
  <2>3. m * x = (m * y) + (m * d) + m
    BY <2>1
  <2> QED
    BY <2>2, <2>3
<1>4. CASE q > p
  BY <1>1, <1>3, <1>4
<1>5. CASE p > q
  BY <1>1, <1>3, <1>5
<1>6. CASE p = q
  BY <1>1, <1>6
<1> QED
  BY <1>1, <1>2, <1>4, <1>5, <1>6

LEMMA IdIsId == ASSUME NEW h \in Nat PROVE Id(h) \in Ids
  BY DivMod, IdCountAssumption DEF Id, Ids

\* Of two handlers with one id, each has had its id reused.
LEMMA SharedIsReused ==
  ASSUME NEW h \in 1..ID_COUNT, NEW g \in 1..ID_COUNT, g # h, Id(g) = Id(h),
         ID_COUNT \in Nat
  PROVE  IdReused(h)
<1>1. g \in Nat /\ h \in Nat /\ g % IdCount = h % IdCount
  BY DEF Id
<1>2. (g - h) % IdCount = 0
  BY <1>1, SameRemainder, IdCountAssumption
<1> QED
  BY <1>2 DEF IdReused

LEMMA LeastNat ==
  ASSUME NEW T \in SUBSET Nat, T # {}
  PROVE  \E x \in T : \A y \in T : x <= y
<1> DEFINE R == OpToRel(<, Nat)
<1>1. IsWellFoundedOn(R, Nat)
  BY NatLessThanWellFounded
<1>2. PICK x \in T : \A y \in T : ~ (<<y, x>> \in R)
  <2> HIDE DEF R
  <2> QED
    BY <1>1, WFMin
<1>3. ASSUME NEW y \in T PROVE x <= y
  <2>1. ~ (y < x)
    BY <1>2 DEF OpToRel
  <2> QED
    BY <2>1
<1> QED
  BY <1>2, <1>3

\* The kernel gives out a descriptor that is free, or none.
LEMMA NewFdIsFree ==
  NewFd = NoFd \/ (NewFd \in Fds /\ file[NewFd] = Free)
<1>0. CASE \A n \in Fds : file[n] # Free
  BY <1>0 DEF NewFd
<1> SUFFICES ASSUME ~ \A n \in Fds : file[n] # Free
             PROVE  NewFd \in Fds /\ file[NewFd] = Free
  BY <1>0
<1> DEFINE T == {n \in Fds : file[n] = Free}
<1>1. T \in SUBSET Nat /\ T # {}
  BY MaxFdAssumption DEF Fds
<1>2. PICK x \in T : \A y \in T : x <= y
  <2> HIDE DEF T
  <2> QED
    BY <1>1, LeastNat
<1>3. ASSUME NEW m \in 0..(x - 1) PROVE file[m] # Free
  <2>1. x \in 0..MaxFd
    BY <1>2 DEF Fds
  <2>2. m \in 0..MaxFd /\ ~ (x <= m)
    BY <2>1, <1>3, MaxFdAssumption
  <2>3. m \notin T
    BY <2>2, <1>2
  <2> QED
    BY <2>2, <2>3 DEF Fds
<1>4. \E n \in Fds : file[n] = Free /\ \A m \in 0..(n - 1) : file[m] # Free
  BY <1>2, <1>3
<1> QED
  BY <1>4 DEF NewFd

LEMMA WithoutIs ==
  ASSUME NEW f, NEW x
  PROVE  /\ DOMAIN Without(f, x) = DOMAIN f \ {x}
         /\ \A z \in DOMAIN f : z # x => Without(f, x)[z] = f[z]
  BY DEF Without, Restrict

-----------------------------------------------------------------------------

\* ~Socket keeps the records of the other handlers.
LEMMA DestroyKeeps ==
  ASSUME Registered, NEW h \in Live, Destroy(h), UNCHANGED <<handlers, ID_COUNT>>
  PROVE  Registered'
<1> USE DEF Registered
<1>1. /\ Live' = Live \ {h} /\ status' = status \ {h}
      /\ \A g \in Live' : fd_'[g] = fd_[g]
  BY WithoutIs DEF Destroy, Live
<1>2. /\ h \in 1..ID_COUNT /\ ID_COUNT \in Nat
      /\ fd_[h] \in Fds \cup {NoFd}
      /\ fd_[h] # NoFd => file[fd_[h]] = h
  BY DEF DescriptorTypes, OwnFds, Live, Range
<1>3. fd_[h] > 0 <=> fd_[h] \in Fds \ {0}
  BY <1>2, MaxFdAssumption DEF Fds, NoFd
<1>4. /\ DOMAIN interest' = DOMAIN interest \ (IF fd_[h] > 0 THEN {fd_[h]} ELSE {})
      /\ \A n \in DOMAIN interest' : interest'[n] = interest[n]
  <2>1. CASE fd_[h] > 0
    <3>1. interest' = Without(interest, fd_[h])
      BY <2>1 DEF Destroy
    <3> QED
      BY <2>1, <3>1, WithoutIs
  <2>2. CASE ~ (fd_[h] > 0)
    BY <2>2 DEF Destroy
  <2> QED
    BY <2>1, <2>2
<1>5. \A n \in Fds : file'[n] = IF fd_[h] > 0 /\ n = fd_[h] THEN Free ELSE file[n]
  BY <1>3 DEF Destroy, DescriptorTypes
<1>6. DescriptorTypes'
  <2>1. file' \in [Fds -> Handlers \cup {Free, Other}]
    BY <1>3 DEF Destroy, DescriptorTypes
  <2>2. DOMAIN interest' \subseteq Fds /\ Range(interest)' \subseteq Ids
    BY <1>4 DEF DescriptorTypes, Range
  <2>3. Live' \subseteq 1..ID_COUNT' /\ Range(fd_)' \subseteq Fds \cup {NoFd}
    BY <1>1 DEF DescriptorTypes, Live, Range
  <2> QED
    BY <2>1, <2>2, <2>3, <1>1 DEF DescriptorTypes
<1>7. OwnFds'
  <2>1. ASSUME NEW g \in Live', fd_'[g] # NoFd
        PROVE  file'[fd_'[g]] = g
    <3>1. g \in Live /\ g # h /\ fd_[g] \in Fds /\ file[fd_[g]] = g
      BY <2>1, <1>1 DEF DescriptorTypes, OwnFds, Live, Range
    <3>2. ~ (fd_[h] > 0 /\ fd_[g] = fd_[h])
      BY <3>1, <1>2, <1>3 DEF NoFd
    <3> QED
      BY <3>1, <3>2, <1>1, <1>5, <2>1
  <2>2. ASSUME NEW n \in Fds \ {0}
        PROVE  file'[n] \in {Free, Other} \cup Live'
    <3>1. CASE file[n] = h
      <4>1. fd_[h] = n
        BY <3>1 DEF OneFile
      <4> QED
        BY <4>1, <1>3, <1>5
    <3>2. CASE file[n] # h
      BY <3>2, <1>1, <1>5 DEF OwnFds
    <3> QED
      BY <3>1, <3>2
  <2> QED
    BY <2>1, <2>2 DEF OwnFds
<1>8. OneFile'
  <2> SUFFICES ASSUME NEW n \in Fds
               PROVE  /\ file'[n] \in 1..ID_COUNT \cup {Free, Other}
                      /\ file'[n] \in Live' => fd_'[file'[n]] = n
    BY DEF OneFile
  <2>1. Free \notin Live'
    BY <1>1 DEF DescriptorTypes, Free
  <2>2. file'[n] = Free \/ file'[n] = file[n]
    BY <1>5
  <2>3. CASE file'[n] = Free
    BY <2>1, <2>3
  <2>4. CASE file'[n] = file[n]
    BY <2>4, <1>1 DEF OneFile
  <2> QED
    BY <2>2, <2>3, <2>4
<1>9. WatchedFiles'
  <2> SUFFICES ASSUME NEW n \in DOMAIN interest'
               PROVE  file'[n] \in Handlers /\ interest'[n] = Id(file'[n])
    BY DEF WatchedFiles
  <2>1. n \in DOMAIN interest /\ n \in Fds /\ ~ (fd_[h] > 0 /\ n = fd_[h])
    BY <1>4 DEF DescriptorTypes
  <2> QED
    BY <2>1, <1>4, <1>5 DEF WatchedFiles
<1>10. InterestIsCurrent'
  <2>1. ASSUME NEW g \in status', fd_'[g] # NoFd
        PROVE  fd_'[g] \in DOMAIN interest' /\ interest'[fd_'[g]] = Id(g)
    <3>1. g \in status /\ g # h /\ fd_'[g] = fd_[g]
      BY <1>1 DEF DescriptorTypes
    <3>2. file[fd_[g]] = g
      BY <3>1, <2>1 DEF OwnFds, DescriptorTypes
    <3>3. ~ (fd_[h] > 0 /\ fd_[g] = fd_[h])
      BY <3>1, <3>2, <1>2, <1>3 DEF NoFd
    <3>4. fd_[g] \in DOMAIN interest /\ interest[fd_[g]] = Id(g)
      BY <3>1, <2>1 DEF InterestIsCurrent
    <3> QED
      BY <3>1, <3>3, <3>4, <1>4
  <2>2. ASSUME NEW n \in DOMAIN interest' \ {0}
        PROVE  \E g \in status' : fd_'[g] = n
    <3>1. n \in DOMAIN interest /\ n \in Fds \ {0} /\ ~ (fd_[h] > 0 /\ n = fd_[h])
      BY <1>4 DEF DescriptorTypes
    <3>2. PICK g \in status : fd_[g] = n
      BY <3>1 DEF InterestIsCurrent
    <3>3. g # h
      BY <3>1, <3>2, <1>3
    <3>4. g \in status' /\ fd_'[g] = n
      BY <3>2, <3>3, <1>1 DEF DescriptorTypes
    <3> QED
      BY <3>4
  <2> QED
    BY <2>1, <2>2 DEF InterestIsCurrent
<1>11. Keyed' /\ FoundById'
  BY <1>1 DEF Keyed, FoundById, IdReused
<1> QED
  BY <1>6, <1>7, <1>8, <1>9, <1>10, <1>11

\* RemoveHandler, of a handler that may not be registered, keeps the records of
\* the others.
LEMMA RemoveKeeps ==
  ASSUME Registered, NEW h \in Live, RemoveHandler(h), UNCHANGED <<file, fd_, ID_COUNT>>
  PROVE  Registered'
<1> USE DEF Registered
<1>1. /\ Live' = Live /\ status' = status \ {h}
      /\ DOMAIN interest' = DOMAIN interest \ {fd_[h]}
      /\ \A n \in DOMAIN interest' : interest'[n] = interest[n]
      /\ DOMAIN handlers' = DOMAIN handlers \ {Id(h)}
      /\ \A i \in DOMAIN handlers' : handlers'[i] = handlers[i]
  BY WithoutIs DEF RemoveHandler, Live
<1>2. DescriptorTypes' /\ OwnFds' /\ OneFile'
  BY <1>1 DEF DescriptorTypes, OwnFds, OneFile, Range, Live
<1>3. WatchedFiles' /\ Keyed'
  BY <1>1 DEF WatchedFiles, Keyed
<1>4. ASSUME NEW g \in status'
      PROVE  /\ g \in status /\ g # h /\ g \in Live
             /\ fd_[g] # NoFd => fd_[g] # fd_[h]
  <2>1. g \in status /\ g # h /\ g \in Live
    BY <1>1 DEF DescriptorTypes
  <2> QED
    BY <2>1 DEF OwnFds
<1>5. InterestIsCurrent'
  <2>1. ASSUME NEW n \in DOMAIN interest' \ {0}
        PROVE  \E g \in status' : fd_'[g] = n
    <3>1. PICK g \in status : fd_[g] = n
      BY <2>1, <1>1 DEF InterestIsCurrent
    <3> QED
      BY <3>1, <1>1
  <2> QED
    BY <2>1, <1>1, <1>4 DEF InterestIsCurrent
<1>6. FoundById'
  <2> SUFFICES ASSUME NEW g \in status', ~ IdReused(g)
               PROVE  Id(g) \in DOMAIN handlers' /\ handlers'[Id(g)] = g
    BY DEF FoundById, IdReused
  <2>1. g \in 1..ID_COUNT /\ h \in 1..ID_COUNT /\ ID_COUNT \in Nat
    <3>1. g \in Live /\ h \in Live
      BY <1>4
    <3> QED
      BY <3>1 DEF DescriptorTypes
  <2>2. Id(g) # Id(h)
    BY <2>1, <1>4, SharedIsReused
  <2> QED
    BY <2>2, <1>1, <1>4 DEF FoundById
<1> QED
  BY <1>2, <1>3, <1>5, <1>6

\* A handler that is not registered is registered; others may have been made.
LEMMA RegisterKeeps ==
  ASSUME Registered, NEW h \in Live, h \notin status, RegisterHandler(h, fd_[h]),
         UNCHANGED <<file, fd_>>, ID_COUNT' \in ID_COUNT..MaxId
  PROVE  Registered'
<1> USE DEF Registered
<1>1. /\ Live' = Live /\ status' = status \cup {h}
      /\ DOMAIN handlers' = DOMAIN handlers \cup {Id(h)}
      /\ handlers'[Id(h)] = h
      /\ \A i \in DOMAIN handlers' : i # Id(h) => handlers'[i] = handlers[i]
  <2>1. handlers' = With(handlers, Id(h), h)
    BY DEF RegisterHandler
  <2>2. Live' = Live /\ status' = status \cup {h}
    BY DEF RegisterHandler, Live
  <2>3. /\ DOMAIN handlers' = DOMAIN handlers \cup {Id(h)}
        /\ handlers'[Id(h)] = h
        /\ \A i \in DOMAIN handlers : i # Id(h) => handlers'[i] = handlers[i]
    BY <2>1 DEF With
  <2> QED
    BY <2>2, <2>3
<1>2. h \in 1..ID_COUNT /\ ID_COUNT \in Nat /\ Id(h) \in Ids
  BY IdIsId DEF DescriptorTypes
<1>3. fd_[h] \in Fds \cup {NoFd} /\ (fd_[h] # NoFd => file[fd_[h]] = h)
  BY DEF DescriptorTypes, OwnFds, Live, Range
<1>4. /\ DOMAIN interest' = DOMAIN interest \cup (IF fd_[h] = NoFd THEN {} ELSE {fd_[h]})
      /\ \A n \in DOMAIN interest : interest'[n] = interest[n]
      /\ fd_[h] # NoFd => interest'[fd_[h]] = Id(h)
  <2>1. CASE fd_[h] = NoFd
    BY <2>1 DEF RegisterHandler
  <2>2. CASE fd_[h] # NoFd /\ fd_[h] \in DOMAIN interest
    BY <2>2, <1>3 DEF RegisterHandler, WatchedFiles
  <2>3. CASE fd_[h] # NoFd /\ fd_[h] \notin DOMAIN interest
    <3>1. interest' = With(interest, fd_[h], Id(h))
      BY <2>3 DEF RegisterHandler
    <3>2. /\ DOMAIN interest' = DOMAIN interest \cup {fd_[h]}
          /\ interest'[fd_[h]] = Id(h)
          /\ \A n \in DOMAIN interest : n # fd_[h] => interest'[n] = interest[n]
      BY <3>1 DEF With
    <3> QED
      BY <2>3, <3>2
  <2> QED
    BY <2>1, <2>2, <2>3
<1>5. DescriptorTypes'
  <2>1. DOMAIN interest' \subseteq Fds /\ Range(interest)' \subseteq Ids
    BY <1>2, <1>3, <1>4 DEF DescriptorTypes, Range
  <2>2. DOMAIN handlers' \subseteq Ids /\ Range(handlers)' \subseteq 1..ID_COUNT
    BY <1>1, <1>2 DEF DescriptorTypes, Range
  <2>3. ID_COUNT' \in 0..MaxId /\ 1..ID_COUNT \subseteq 1..ID_COUNT'
    BY <1>2
  <2>4. file' \in [Fds -> Handlers \cup {Free, Other}] /\ Range(fd_)' \subseteq Fds \cup {NoFd}
        /\ Live \subseteq 1..ID_COUNT /\ status \subseteq Live
    BY DEF DescriptorTypes, Range
  <2>5. /\ Live' \subseteq 1..ID_COUNT' /\ status' \subseteq Live'
        /\ Range(handlers)' \subseteq 1..ID_COUNT'
    BY <2>2, <2>3, <2>4, <1>1
  <2> QED
    BY <2>1, <2>2, <2>3, <2>4, <2>5 DEF DescriptorTypes
<1>6. OwnFds' /\ OneFile'
  <2>1. 1..ID_COUNT \subseteq 1..ID_COUNT'
    BY <1>2
  <2>2. Live' = Live /\ UNCHANGED <<file, fd_>>
    BY <1>1
  <2>3. OwnFds'
    BY <2>2 DEF OwnFds
  <2>4. OneFile'
    BY <2>1, <2>2, Zenon DEF OneFile
  <2> QED
    BY <2>3, <2>4
<1>7. WatchedFiles' /\ Keyed'
  <2>1. h \in Handlers
    BY <1>2, MaxIdAssumption DEF Handlers, DescriptorTypes
  <2>2. ASSUME NEW n \in DOMAIN interest'
        PROVE  file'[n] \in Handlers /\ interest'[n] = Id(file'[n])
    BY <2>1, <1>3, <1>4 DEF WatchedFiles
  <2>3. ASSUME NEW i \in DOMAIN handlers' PROVE Id(handlers'[i]) = i
    BY <1>1 DEF Keyed
  <2> QED
    BY <2>2, <2>3 DEF WatchedFiles, Keyed
<1>8. InterestIsCurrent'
  BY <1>1, <1>3, <1>4 DEF InterestIsCurrent
<1>9. ASSUME NEW g \in status', ~ IdReused(g)'
      PROVE  Id(g) \in DOMAIN handlers' /\ handlers'[Id(g)] = g
  <2>1. CASE g = h
    BY <2>1, <1>1
  <2>2. CASE g # h
    <3>1. g \in status /\ g \in 1..ID_COUNT
      BY <2>2, <1>1 DEF DescriptorTypes
    <3>2. ~ IdReused(g)
      BY <1>2, <1>9 DEF IdReused
    <3>3. Id(g) # Id(h)
      BY <3>1, <3>2, <2>2, <1>2, SharedIsReused
    <3> QED
      BY <3>1, <3>2, <3>3, <1>1 DEF FoundById
  <2> QED
    BY <2>1, <2>2
<1>10. FoundById'
  BY <1>9 DEF FoundById
<1> QED
  BY <1>5, <1>6, <1>7, <1>8, <1>10

\* A new handler, on a descriptor that was free or on none, is registered.
LEMMA AddKeeps ==
  ASSUME Registered, NEW n, n = NoFd \/ (n \in Fds /\ file[n] = Free),
         AddNewSession(n)
  PROVE  Registered'
<1> USE DEF Registered
<1> DEFINE new == ID_COUNT + 1
<1>1. /\ ID_COUNT \in Nat /\ new \in 1..ID_COUNT' /\ ID_COUNT' = new
      /\ ID_COUNT' \in 0..MaxId /\ new \in Handlers
      /\ 1..ID_COUNT \subseteq 1..ID_COUNT' /\ new \notin 1..ID_COUNT
  <2>1. ID_COUNT \in 0..MaxId /\ ID_COUNT < MaxId /\ ID_COUNT' = ID_COUNT + 1
    BY DEF AddNewSession, DescriptorTypes
  <2> QED
    BY <2>1, MaxIdAssumption DEF Handlers
<1>2. /\ fd_' = With(fd_, new, n)
      /\ file' = IF n = NoFd THEN file ELSE [file EXCEPT ![n] = new]
      /\ status' = status \cup {new}
      /\ handlers' = With(handlers, Id(new), new)
      /\ interest' = IF n = NoFd \/ n \in DOMAIN interest THEN interest
                     ELSE With(interest, n, Id(new))
  BY DEF AddNewSession, RegisterHandler
<1>3. new \in Nat /\ Id(new) \in Ids
  BY <1>1, IdIsId
<1> HIDE DEF new
<1>4. /\ Live' = Live \cup {new} /\ fd_'[new] = n
      /\ \A g \in Live : g # new /\ fd_'[g] = fd_[g]
  BY <1>1, <1>2 DEF With, Live, DescriptorTypes
<1>5. \A m \in Fds : file'[m] = IF m = n THEN new ELSE file[m]
  <2>1. NoFd \notin Fds
    BY MaxFdAssumption DEF Fds, NoFd
  <2> QED
    BY <2>1, <1>2 DEF DescriptorTypes
<1>6. n # NoFd => n \notin DOMAIN interest
  BY DEF WatchedFiles, Handlers, Free
<1>7. /\ DOMAIN interest' = DOMAIN interest \cup (IF n = NoFd THEN {} ELSE {n})
      /\ \A m \in DOMAIN interest : interest'[m] = interest[m] /\ m # n
      /\ n # NoFd => interest'[n] = Id(new)
  <2>1. CASE n = NoFd
    <3>1. NoFd \notin DOMAIN interest
      BY MaxFdAssumption DEF Fds, NoFd, DescriptorTypes
    <3> QED
      BY <2>1, <3>1, <1>2
  <2>2. CASE n # NoFd
    BY <2>2, <1>2, <1>6 DEF With
  <2> QED
    BY <2>1, <2>2
<1>8. /\ DOMAIN handlers' = DOMAIN handlers \cup {Id(new)}
      /\ handlers'[Id(new)] = new
      /\ \A i \in DOMAIN handlers : i # Id(new) => handlers'[i] = handlers[i]
  BY <1>2 DEF With
<1>9. DescriptorTypes'
  <2>1. file' \in [Fds -> Handlers \cup {Free, Other}]
    BY <1>1, <1>2 DEF DescriptorTypes
  <2>2. DOMAIN interest' \subseteq Fds /\ Range(interest)' \subseteq Ids
    BY <1>3, <1>7 DEF DescriptorTypes, Range
  <2>3. Live' \subseteq 1..ID_COUNT' /\ status' \subseteq Live'
    BY <1>1, <1>2, <1>4 DEF DescriptorTypes
  <2>4. Range(fd_)' \subseteq Fds \cup {NoFd}
    BY <1>4 DEF DescriptorTypes, Range, Live
  <2>5. DOMAIN handlers' \subseteq Ids /\ Range(handlers)' \subseteq 1..ID_COUNT'
    BY <1>1, <1>3, <1>8 DEF DescriptorTypes, Range
  <2> QED
    BY <1>1, <2>1, <2>2, <2>3, <2>4, <2>5 DEF DescriptorTypes
<1>10. OwnFds'
  <2>1. ASSUME NEW g \in Live', fd_'[g] # NoFd
        PROVE  file'[fd_'[g]] = g
    <3>1. CASE g = new
      BY <3>1, <2>1, <1>4, <1>5
    <3>2. CASE g # new
      <4>1. g \in Live /\ fd_'[g] = fd_[g] /\ file[fd_[g]] = g /\ g # Free
        BY <3>2, <2>1, <1>4 DEF OwnFds, DescriptorTypes, Free
      <4>2. fd_[g] \in Fds
        BY <4>1, <2>1 DEF DescriptorTypes, Live, Range
      <4> QED
        BY <4>1, <4>2, <1>5, <2>1
    <3> QED
      BY <3>1, <3>2
  <2>2. \A m \in Fds \ {0} : file'[m] \in {Free, Other} \cup Live'
    BY <1>4, <1>5 DEF OwnFds
  <2> QED
    BY <2>1, <2>2 DEF OwnFds
<1>11. OneFile'
  <2> SUFFICES ASSUME NEW m \in Fds
               PROVE  /\ file'[m] \in 1..ID_COUNT' \cup {Free, Other}
                      /\ file'[m] \in Live' => fd_'[file'[m]] = m
    BY DEF OneFile
  <2>1. CASE m = n
    BY <2>1, <1>1, <1>4, <1>5
  <2>2. CASE m # n
    <3>1. file'[m] = file[m] /\ file[m] \in 1..ID_COUNT \cup {Free, Other}
      BY <2>2, <1>5 DEF OneFile
    <3>2. file[m] # new
      BY <3>1, <1>1 DEF Free, Other
    <3> QED
      BY <3>1, <3>2, <1>1, <1>4 DEF OneFile
  <2> QED
    BY <2>1, <2>2
<1>12. WatchedFiles' /\ Keyed'
  <2>1. ASSUME NEW m \in DOMAIN interest'
        PROVE  file'[m] \in Handlers /\ interest'[m] = Id(file'[m])
    <3>1. m \in Fds
      BY <1>9 DEF DescriptorTypes
    <3>2. CASE m = n
      BY <3>1, <3>2, <1>1, <1>5, <1>7
    <3>3. CASE m # n
      <4>1. m \in DOMAIN interest
        BY <3>3, <1>7
      <4> QED
        BY <4>1, <3>1, <3>3, <1>5, <1>7 DEF WatchedFiles
    <3> QED
      BY <3>2, <3>3
  <2>2. \A i \in DOMAIN handlers' : Id(handlers'[i]) = i
    BY <1>8 DEF Keyed
  <2> QED
    BY <2>1, <2>2 DEF WatchedFiles, Keyed
<1>13. InterestIsCurrent'
  <2>1. ASSUME NEW g \in status', fd_'[g] # NoFd
        PROVE  fd_'[g] \in DOMAIN interest' /\ interest'[fd_'[g]] = Id(g)
    <3>1. CASE g = new
      BY <3>1, <2>1, <1>4, <1>7
    <3>2. CASE g # new
      <4>1. g \in status /\ fd_'[g] = fd_[g]
        BY <3>2, <1>2, <1>4 DEF DescriptorTypes
      <4> QED
        BY <4>1, <2>1, <1>7 DEF InterestIsCurrent
    <3> QED
      BY <3>1, <3>2
  <2>2. ASSUME NEW m \in DOMAIN interest' \ {0}
        PROVE  \E g \in status' : fd_'[g] = m
    <3>1. CASE m = n
      BY <3>1, <1>2, <1>4
    <3>2. CASE m # n
      <4>1. m \in DOMAIN interest \ {0}
        BY <3>2, <1>7
      <4>2. PICK g \in status : fd_[g] = m
        BY <4>1 DEF InterestIsCurrent
      <4>3. g \in status' /\ fd_'[g] = m
        BY <4>2, <1>2, <1>4 DEF DescriptorTypes
      <4> QED
        BY <4>3
    <3> QED
      BY <3>1, <3>2
  <2> QED
    BY <2>1, <2>2 DEF InterestIsCurrent
<1>14. ASSUME NEW g \in status', ~ IdReused(g)'
       PROVE  Id(g) \in DOMAIN handlers' /\ handlers'[Id(g)] = g
  <2>1. CASE g = new
    BY <2>1, <1>8
  <2>2. CASE g # new
    <3>1. g \in status /\ g \in 1..ID_COUNT
      BY <2>2, <1>2 DEF DescriptorTypes
    <3>2. ~ IdReused(g)
      BY <1>1, <1>14 DEF IdReused
    <3>3. Id(g) # Id(new)
      <4> SUFFICES ASSUME Id(g) = Id(new) PROVE FALSE
        OBVIOUS
      <4>1. g \in Nat /\ new % IdCount = g % IdCount
        BY <3>1 DEF Id
      <4>2. (new - g) % IdCount = 0
        BY <4>1, <1>3, SameRemainder, IdCountAssumption
      <4> QED
        BY <4>2, <1>1, <1>14, <2>2 DEF IdReused
    <3> QED
      BY <3>1, <3>2, <3>3, <1>8 DEF FoundById
  <2> QED
    BY <2>1, <2>2
<1>15. FoundById'
  BY <1>14 DEF FoundById
<1> QED
  BY <1>9, <1>10, <1>11, <1>12, <1>13, <1>15

\* Files of other parts of the program come and go.
LEMMA ForeignKeeps ==
  ASSUME Registered, NEW n \in Fds, file[n] \in {Free, Other}, NEW v \in {Free, Other},
         file' = [file EXCEPT ![n] = v],
         UNCHANGED <<interest, fd_, status, handlers, ID_COUNT>>
  PROVE  Registered'
<1> USE DEF Registered
<1>1. Live' = Live /\ \A m \in Fds : file'[m] = IF m = n THEN v ELSE file[m]
  BY DEF Live, DescriptorTypes
<1>2. n \notin DOMAIN interest /\ \A h \in Live : fd_[h] # n
  <2>1. Live \cap {Free, Other} = {} /\ n # NoFd
    BY MaxFdAssumption DEF DescriptorTypes, Free, Other, Fds, NoFd
  <2>2. Handlers \cap {Free, Other} = {}
    BY MaxIdAssumption DEF Handlers, Free, Other
  <2> QED
    BY <2>1, <2>2 DEF WatchedFiles, OwnFds
<1>3. DescriptorTypes'
  BY <1>1 DEF DescriptorTypes, Range, Live
<1>4. OwnFds'
  <2>1. ASSUME NEW h \in Live, fd_[h] # NoFd PROVE file'[fd_[h]] = h
    BY <2>1, <1>1, <1>2 DEF OwnFds, DescriptorTypes, Range, Live
  <2> QED
    BY <2>1, <1>1 DEF OwnFds
<1>5. OneFile'
  <2>1. Live \cap {Free, Other} = {}
    BY DEF DescriptorTypes, Free, Other
  <2> QED
    BY <2>1, <1>1 DEF OneFile
<1>6. WatchedFiles'
  BY <1>1, <1>2 DEF WatchedFiles, DescriptorTypes
<1>7. InterestIsCurrent' /\ Keyed' /\ FoundById'
  BY DEF InterestIsCurrent, Keyed, FoundById, IdReused
<1> QED
  BY <1>3, <1>4, <1>5, <1>6, <1>7

\* The socket of the acceptor is made before anything is registered.
LEMMA CreateKeeps ==
  ASSUME Registered, CreateFd, status = {}
  PROVE  Registered'
<1> USE DEF Registered
<1>1. /\ ID_COUNT = 0 /\ ID_COUNT' = Acceptor /\ Live = {}
      /\ \A n \in Fds : file[n] \in {Free, Other}
  BY DEF CreateFd, DescriptorTypes, OneFile
<1>2. NewFd = NoFd \/ (NewFd \in Fds /\ file[NewFd] = Free)
  BY NewFdIsFree
<1>3. /\ Live' = {Acceptor} /\ fd_'[Acceptor] = NewFd
      /\ UNCHANGED <<interest, status, handlers>>
  BY <1>1 DEF CreateFd, With, Live
<1>4. \A m \in Fds : file'[m] = IF m = NewFd THEN Acceptor ELSE file[m]
  <2>1. NoFd \notin Fds
    BY MaxFdAssumption DEF Fds, NoFd
  <2> QED
    BY <2>1, <1>2 DEF CreateFd, DescriptorTypes
<1>5. DOMAIN interest = {} /\ DOMAIN handlers = {}
  <2>1. DOMAIN interest = {}
    <3>1. ASSUME NEW n \in DOMAIN interest PROVE FALSE
      <4>1. n \in Fds /\ file[n] \in Handlers
        BY DEF WatchedFiles, DescriptorTypes
      <4>2. Handlers \cap {Free, Other} = {}
        BY MaxIdAssumption DEF Handlers, Free, Other
      <4> QED
        BY <4>1, <4>2, <1>1
    <3> QED
      BY <3>1
  <2>2. DOMAIN handlers = {}
    <3>1. ASSUME NEW i \in DOMAIN handlers PROVE FALSE
      <4>1. handlers[i] \in 1..0
        BY <1>1 DEF DescriptorTypes, Range
      <4> QED
        BY <4>1
    <3> QED
      BY <3>1
  <2> QED
    BY <2>1, <2>2
<1>6. DescriptorTypes'
  <2>1. Acceptor \in Handlers /\ Acceptor \in 1..ID_COUNT' /\ ID_COUNT' \in 0..MaxId
    BY <1>1, MaxIdAssumption DEF Handlers, Acceptor
  <2>2. file' \in [Fds -> Handlers \cup {Free, Other}]
    BY <2>1, <1>2 DEF CreateFd, DescriptorTypes
  <2>3. Range(fd_)' \subseteq Fds \cup {NoFd}
    BY <1>2, <1>3 DEF Range, Live
  <2>4. Range(handlers)' \subseteq 1..ID_COUNT' /\ Range(interest)' \subseteq Ids
    BY <1>3, <1>5 DEF Range
  <2> QED
    BY <2>1, <2>2, <2>3, <2>4, <1>3, <1>5 DEF DescriptorTypes
<1>7. OwnFds'
  BY <1>1, <1>2, <1>3, <1>4 DEF OwnFds
<1>8. OneFile'
  <2>1. Acceptor \in 1..ID_COUNT' /\ Acceptor \notin {Free, Other}
    BY <1>1 DEF Acceptor, Free, Other
  <2> QED
    BY <2>1, <1>1, <1>3, <1>4 DEF OneFile
<1> QED
  BY <1>3, <1>5, <1>6, <1>7, <1>8
     DEF WatchedFiles, InterestIsCurrent, Keyed, FoundById, DescriptorTypes

\* A step that touches neither the descriptors nor the counter.
LEMMA SameKeeps ==
  ASSUME Registered, UNCHANGED <<descriptors, ID_COUNT>>
  PROVE  Registered' /\ Live' = Live /\ UNCHANGED <<fd_, kept, status, ID_COUNT>>
  BY DEF Registered, DescriptorTypes, OwnFds, OneFile, WatchedFiles, InterestIsCurrent,
         Keyed, FoundById, IdReused, descriptors, Live, Range

-----------------------------------------------------------------------------

\* A sequence and one more element.
LEMMA OneMore ==
  ASSUME NEW S, NEW a \in Seq(S), NEW e \in S
  PROVE  a \o <<e>> \in Seq(S) /\ a \o <<e>> # <<>>
<1>1. a \o <<e>> = Append(a, e)
  BY AppendIsConcat
<1> QED
  BY <1>1, AppendProperties

LEMMA InitIInv == Init => IInv
<1> SUFFICES ASSUME Init PROVE IInv
  OBVIOUS
<1>1. /\ file \in [Fds -> {Free, Other}]
      /\ DOMAIN interest = {} /\ DOMAIN fd_ = {} /\ DOMAIN handlers = {}
      /\ kept = {} /\ status = {} /\ batch = {} /\ ID_COUNT = 0
      /\ pc = "listen" /\ serving = <<0, 0>>
  BY DEF Init
<1>2. todo \in Seq(ListenCalls) /\ todo # <<>>
  <2>1. PICK snd \in {<<>>, <<"sndbuf">>}, rcv \in {<<>>, <<"rcvbuf">>} :
          todo = <<"nonblock", "reuse", "bind">> \o snd \o rcv \o <<"listen">>
    BY DEF Init
  <2>2. /\ <<"nonblock", "reuse", "bind">> \in Seq(ListenCalls)
        /\ snd \in Seq(ListenCalls) /\ rcv \in Seq(ListenCalls)
    <3>1. /\ <<>> \in Seq(ListenCalls)
          /\ <<"sndbuf">> \in Seq(ListenCalls)
          /\ <<"rcvbuf">> \in Seq(ListenCalls)
      BY DEF ListenCalls
    <3>2. <<"nonblock", "reuse", "bind">> \in Seq(ListenCalls)
      BY DEF ListenCalls
    <3>3. snd \in Seq(ListenCalls) /\ rcv \in Seq(ListenCalls)
      BY <3>1
    <3> QED
      BY <3>2, <3>3
  <2>3. PICK a : a = <<"nonblock", "reuse", "bind">> \o snd \o rcv
    OBVIOUS
  <2>4. a \in Seq(ListenCalls)
    BY <2>2, <2>3
  <2>5. "listen" \in ListenCalls /\ todo = a \o <<"listen">>
    BY <2>1, <2>3 DEF ListenCalls
  <2> QED
    BY <2>4, <2>5, OneMore
<1>3. Registered
  <2>1. DescriptorTypes
    BY <1>1, MaxIdAssumption DEF DescriptorTypes, Range, Live
  <2>2. OwnFds /\ OneFile
    BY <1>1 DEF OwnFds, OneFile, Live
  <2>3. WatchedFiles /\ InterestIsCurrent /\ Keyed /\ FoundById
    BY <1>1 DEF WatchedFiles, InterestIsCurrent, Keyed, FoundById
  <2> QED
    BY <2>1, <2>2, <2>3 DEF Registered
<1>4. OtherTypes
  BY <1>1, <1>2 DEF OtherTypes, States
<1>5. Phases /\ AcceptorListens /\ Reported
  BY <1>1, <1>2 DEF Phases, AcceptorListens, Reported, Acceptor
<1> QED
  BY <1>3, <1>4, <1>5 DEF IInv

\* Listening.
LEMMA ListenKeeps ==
  ASSUME IInv, CreateFd \/ ListenCall \/ ListenFails \/ Start
  PROVE  IInv'
<1> USE DEF IInv
<1>1. CASE CreateFd
  <2>1. Registered'
    BY <1>1, CreateKeeps DEF Phases, CreateFd
  <2>2. /\ pc = "listen" /\ kept = {} /\ status = {} /\ ID_COUNT' = Acceptor
        /\ todo # <<>> /\ Live' = {Acceptor}
        /\ UNCHANGED <<kept, status, pc, todo, batch, serving>>
    BY <1>1 DEF Phases, CreateFd, With, Live, Acceptor, Registered, DescriptorTypes
  <2> QED
    BY <2>1, <2>2 DEF OtherTypes, Phases, AcceptorListens, Reported
<1>2. CASE ListenCall
  <2>1. Registered' /\ Live' = Live /\ UNCHANGED <<fd_, kept, status, ID_COUNT>>
    BY <1>2, SameKeeps DEF ListenCall
  <2>2. /\ pc = "listen" /\ fd_[Acceptor] # NoFd /\ ID_COUNT = Acceptor
        /\ todo' \in Seq(ListenCalls)
        /\ UNCHANGED <<pc, batch, serving>>
    BY <1>2 DEF ListenCall, OtherTypes
  <2> QED
    BY <2>1, <2>2 DEF OtherTypes, Phases, AcceptorListens, Reported
<1>3. CASE ListenFails
  <2>1. Acceptor \in Live
    BY <1>3 DEF ListenFails, Phases
  <2>2. Registered'
    BY <1>3, <2>1, DestroyKeeps DEF ListenFails
  <2>3. /\ kept = {} /\ Acceptor \notin kept /\ pc' = "aborted"
        /\ UNCHANGED <<kept, todo, batch, serving>>
    BY <1>3 DEF ListenFails, Phases
  <2> QED
    BY <2>2, <2>3 DEF OtherTypes, Phases, AcceptorListens, Reported, States
<1>4. CASE Start
  <2>1. /\ Acceptor \in Live /\ Acceptor \notin status /\ fd_[Acceptor] # NoFd
        /\ ID_COUNT = Acceptor /\ ID_COUNT' = ID_COUNT + 2
    BY <1>4 DEF Start, Phases
  <2>2. ID_COUNT' \in ID_COUNT..MaxId
    BY <2>1, MaxIdAssumption DEF Acceptor
  <2>3. Registered'
    BY <1>4, <2>1, <2>2, RegisterKeeps DEF Start
  <2>4. /\ pc' = "outside" /\ Live' = Live
        /\ UNCHANGED <<fd_, kept, todo, batch, serving>>
    BY <1>4 DEF Start, Live
  <2> QED
    BY <2>1, <2>3, <2>4 DEF OtherTypes, Phases, AcceptorListens, Reported, States
<1> QED
  BY <1>1, <1>2, <1>3, <1>4

\* A round of the loop, but for the acceptor and the release of eh.
LEMMA RoundKeeps ==
  ASSUME IInv,
         \/ Poll \/ (\E e \in batch : DispatchSkip(e) \/ Dispatch(e)) \/ BatchDone
         \/ HandlerReturns \/ Aborted
  PROVE  IInv'
<1> USE DEF IInv
<1>1. Registered' /\ Live' = Live /\ UNCHANGED <<fd_, kept, status, ID_COUNT>>
  <2>1. UNCHANGED <<descriptors, ID_COUNT>>
    BY DEF Poll, DispatchSkip, Dispatch, BatchDone, HandlerReturns, Aborted, vars
  <2> QED
    BY <2>1, SameKeeps
<1>2. CASE Poll
  <2>1. PICK ready \in SUBSET DOMAIN interest :
          batch' = {[id |-> interest[n], file |-> file[n]] : n \in ready}
    BY <1>2 DEF Poll
  <2>2. \A n \in DOMAIN interest :
          interest[n] \in Ids /\ file[n] \in Handlers /\ interest[n] = Id(file[n])
    BY DEF Registered, WatchedFiles, DescriptorTypes, Range
  <2>3. batch' \subseteq [id : Ids, file : Handlers] /\ \A e \in batch' : e.id = Id(e.file)
    BY <2>1, <2>2
  <2>4. pc = "outside" /\ pc' = "dispatch" /\ UNCHANGED <<todo, serving>>
    BY <1>2 DEF Poll
  <2> QED
    BY <1>1, <2>3, <2>4 DEF OtherTypes, Phases, AcceptorListens, Reported, States
<1>3. ASSUME NEW e \in batch, DispatchSkip(e)
      PROVE  IInv'
  BY <1>1, <1>3 DEF DispatchSkip, OtherTypes, Phases, AcceptorListens, Reported, States
<1>4. ASSUME NEW e \in batch, Dispatch(e)
      PROVE  IInv'
  <2>1. /\ handlers[e.id] \in Live /\ Id(handlers[e.id]) = e.id
        /\ handlers[e.id] \in Handlers
    <3>1. Found(e.id)
      BY <1>4 DEF Dispatch
    <3>2. handlers[e.id] \in Live /\ Id(handlers[e.id]) = e.id
      BY <3>1 DEF Found, Registered, Keyed
    <3>3. handlers[e.id] \in 1..ID_COUNT /\ ID_COUNT \in 0..MaxId
      BY <3>2 DEF Registered, DescriptorTypes
    <3> QED
      BY <3>2, <3>3, MaxIdAssumption DEF Handlers
  <2>2. e.file \in Handlers /\ e.id = Id(e.file)
    BY DEF OtherTypes, Reported
  <2>3. /\ serving' = <<handlers[e.id], e.file>> /\ batch' = batch \ {e}
        /\ pc = "dispatch" /\ pc' = "serving" /\ UNCHANGED todo
    BY <1>4 DEF Dispatch
  <2> QED
    BY <1>1, <2>1, <2>2, <2>3 DEF OtherTypes, Phases, AcceptorListens, Reported, States
<1>5. CASE BatchDone \/ HandlerReturns \/ Aborted
  BY <1>1, <1>5 DEF BatchDone, HandlerReturns, Aborted, vars,
                    OtherTypes, Phases, AcceptorListens, Reported, States
<1> QED
  BY <1>2, <1>3, <1>4, <1>5

\* The acceptor takes a connection, or a descriptor of -1.
LEMMA AcceptKeeps ==
  ASSUME IInv, Accept \/ AcceptFails
  PROVE  IInv'
<1> USE DEF IInv
<1>1. PICK n \in Fds \cup {NoFd} : (n = NoFd \/ file[n] = Free) /\ AddNewSession(n)
  BY NewFdIsFree DEF Accept, AcceptFails
<1>2. Registered'
  <2>1. n = NoFd \/ (n \in Fds /\ file[n] = Free)
    BY <1>1
  <2> QED
    BY <1>1, <2>1, AddKeeps
<1> DEFINE new == ID_COUNT + 1
<1>3. /\ pc = "serving" /\ pc' = "release" /\ serving[1] = Acceptor
      /\ fd_' = With(fd_, new, n) /\ kept' = kept \cup {new}
      /\ UNCHANGED <<todo, batch, serving>>
  BY <1>1 DEF AddNewSession
<1>4. /\ Acceptor \in Live /\ fd_[Acceptor] # NoFd /\ new # Acceptor
      /\ serving[1] \in Live
  <2>1. Acceptor \in Live /\ fd_[Acceptor] # NoFd /\ serving[1] \in Live
    BY <1>3 DEF AcceptorListens, Phases
  <2>2. Acceptor \in 1..ID_COUNT /\ ID_COUNT \in Nat
    BY <2>1 DEF Registered, DescriptorTypes
  <2> QED
    BY <2>1, <2>2
<1> HIDE DEF new
<1>5. Live' = Live \cup {new} /\ fd_'[Acceptor] = fd_[Acceptor]
  BY <1>3, <1>4 DEF With, Live
<1> QED
  BY <1>2, <1>3, <1>4, <1>5 DEF OtherTypes, Phases, AcceptorListens, Reported, States

\* A handler of a session fails, or returns and is let go.
LEMMA HandledKeeps ==
  ASSUME IInv, HandlerFails \/ Release
  PROVE  IInv'
<1> USE DEF IInv
<1>1. CASE HandlerFails
  <2>1. Registered'
    BY <1>1, RemoveKeeps DEF HandlerFails, Phases
  <2>2. /\ Live' = Live /\ pc = "serving" /\ pc' = "release"
        /\ UNCHANGED <<fd_, kept, todo, batch, serving>>
    BY <1>1 DEF HandlerFails, Live
  <2> QED
    BY <2>1, <2>2 DEF OtherTypes, Phases, AcceptorListens, Reported, States
<1>2. CASE Release /\ serving[1] \in kept \cup {Acceptor}
  <2>1. /\ UNCHANGED <<descriptors, ID_COUNT, todo, batch>>
        /\ pc = "release" /\ pc' = "dispatch" /\ serving' = <<0, 0>>
    BY <1>2 DEF Release
  <2>2. Registered' /\ Live' = Live /\ UNCHANGED <<fd_, kept, status, ID_COUNT>>
    BY <2>1, SameKeeps
  <2> QED
    BY <2>1, <2>2 DEF OtherTypes, Phases, AcceptorListens, Reported, States
<1>3. CASE Release /\ serving[1] \notin kept \cup {Acceptor}
  <2>1. /\ Destroy(serving[1]) /\ UNCHANGED <<kept, handlers, ID_COUNT, todo, batch>>
        /\ pc = "release" /\ pc' = "dispatch" /\ serving' = <<0, 0>>
    BY <1>3 DEF Release
  <2>2. serving[1] \in Live
    BY <2>1 DEF Phases
  <2>3. Registered'
    BY <2>1, <2>2, DestroyKeeps
  <2>4. /\ Live' = Live \ {serving[1]}
        /\ \A g \in Live' : fd_'[g] = fd_[g]
    BY <2>1, WithoutIs DEF Destroy, Live
  <2> QED
    BY <1>3, <2>1, <2>3, <2>4 DEF OtherTypes, Phases, AcceptorListens, Reported, States
<1> QED
  BY <1>1, <1>2, <1>3

\* The user of a session.
LEMMA UserKeeps ==
  ASSUME IInv, NEW s \in kept, UserStop(s) \/ UserSend(s) \/ UserDrop(s)
  PROVE  IInv'
<1> USE DEF IInv
<1>1. s \in Live /\ s # Acceptor /\ pc \in {"outside", "serving", "gone"}
  BY DEF OtherTypes, Phases, UserStop, UserSend, UserDrop, UserRuns
<1>2. CASE UserStop(s) \/ UserSend(s)
  <2>1. ASSUME UserStop(s) PROVE Registered'
    BY <1>1, <2>1, RemoveKeeps DEF UserStop
  <2>2. ASSUME UserSend(s) PROVE Registered'
    <3>1. ID_COUNT' \in ID_COUNT..MaxId
      BY <2>2 DEF UserSend, Registered, DescriptorTypes
    <3> QED
      BY <1>1, <2>2, <3>1, RegisterKeeps DEF UserSend
  <2>3. Live' = Live /\ UNCHANGED <<fd_, kept, pc, todo, batch, serving>>
    BY <1>2 DEF UserStop, UserSend, Live
  <2>4. Registered'
    BY <1>2, <2>1, <2>2
  <2> QED
    BY <1>1, <2>3, <2>4 DEF OtherTypes, Phases, AcceptorListens, Reported, States
<1>3. CASE UserDrop(s) /\ pc = "serving" /\ serving[1] = s
  <2>1. /\ UNCHANGED <<file, interest, fd_, status, handlers, ID_COUNT>>
        /\ kept' = kept \ {s} /\ UNCHANGED <<pc, todo, batch, serving>>
    BY <1>3 DEF UserDrop
  <2>2. Registered' /\ Live' = Live
    BY <2>1 DEF Registered, DescriptorTypes, OwnFds, OneFile, WatchedFiles,
                InterestIsCurrent, Keyed, FoundById, IdReused, Live, Range
  <2> QED
    BY <1>1, <2>1, <2>2 DEF OtherTypes, Phases, AcceptorListens, Reported, States
<1>4. CASE UserDrop(s) /\ ~ (pc = "serving" /\ serving[1] = s)
  <2>1. /\ Destroy(s) /\ UNCHANGED <<handlers, ID_COUNT>>
        /\ kept' = kept \ {s} /\ UNCHANGED <<pc, todo, batch, serving>>
    BY <1>4 DEF UserDrop
  <2>2. Registered'
    BY <1>1, <2>1, DestroyKeeps
  <2>3. /\ Live' = Live \ {s} /\ \A g \in Live' : fd_'[g] = fd_[g]
    BY <2>1, WithoutIs DEF Destroy, Live
  <2> QED
    BY <1>1, <1>4, <2>1, <2>2, <2>3
       DEF OtherTypes, Phases, AcceptorListens, Reported, States
<1> QED
  BY <1>2, <1>3, <1>4

\* The end of the server, and the rest of the program.
LEMMA RestKeeps ==
  ASSUME IInv, Close \/ OtherOpens \/ \E n \in Fds : OtherCloses(n)
  PROVE  IInv'
<1> USE DEF IInv
<1>1. CASE Close
  <2>1. /\ Destroy(Acceptor) /\ UNCHANGED <<kept, handlers, ID_COUNT, todo, batch, serving>>
        /\ pc = "outside" /\ pc' = "gone"
    BY <1>1 DEF Close
  <2>2. Acceptor \in Live /\ Acceptor \notin kept
    BY <2>1 DEF AcceptorListens, Phases
  <2>3. Registered'
    BY <2>1, <2>2, DestroyKeeps
  <2>4. Live' = Live \ {Acceptor}
    BY <2>1, WithoutIs DEF Destroy, Live
  <2> QED
    BY <2>1, <2>2, <2>3, <2>4 DEF OtherTypes, Phases, AcceptorListens, Reported, States
<1>2. CASE OtherOpens \/ \E n \in Fds : OtherCloses(n)
  <2>1. PICK n \in Fds, v \in {Free, Other} :
          file[n] \in {Free, Other} /\ file' = [file EXCEPT ![n] = v]
    BY <1>2, NewFdIsFree DEF OtherOpens, OtherCloses
  <2>2. UNCHANGED <<interest, fd_, kept, status, handlers, ID_COUNT, pc, todo, batch, serving>>
    BY <1>2 DEF OtherOpens, OtherCloses
  <2>3. Registered'
    BY <2>1, <2>2, ForeignKeeps
  <2>4. Live' = Live
    BY <2>2 DEF Live
  <2> QED
    BY <2>2, <2>3, <2>4 DEF OtherTypes, Phases, AcceptorListens, Reported, States
<1> QED
  BY <1>1, <1>2

LEMMA StepKeeps == IInv /\ [Next]_vars => IInv'
<1> SUFFICES ASSUME IInv, [Next]_vars PROVE IInv'
  OBVIOUS
<1>1. CASE CreateFd \/ ListenCall \/ ListenFails \/ Start
  BY <1>1, ListenKeeps
<1>2. CASE \/ Poll \/ (\E e \in batch : DispatchSkip(e) \/ Dispatch(e)) \/ BatchDone
           \/ HandlerReturns \/ Aborted
  BY <1>2, RoundKeeps
<1>3. CASE Accept \/ AcceptFails
  BY <1>3, AcceptKeeps
<1>4. CASE HandlerFails \/ Release
  BY <1>4, HandledKeeps
<1>5. CASE \E s \in kept : UserStop(s) \/ UserSend(s) \/ UserDrop(s)
  BY <1>5, UserKeeps
<1>6. CASE Close \/ OtherOpens \/ \E n \in Fds : OtherCloses(n)
  BY <1>6, RestKeeps
<1>7. CASE UNCHANGED vars
  <2>1. UNCHANGED <<descriptors, ID_COUNT, pc, todo, batch, serving>>
    BY <1>7 DEF vars
  <2>2. Registered' /\ Live' = Live /\ UNCHANGED <<fd_, kept, status, ID_COUNT>>
    BY <2>1, SameKeeps DEF IInv
  <2> QED
    BY <2>1, <2>2 DEF IInv, OtherTypes, Phases, AcceptorListens, Reported
<1> QED
  BY <1>1, <1>2, <1>3, <1>4, <1>5, <1>6, <1>7 DEF Next

(***************************************************************************)
(* The records of descriptors, interest, ids and handlers stay in step, as *)
(* IInv says, through every run of the server.                             *)
(***************************************************************************)
THEOREM Invariant == Spec => []IInv
  BY InitIInv, StepKeeps, PTL DEF Spec

\* Every variable keeps its type, whatever the thread and the program do.
THEOREM TypeCorrect == Spec => []TypeOK
<1>1. IInv => TypeOK
  BY DEF IInv, Registered, DescriptorTypes, OtherTypes, TypeOK
<1> QED
  BY Invariant, <1>1, PTL

(***************************************************************************)
(* A Socket's descriptor is its own until ~Socket closes it, and only      *)
(* descriptor 0 outlives its Socket, however often the kernel gives a      *)
(* descriptor out again.                                                   *)
(***************************************************************************)
THEOREM FdsAreOwned == Spec => []OwnFds
<1>1. IInv => OwnFds
  BY DEF IInv, Registered
<1> QED
  BY Invariant, <1>1, PTL

(***************************************************************************)
(* An Acceptor that was built has a descriptor, though CreateFd takes -1   *)
(* for one: the first of Listen's calls fails on it.                       *)
(***************************************************************************)
THEOREM AcceptorHasSocket == Spec => []AcceptorListens
<1>1. IInv => AcceptorListens
  BY DEF IInv
<1> QED
  BY Invariant, <1>1, PTL

(***************************************************************************)
(* What the kernel watches are the descriptors of the registered handlers, *)
(* with their ids, for any sequence of Send, Stop, failures, destructions  *)
(* and reuse; descriptor 0 apart.                                          *)
(***************************************************************************)
THEOREM InterestStaysCurrent == Spec => []InterestIsCurrent
<1>1. IInv => InterestIsCurrent
  BY DEF IInv, Registered
<1> QED
  BY Invariant, <1>1, PTL

(***************************************************************************)
(* DispatchAndProcess calls the handler whose file epoll_wait reported, or *)
(* one a whole turn of ID_COUNT away from it.                              *)
(***************************************************************************)
THEOREM EntriesServedRight == Spec => []ServedAsReported
<1>1. ASSUME IInv PROVE ServedAsReported
  <2> SUFFICES ASSUME pc = "serving"
               PROVE  \/ serving[1] = serving[2]
                      \/ serving[1] >= serving[2] + IdCount
                      \/ serving[2] >= serving[1] + IdCount
    BY DEF ServedAsReported
  <2>1. /\ serving[1] \in Nat /\ serving[2] \in Nat
        /\ serving[1] % IdCount = serving[2] % IdCount
    BY <1>1, MaxIdAssumption DEF IInv, Reported, Handlers, Id
  <2> QED
    BY <2>1, SameRemainder, IdCountAssumption
<1> QED
  BY Invariant, <1>1, PTL

(***************************************************************************)
(* handlers_ finds every registered handler by its id, until ID_COUNT has  *)
(* wrapped around to that id.                                              *)
(***************************************************************************)
THEOREM HandlersAreFound == Spec => []FoundById
<1>1. IInv => FoundById
  BY DEF IInv, Registered
<1> QED
  BY Invariant, <1>1, PTL

=============================================================================
