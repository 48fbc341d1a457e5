------------------------- MODULE SelectServerProofs -------------------------
(***************************************************************************)
(* SlotsMatchSockets, NeverBlocksInRecv and OrderlyClientsHarmless for any *)
(* number of clients, slots, descriptors and lines.  The first two are not *)
(* inductive by themselves: that a number stands for one client only       *)
(* (OneSocketEach), and that what select() reported stays true until its   *)
(* turn comes (StillReadable), complete them.  The third needs a count of  *)
(* what is under way between the server and each client (Counted).         *)
(***************************************************************************)
EXTENDS SelectServer, TLAPS

\* A client is on at most one descriptor, and in the backlog or accepted.
OneSocketEach ==
    /\ \A f, g \in Fd : fdTable[f] # None /\ fdTable[f] = fdTable[g] => f = g
    /\ \A f \in Fd : fdTable[f] # None =>
          fdTable[f] \notin backlog /\ clientPc[fdTable[f]] # "away"
    /\ \A c \in backlog \cup refused : clientPc[c] # "away"
    /\ refused \cap backlog = {}

\* The slots that ProcessTheNewRequest has still to come to.
ToCome == IF pc = "reply" THEN {i \in Index : i > nIndex} ELSE {i \in Index : i >= nIndex}

StillReadable ==
    /\ 0 \notin fr
    /\ pc = "accept" => \A f \in fr \ {nSocket} : Readable(f)
    /\ pc = "reply" => nIndex \in Index /\ nArrClient[nIndex] # 0
    /\ \A i \in ToCome : nArrClient[i] \in fr => Readable(nArrClient[i])

Inv == TypeOK /\ SlotsMatchSockets /\ OneSocketEach /\ StillReadable

LEMMA InitInv == Init => Inv
<1> SUFFICES ASSUME Init
             PROVE  Inv
  OBVIOUS
<1> USE SelectAssumption
<1>1. TypeOK
  BY DEF Init, TypeOK, Index, Number
<1>2. SlotsMatchSockets
  BY DEF Init, SlotsMatchSockets
<1>3. OneSocketEach
  BY DEF Init, OneSocketEach
<1>4. StillReadable
  BY DEF Init, StillReadable
<1> QED
  BY <1>1, <1>2, <1>3, <1>4 DEF Inv

\* The descriptor of a used slot is open, and its client has no other.
LEMMA UsedSlot ==
    ASSUME Inv, NEW i \in Index, nArrClient[i] # 0
    PROVE  /\ nArrClient[i] \in Fd
           /\ PeerAt(i) \in Client
           /\ \A j \in Index : j # i /\ nArrClient[j] # 0 =>
                 nArrClient[j] # nArrClient[i] /\ PeerAt(j) # PeerAt(i)
<1>1. nArrClient[i] \in Fd
  BY DEF Inv, TypeOK, Number
<1>2. PeerAt(i) \in Client
  BY <1>1 DEF Inv, TypeOK, SlotsMatchSockets, PeerAt
<1>3. ASSUME NEW j \in Index, j # i, nArrClient[j] # 0
      PROVE  nArrClient[j] # nArrClient[i] /\ PeerAt(j) # PeerAt(i)
  <2>1. nArrClient[j] \in Fd
    BY <1>3 DEF Inv, TypeOK, Number
  <2>2. nArrClient[j] # nArrClient[i]
    BY <1>3 DEF Inv, SlotsMatchSockets
  <2> QED
    BY <1>1, <1>2, <2>1, <2>2, SelectAssumption DEF Inv, OneSocketEach, PeerAt
<1> QED
  BY <1>1, <1>2, <1>3

LEMMA SendType ==
    ASSUME TypeOK, NEW c \in Client, NEW next \in {"scan"}, Send(c, next)
    PROVE  /\ toClient' \in [Client -> Nat]
           /\ reset' \subseteq Client
           /\ pc' \in {next, "dead"}
  BY DEF Send, TypeOK

LEMMA SelectKeeps == Inv /\ Select => Inv'
<1> SUFFICES ASSUME Inv, Select
             PROVE  Inv'
  OBVIOUS
<1> USE SelectAssumption DEF Inv, Select, serverVars, clientVars, wireVars
<1>1. Ready \subseteq Fd \cup {nSocket}
  BY DEF Ready, Watched, TypeOK, Number
<1>2. \A f \in Ready \ {nSocket} : Readable(f)
  BY DEF Ready
<1>3. TypeOK'
  BY <1>1 DEF TypeOK
<1>4. SlotsMatchSockets'
  BY DEF SlotsMatchSockets
<1>5. OneSocketEach'
  BY DEF OneSocketEach
<1>6. StillReadable'
  <2>1. \A f \in fr' \ {nSocket} : Readable(f)'
    BY <1>2 DEF Readable
  <2>2. \A i \in Index : nArrClient'[i] # nSocket
    BY DEF TypeOK, Number
  <2>3. 0 \notin fr'
    BY <1>1
  <2> QED
    BY <2>1, <2>2, <2>3 DEF StillReadable, ToCome
<1> QED
  BY <1>3, <1>4, <1>5, <1>6

LEMMA EndOfScanKeeps == Inv /\ EndOfScan => Inv'
<1> SUFFICES ASSUME Inv, EndOfScan
             PROVE  Inv'
  OBVIOUS
<1> USE SelectAssumption DEF Inv, EndOfScan, clientVars, wireVars
<1>1. TypeOK'
  BY DEF TypeOK
<1>2. SlotsMatchSockets'
  BY DEF SlotsMatchSockets
<1>3. OneSocketEach'
  BY DEF OneSocketEach
<1>4. StillReadable'
  BY DEF StillReadable, ToCome
<1> QED
  BY <1>1, <1>2, <1>3, <1>4

LEMMA AcceptFailsKeeps == Inv /\ AcceptFails => Inv'
<1> SUFFICES ASSUME Inv, AcceptFails
             PROVE  Inv'
  OBVIOUS
<1> USE SelectAssumption DEF Inv, AcceptFails, clientVars, wireVars
<1>1. TypeOK'
  BY DEF TypeOK
<1>2. SlotsMatchSockets' /\ OneSocketEach'
  BY DEF SlotsMatchSockets, OneSocketEach
<1>3. StillReadable'
  <2>1. \A i \in Index : nArrClient[i] # nSocket
    BY DEF TypeOK, Number
  <2>2. \A f \in fr \ {nSocket} : Readable(f) /\ Readable(f)'
    BY DEF StillReadable, Readable
  <2>3. 0 \notin fr
    BY DEF TypeOK
  <2> QED
    BY <2>1, <2>2, <2>3 DEF StillReadable, ToCome
<1> QED
  BY <1>1, <1>2, <1>3

\* What accept() does to the descriptor table, whether there is a slot or not.
LEMMA AcceptedKeeps ==
    ASSUME Inv, NEW c \in Client, NEW f \in Fd, Accepted(c, f),
           UNCHANGED <<fr, nIndex, clientVars, toServer>>
    PROVE  /\ fdTable' \in [Fd -> Client \cup {None}] /\ fdTable'[f] = c
           /\ backlog' \subseteq Client
           /\ f \notin fr /\ f # nSocket
           /\ \A i \in Index : nArrClient[i] # f
           /\ \A g \in Fd : fdTable[g] # c
           /\ \A g \in Fd \ {f} : fdTable'[g] = fdTable[g]
           /\ \A g \in Fd : Readable(g) => Readable(g)'
           /\ c \notin refused /\ c # None
<1> USE SelectAssumption DEF Inv, Accepted, clientVars
<1>1. fdTable' \in [Fd -> Client \cup {None}] /\ fdTable'[f] = c /\ c # None
  BY DEF TypeOK
<1>2. backlog' \subseteq Client
  BY DEF TypeOK
<1>3. f \notin fr /\ f # nSocket
  BY DEF StillReadable, Readable
<1>4. \A i \in Index : nArrClient[i] # f
  <2> SUFFICES ASSUME NEW i \in Index, nArrClient[i] = f
               PROVE  FALSE
    OBVIOUS
  <2>1. nArrClient[i] # 0
    OBVIOUS
  <2> QED
    BY <2>1 DEF SlotsMatchSockets
<1>5. (\A g \in Fd : fdTable[g] # c) /\ c \notin refused
  BY <1>1 DEF OneSocketEach
<1>6. \A g \in Fd \ {f} : fdTable'[g] = fdTable[g]
  BY DEF TypeOK
<1>7. \A g \in Fd : Readable(g) => Readable(g)'
  BY <1>6 DEF Readable
<1> QED
  BY <1>1, <1>2, <1>3, <1>4, <1>5, <1>6, <1>7

LEMMA ServeKeeps ==
    ASSUME Inv, NEW c \in Client, NEW f \in Fd, NEW i \in Index, Serve(c, f, i)
    PROVE  Inv'
<1>1. /\ Accepted(c, f) /\ FirstFree(i) /\ Send(c, "scan")
      /\ UNCHANGED <<fr, nIndex, refused, clientVars, toServer>>
  BY DEF Serve
<1>2. /\ fdTable' \in [Fd -> Client \cup {None}] /\ fdTable'[f] = c
      /\ backlog' \subseteq Client
      /\ f \notin fr /\ f # nSocket
      /\ \A j \in Index : nArrClient[j] # f
      /\ \A g \in Fd : fdTable[g] # c
      /\ \A g \in Fd \ {f} : fdTable'[g] = fdTable[g]
      /\ \A g \in Fd : Readable(g) => Readable(g)'
      /\ c \notin refused /\ c # None
  BY <1>1, AcceptedKeeps
<1>3. /\ toClient' \in [Client -> Nat]
      /\ reset' \subseteq Client
      /\ pc' \in {"scan", "dead"}
  BY <1>1, SendType DEF Inv
<1>4. /\ nArrClient' = [nArrClient EXCEPT ![i] = f]
      /\ nArrClient \in [Index -> Number]
      /\ nArrClient[i] = 0 /\ f # 0
  BY <1>1, SelectAssumption DEF Serve, FirstFree, Inv, TypeOK
<1>5. /\ nMaxFd \in Nat /\ f \in Nat
      /\ nMaxFd' = IF f > nMaxFd THEN f ELSE nMaxFd
  BY SelectAssumption DEF Serve, Inv, TypeOK
<1>6. TypeOK'
  BY <1>1, <1>2, <1>3, <1>4, <1>5 DEF Inv, TypeOK, Number, clientVars
<1>7. SlotsMatchSockets'
  <2>1. ASSUME NEW j \in Index, nArrClient'[j] # 0
        PROVE  /\ nArrClient'[j] <= nMaxFd'
               /\ fdTable'[nArrClient'[j]] \notin refused' \cup {None}
               /\ \A k \in Index : nArrClient'[j] = nArrClient'[k] => j = k
    <3>1. CASE j = i
      BY <1>1, <1>2, <1>4, <1>5, <3>1
    <3>2. CASE j # i
      <4>1. nArrClient'[j] = nArrClient[j] /\ nArrClient[j] \in Fd \ {f}
        BY <1>2, <1>4, <2>1, <3>2 DEF Number
      <4>2. nArrClient[j] <= nMaxFd /\ nArrClient[j] \in Nat
        BY <4>1, <2>1, SelectAssumption DEF Inv, SlotsMatchSockets
      <4>3. fdTable[nArrClient[j]] \notin refused \cup {None}
        BY <4>1, <2>1 DEF Inv, SlotsMatchSockets
      <4>4. \A k \in Index : nArrClient'[j] = nArrClient'[k] => j = k
        BY <1>2, <1>4, <4>1, <2>1 DEF Inv, SlotsMatchSockets
      <4> QED
        BY <1>1, <1>2, <1>5, <4>1, <4>2, <4>3, <4>4
    <3> QED
      BY <3>1, <3>2
  <2>2. ASSUME NEW g \in Fd, fdTable'[g] # None
        PROVE  fdTable'[g] \in refused' \/ \E j \in Index : nArrClient'[j] = g
    <3>1. CASE g = f
      BY <1>4, <3>1
    <3>2. CASE g # f
      <4>1. fdTable[g] \in refused \/ \E j \in Index : nArrClient[j] = g
        BY <1>2, <2>2, <3>2 DEF Inv, SlotsMatchSockets
      <4>2. \A j \in Index : nArrClient[j] = g => nArrClient'[j] = g
        BY <1>4, SelectAssumption
      <4> QED
        BY <1>1, <1>2, <3>2, <4>1, <4>2
    <3> QED
      BY <3>1, <3>2
  <2> QED
    BY <2>1, <2>2 DEF SlotsMatchSockets
<1>8. OneSocketEach'
  BY <1>1, <1>2 DEF Inv, OneSocketEach, Accepted, clientVars
<1>9. StillReadable'
  <2>1. pc' \notin {"accept", "reply"} /\ pc # "reply"
    BY <1>1, <1>3 DEF Accepted
  <2>2. ASSUME NEW j \in ToCome', nArrClient'[j] \in fr'
        PROVE  Readable(nArrClient[j])'
    <3>1. j \in ToCome /\ j \in Index /\ nArrClient'[j] = nArrClient[j]
      BY <1>1, <1>2, <1>4, <2>1, <2>2 DEF ToCome
    <3>2. Readable(nArrClient[j])
      BY <1>1, <2>2, <3>1 DEF Inv, StillReadable
    <3> QED
      BY <1>2, <3>1, <3>2 DEF Readable
  <2> QED
    BY <1>1, <2>1, <2>2 DEF Inv, StillReadable
<1> QED
  BY <1>6, <1>7, <1>8, <1>9 DEF Inv

LEMMA RefuseKeeps ==
    ASSUME Inv, NEW c \in Client, NEW f \in Fd, Refuse(c, f)
    PROVE  Inv'
<1>1. /\ Accepted(c, f) /\ refused' = refused \cup {c} /\ pc' = "scan" /\ pc = "accept"
      /\ UNCHANGED <<nArrClient, fr, nIndex, clientVars, toServer, toClient, reset>>
  BY DEF Refuse, Accepted
<1>2. /\ fdTable' \in [Fd -> Client \cup {None}] /\ fdTable'[f] = c
      /\ backlog' \subseteq Client
      /\ f \notin fr /\ f # nSocket
      /\ \A j \in Index : nArrClient[j] # f
      /\ \A g \in Fd : fdTable[g] # c
      /\ \A g \in Fd \ {f} : fdTable'[g] = fdTable[g]
      /\ \A g \in Fd : Readable(g) => Readable(g)'
      /\ c \notin refused /\ c # None
  BY <1>1, AcceptedKeeps
<1>3. /\ nMaxFd \in Nat /\ f \in Nat
      /\ nMaxFd' = IF f > nMaxFd THEN f ELSE nMaxFd
  BY SelectAssumption DEF Refuse, Inv, TypeOK
<1>4. TypeOK'
  BY <1>1, <1>2, <1>3 DEF Inv, TypeOK, clientVars
<1>5. SlotsMatchSockets'
  <2>1. ASSUME NEW j \in Index, nArrClient[j] # 0
        PROVE  /\ nArrClient[j] <= nMaxFd'
               /\ fdTable'[nArrClient[j]] \notin refused' \cup {None}
    <3>1. nArrClient[j] \in Fd \ {f} /\ nArrClient[j] \in Nat
      BY <1>2, <2>1, SelectAssumption DEF Inv, TypeOK, Number
    <3>2. nArrClient[j] <= nMaxFd /\ fdTable[nArrClient[j]] \notin refused \cup {None}
      BY <2>1 DEF Inv, SlotsMatchSockets
    <3> QED
      BY <1>1, <1>2, <1>3, <3>1, <3>2
  <2>2. ASSUME NEW g \in Fd, fdTable'[g] # None
        PROVE  fdTable'[g] \in refused' \/ \E j \in Index : nArrClient[j] = g
    BY <1>1, <1>2, <2>2 DEF Inv, SlotsMatchSockets
  <2>3. \A j, k \in Index : nArrClient[j] # 0 /\ nArrClient[j] = nArrClient[k] => j = k
    BY DEF Inv, SlotsMatchSockets
  <2> QED
    BY <1>1, <2>1, <2>2, <2>3 DEF SlotsMatchSockets
<1>6. OneSocketEach'
  BY <1>1, <1>2 DEF Inv, OneSocketEach, Accepted, clientVars
<1>7. StillReadable'
  <2>1. ASSUME NEW j \in ToCome', nArrClient'[j] \in fr'
        PROVE  Readable(nArrClient[j])'
    <3>1. j \in ToCome
      BY <1>1, <2>1 DEF ToCome
    <3>2. Readable(nArrClient[j])
      BY <1>1, <2>1, <3>1 DEF Inv, StillReadable
    <3> QED
      BY <1>1, <1>2, <3>2 DEF Readable
  <2> QED
    BY <1>1, <2>1 DEF Inv, StillReadable
<1> QED
  BY <1>4, <1>5, <1>6, <1>7 DEF Inv

LEMMA TurnSlot ==
    ASSUME Inv, NEW i \in Index, Turn(i)
    PROVE  /\ nArrClient[i] # 0 /\ i \in ToCome
           /\ Readable(nArrClient[i])
  BY DEF Inv, Turn, StillReadable, ToCome

LEMMA ReceiveKeeps ==
    ASSUME Inv, NEW i \in Index, Receive(i)
    PROVE  Inv'
<1>1. /\ Turn(i) /\ nIndex' = i /\ pc' = "reply" /\ pc = "scan" /\ i >= nIndex
      /\ UNCHANGED <<nArrClient, nMaxFd, fr, fdTable, refused, clientVars, backlog,
                      toClient, reset>>
  BY DEF Receive, Turn
<1>2. nArrClient[i] # 0
  BY <1>1, TurnSlot
<1>3. PeerAt(i) \in Client
  BY <1>2, UsedSlot
<1>4. PICK n \in 1..toServer[PeerAt(i)] :
         toServer' = [toServer EXCEPT ![PeerAt(i)] = @ - n]
  BY DEF Receive
<1>5. /\ toServer \in [Client -> Nat] /\ toServer' \in [Client -> Nat]
      /\ \A c \in Client \ {PeerAt(i)} : toServer'[c] = toServer[c]
  BY <1>3, <1>4 DEF Inv, TypeOK
<1>6. TypeOK'
  BY <1>1, <1>5, SelectAssumption DEF Inv, TypeOK, clientVars, Index
<1>7. SlotsMatchSockets' /\ OneSocketEach'
  BY <1>1 DEF Inv, SlotsMatchSockets, OneSocketEach, clientVars
<1>8. StillReadable'
  <2>1. ASSUME NEW j \in ToCome', nArrClient'[j] \in fr'
        PROVE  Readable(nArrClient[j])'
    <3>1. j \in ToCome /\ j \in Index /\ j # i
      BY <1>1, SelectAssumption DEF ToCome, Index, Inv, TypeOK
    <3>2. Readable(nArrClient[j]) /\ nArrClient[j] # 0
      BY <1>1, <2>1, <3>1 DEF Inv, StillReadable
    <3>3. PeerAt(j) \in Client \ {PeerAt(i)}
      BY <1>2, <3>1, <3>2, UsedSlot
    <3> QED
      BY <1>1, <1>5, <3>2, <3>3 DEF Readable, PeerAt, clientVars
  <2> QED
    BY <1>1, <1>2, <2>1 DEF Inv, StillReadable
<1> QED
  BY <1>6, <1>7, <1>8 DEF Inv

LEMMA ReplyKeeps == Inv /\ Reply => Inv'
<1> SUFFICES ASSUME Inv, Reply
             PROVE  Inv'
  OBVIOUS
<1>1. /\ pc = "reply" /\ Send(PeerAt(nIndex), "scan") /\ nIndex' = nIndex + 1
      /\ UNCHANGED <<nArrClient, nMaxFd, fr, fdTable, refused, clientVars, backlog, toServer>>
  BY DEF Reply
<1>2. nIndex \in Index /\ nArrClient[nIndex] # 0
  BY <1>1 DEF Inv, StillReadable
<1>3. PeerAt(nIndex) \in Client
  BY <1>2, UsedSlot
<1>4. /\ toClient' \in [Client -> Nat]
      /\ reset' \subseteq Client
      /\ pc' \in {"scan", "dead"}
  BY <1>1, <1>3, SendType DEF Inv
<1>5. nIndex' \in 1..(Slots + 1)
  BY <1>1, <1>2, SelectAssumption DEF Index
<1>6. TypeOK'
  BY <1>1, <1>4, <1>5 DEF Inv, TypeOK, clientVars
<1>7. SlotsMatchSockets' /\ OneSocketEach'
  BY <1>1 DEF Inv, SlotsMatchSockets, OneSocketEach, clientVars
<1>8. StillReadable'
  <2>1. ASSUME NEW j \in ToCome', nArrClient'[j] \in fr'
        PROVE  Readable(nArrClient[j])'
    <3>1. j \in ToCome
      BY <1>1, <1>2, <1>4, <2>1 DEF ToCome, Index
    <3>2. Readable(nArrClient[j])
      BY <1>1, <2>1, <3>1 DEF Inv, StillReadable
    <3> QED
      BY <1>1, <3>2 DEF Readable, clientVars
  <2> QED
    BY <1>1, <1>4, <2>1 DEF Inv, StillReadable
<1> QED
  BY <1>6, <1>7, <1>8 DEF Inv

LEMMA DropKeeps ==
    ASSUME Inv, NEW i \in Index, Drop(i)
    PROVE  Inv'
<1>1. /\ Turn(i) /\ nIndex' = i + 1 /\ pc = "scan" /\ i >= nIndex
      /\ Close(PeerAt(i), nArrClient[i])
      /\ UNCHANGED <<pc, nMaxFd, fr, refused, clientVars, backlog, toClient>>
  BY DEF Drop, Turn
<1>2. nArrClient[i] # 0
  BY <1>1, TurnSlot
<1>3. /\ nArrClient[i] \in Fd /\ PeerAt(i) \in Client
      /\ \A j \in Index : j # i /\ nArrClient[j] # 0 =>
            nArrClient[j] # nArrClient[i] /\ PeerAt(j) # PeerAt(i)
  BY <1>2, UsedSlot
\* The first slot with the descriptor is the slot whose turn it is.
<1>4. nArrClient' = [nArrClient EXCEPT ![i] = 0]
  <2>1. PICK k \in Index : nArrClient[k] = nArrClient[i]
                           /\ nArrClient' = [nArrClient EXCEPT ![k] = 0]
    BY DEF Drop
  <2>2. k = i
    BY <1>2, <1>3, <2>1
  <2> QED
    BY <2>1, <2>2
<1>5. nArrClient \in [Index -> Number] /\ nArrClient' \in [Index -> Number]
  BY <1>4 DEF Inv, TypeOK, Number
<1>6. \A j \in Index : nArrClient'[j] = IF j = i THEN 0 ELSE nArrClient[j]
  BY <1>4, <1>5
<1>7. /\ fdTable' = [fdTable EXCEPT ![nArrClient[i]] = None]
      /\ fdTable' \in [Fd -> Client \cup {None}]
      /\ \A g \in Fd : fdTable'[g] = IF g = nArrClient[i] THEN None ELSE fdTable[g]
  BY <1>1, <1>3 DEF Close, Inv, TypeOK
<1>8. /\ toServer' \in [Client -> Nat] /\ reset' \subseteq Client
      /\ \A c \in Client \ {PeerAt(i)} : toServer'[c] = toServer[c]
  BY <1>1, <1>3 DEF Close, Inv, TypeOK
<1>9. nIndex' \in 1..(Slots + 1)
  BY <1>1, SelectAssumption DEF Index
<1>10. TypeOK'
  BY <1>1, <1>5, <1>7, <1>8, <1>9 DEF Inv, TypeOK, clientVars
<1>11. SlotsMatchSockets'
  <2>1. ASSUME NEW j \in Index, nArrClient'[j] # 0
        PROVE  /\ nArrClient'[j] <= nMaxFd'
               /\ fdTable'[nArrClient'[j]] \notin refused' \cup {None}
               /\ \A k \in Index : nArrClient'[j] = nArrClient'[k] => j = k
    <3>1. j # i /\ nArrClient'[j] = nArrClient[j] /\ nArrClient[j] # nArrClient[i]
      BY <1>3, <1>6, <2>1
    <3>2. nArrClient[j] \in Fd
      BY <1>5, <2>1, <3>1 DEF Number
    <3> QED
      BY <1>1, <1>6, <1>7, <2>1, <3>1, <3>2 DEF Inv, SlotsMatchSockets
  <2>2. ASSUME NEW g \in Fd, fdTable'[g] # None
        PROVE  fdTable'[g] \in refused' \/ \E j \in Index : nArrClient'[j] = g
    <3>1. g # nArrClient[i] /\ fdTable'[g] = fdTable[g]
      BY <1>7, <2>2
    <3>2. fdTable[g] \in refused \/ \E j \in Index : nArrClient[j] = g
      BY <2>2, <3>1 DEF Inv, SlotsMatchSockets
    <3> QED
      BY <1>1, <1>6, <3>1, <3>2
  <2> QED
    BY <2>1, <2>2 DEF SlotsMatchSockets
<1>12. OneSocketEach'
  BY <1>1, <1>7 DEF Inv, OneSocketEach, clientVars
<1>13. StillReadable'
  <2>1. ASSUME NEW j \in ToCome', nArrClient'[j] \in fr'
        PROVE  Readable(nArrClient[j])'
    <3>1. j \in ToCome /\ j \in Index /\ j # i
      BY <1>1, SelectAssumption DEF ToCome, Index, Inv, TypeOK
    <3>2. Readable(nArrClient[j]) /\ nArrClient'[j] = nArrClient[j] /\ nArrClient[j] # 0
      BY <1>1, <1>6, <2>1, <3>1 DEF Inv, StillReadable
    <3>3. PeerAt(j) \in Client \ {PeerAt(i)} /\ nArrClient[j] # nArrClient[i]
      BY <1>3, <3>1, <3>2, UsedSlot
    <3>4. nArrClient[j] \in Fd /\ fdTable'[nArrClient[j]] = fdTable[nArrClient[j]]
      BY <1>7, <3>2, <3>3 DEF Readable
    <3> QED
      BY <1>1, <1>8, <3>2, <3>3, <3>4 DEF Readable, PeerAt, clientVars
  <2> QED
    BY <1>1, <2>1 DEF Inv, StillReadable
<1> QED
  BY <1>10, <1>11, <1>12, <1>13 DEF Inv

\* A client takes nothing away that the server relies on: it only adds to what
\* is under way, and it is never "away" again.
LEMMA ClientKeeps ==
    ASSUME Inv, NEW c \in Client, ClientStep(c)
    PROVE  Inv'
<1>1. UNCHANGED serverVars
  BY DEF ClientStep, Connect, SendLine, ReceiveReply, Quit, KillClient, Leave
<1>2. TypeOK'
  <2>1. CASE Connect(c)
    BY <2>1 DEF Inv, TypeOK, Connect, Become, serverVars
  <2>2. CASE SendLine(c)
    <3>1. PICK n \in Nat : /\ toServer' = [toServer EXCEPT ![c] = @ + n]
                           /\ long' = IF n > 1 THEN long \cup {c} ELSE long
      BY <2>2, SelectAssumption DEF SendLine
    <3>2. toServer' \in [Client -> Nat] /\ long' \subseteq Client
      BY <3>1 DEF Inv, TypeOK
    <3>3. /\ lines' = [lines EXCEPT ![c] = @ + 1] /\ lines[c] < MaxLines[c]
          /\ lines \in [Client -> Nat] /\ \A d \in Client : lines[d] <= MaxLines[d]
          /\ MaxLines \in [Client -> Nat]
      BY <2>2, SelectAssumption DEF SendLine, Inv, TypeOK
    <3>4. lines' \in [Client -> Nat] /\ \A d \in Client : lines'[d] <= MaxLines[d]
      BY <3>3
    <3>5. clientPc' = [clientPc EXCEPT ![c] = "waiting"]
      BY <2>2 DEF SendLine, Become
    <3> QED
      BY <2>2, <3>2, <3>4, <3>5 DEF Inv, TypeOK, SendLine, serverVars
  <2>3. CASE ReceiveReply(c)
    BY <2>3 DEF Inv, TypeOK, ReceiveReply, Become, serverVars
  <2>4. CASE Quit(c) \/ KillClient(c)
    BY <2>4 DEF Inv, TypeOK, Quit, KillClient, Leave, Become, Ended, serverVars
  <2> QED
    BY <2>1, <2>2, <2>3, <2>4 DEF ClientStep
<1>3. /\ \A d \in Client : clientPc[d] # "away" => clientPc'[d] # "away"
      /\ \A d \in Client : clientPc[d] \in Ended => clientPc'[d] \in Ended
      /\ \A d \in Client : toServer[d] > 0 => toServer'[d] > 0
  <2>1. CASE Connect(c)
    BY <2>1 DEF Inv, TypeOK, Connect, Become, Ended
  <2>2. CASE SendLine(c)
    <3>1. clientPc' = [clientPc EXCEPT ![c] = "waiting"] /\ clientPc[c] = "typing"
      BY <2>2 DEF SendLine, Become
    <3>2. PICK n \in Nat : toServer' = [toServer EXCEPT ![c] = @ + n]
      BY <2>2, SelectAssumption DEF SendLine
    <3>3. \A d \in Client : toServer[d] > 0 => toServer'[d] > 0
      BY <3>2 DEF Inv, TypeOK
    <3> QED
      BY <3>1, <3>3 DEF Inv, TypeOK, Ended
  <2>3. CASE ReceiveReply(c)
    BY <2>3 DEF Inv, TypeOK, ReceiveReply, Become, Ended
  <2>4. CASE Quit(c) \/ KillClient(c)
    BY <2>4 DEF Inv, TypeOK, Quit, KillClient, Leave, Become, Ended
  <2> QED
    BY <2>1, <2>2, <2>3, <2>4 DEF ClientStep
<1>4. SlotsMatchSockets'
  BY <1>1 DEF Inv, SlotsMatchSockets, serverVars
<1>5. \/ backlog' = backlog
      \/ clientPc[c] = "away" /\ clientPc'[c] # "away" /\ backlog' = backlog \cup {c}
  BY DEF ClientStep, Connect, SendLine, ReceiveReply, Quit, KillClient, Leave, Become,
         Inv, TypeOK
<1>6. OneSocketEach'
  <2>1. \A f \in Fd : fdTable[f] # None =>
           fdTable[f] \in Client /\ fdTable[f] \notin backlog' /\ clientPc'[fdTable[f]] # "away"
    BY <1>3, <1>5 DEF Inv, TypeOK, OneSocketEach
  <2>2. \A d \in backlog' \cup refused : clientPc'[d] # "away"
    BY <1>3, <1>5 DEF Inv, TypeOK, OneSocketEach
  <2>3. refused \cap backlog' = {}
    BY <1>5 DEF Inv, OneSocketEach
  <2> QED
    BY <1>1, <2>1, <2>2, <2>3 DEF Inv, OneSocketEach, serverVars
<1>7. StillReadable'
  <2>1. \A f \in Fd : Readable(f) => Readable(f)'
    BY <1>1, <1>3 DEF Readable, Inv, TypeOK, serverVars
  <2>2. \A f : Readable(f) => f \in Fd
    BY DEF Readable
  <2>3. pc = "accept" => \A f \in fr \ {nSocket} : Readable(f)'
    BY <2>1, <2>2 DEF Inv, StillReadable
  <2>4. \A j \in ToCome : nArrClient[j] \in fr => Readable(nArrClient[j])'
    BY <1>1, <2>1, <2>2 DEF Inv, StillReadable, serverVars
  <2> QED
    BY <1>1, <2>3, <2>4 DEF Inv, StillReadable, ToCome, serverVars
<1> QED
  BY <1>2, <1>4, <1>6, <1>7 DEF Inv

LEMMA StutterKeeps == Inv /\ UNCHANGED vars => Inv'
BY DEF Inv, vars, serverVars, clientVars, wireVars, TypeOK, SlotsMatchSockets,
       OneSocketEach, StillReadable, ToCome, Readable

LEMMA InvInductive == Inv /\ [Next]_vars => Inv'
<1> SUFFICES ASSUME Inv, [Next]_vars
             PROVE  Inv'
  OBVIOUS
<1>1. CASE Select \/ AcceptFails \/ Reply \/ EndOfScan
  BY <1>1, SelectKeeps, AcceptFailsKeeps, ReplyKeeps, EndOfScanKeeps
<1>2. CASE \E c \in Client, f \in Fd : Refuse(c, f) \/ \E i \in Index : Serve(c, f, i)
  BY <1>2, RefuseKeeps, ServeKeeps
<1>3. CASE \E i \in Index : Receive(i) \/ Drop(i)
  BY <1>3, ReceiveKeeps, DropKeeps
<1>4. CASE TimeOut \/ ServerDead \/ UNCHANGED vars
  BY <1>4, StutterKeeps DEF TimeOut, ServerDead
<1>5. CASE \E c \in Client : ClientStep(c)
  BY <1>5, ClientKeeps
<1> QED
  BY <1>1, <1>2, <1>3, <1>4, <1>5 DEF Next, ServerStep

LEMMA InvAlways == SafetySpec => []Inv
BY InitInv, InvInductive, PTL DEF SafetySpec

\* For any number of clients and slots, every variable keeps its type: in
\* particular no descriptor is stored past the last slot.
THEOREM SelectTypeCorrect == SafetySpec => []TypeOK
<1>1. Inv => TypeOK
  BY DEF Inv
<1> QED
  BY <1>1, InvAlways, PTL

\* For any number of clients and slots, slots, descriptors and nMaxFd agree.
THEOREM SlotsTheorem == SafetySpec => []SlotsMatchSockets
<1>1. Inv => SlotsMatchSockets
  BY DEF Inv
<1> QED
  BY <1>1, InvAlways, PTL

\* For any number of clients and slots, no recv() of the server blocks.
THEOREM NeverBlocksTheorem == SafetySpec => []NeverBlocksInRecv
<1>1. Inv => NeverBlocksInRecv
  BY TurnSlot DEF NeverBlocksInRecv
<1> QED
  BY <1>1, InvAlways, PTL

-----------------------------------------------------------------------------
(* OrderlyClientsHarmless.  What the server owes a client, and what it has *)
(* sent it, is counted against what that client may have outstanding: one  *)
(* piece when it is at the prompt, because of the greeting, one more while *)
(* it waits.  A client that leaves with something unread has then nothing  *)
(* coming to it any more, and the server never sends into its reset.       *)

One(P) == IF P THEN 1 ELSE 0

\* The pieces, greetings and replies that may still reach client c.
UnderWay(c) ==
    toServer[c] + toClient[c] + One(c \in backlog) + One(pc = "reply" /\ PeerAt(nIndex) = c)

Allowance(c) ==
    IF clientPc[c] = "away" THEN 0 ELSE IF clientPc[c] = "waiting" THEN 2 ELSE 1

Orderly(c) == c \notin long /\ clientPc[c] # "killed"

\* An orderly client that has been answered with a reset has gone, and nothing is
\* under way, whatever the other clients do.
Counted ==
    /\ pc = "dead" => \E c \in Client : ~Orderly(c)
    /\ \A c \in Client : Orderly(c) =>
          /\ UnderWay(c) <= Allowance(c)
          /\ c \in reset => clientPc[c] = "quit" /\ UnderWay(c) = 0

LEMMA InitCounted == Init => Counted
<1> SUFFICES ASSUME Init
             PROVE  Counted
  OBVIOUS
<1>1. ASSUME NEW c \in Client
      PROVE  UnderWay(c) = 0
  BY DEF Init, UnderWay, One
<1> QED
  BY <1>1 DEF Init, Counted, Allowance

\* The terms of the count are numbers.
LEMMA UnderWayType ==
    ASSUME TypeOK, NEW c \in Client
    PROVE  /\ toServer[c] \in Nat /\ toClient[c] \in Nat
           /\ One(c \in backlog) \in Nat
           /\ One(pc = "reply" /\ PeerAt(nIndex) = c) \in Nat
           /\ UnderWay(c) \in Nat /\ Allowance(c) \in 0..2
<1>1. toServer[c] \in Nat /\ toClient[c] \in Nat
  BY DEF TypeOK
<1>2. /\ One(c \in backlog) \in Nat
      /\ One(pc = "reply" /\ PeerAt(nIndex) = c) \in Nat
  BY DEF One
<1> QED
  BY <1>1, <1>2 DEF UnderWay, Allowance

LEMMA UnderWayAfter ==
    ASSUME TypeOK', NEW c \in Client
    PROVE  UnderWay(c)' \in Nat
<1>1. toServer'[c] \in Nat /\ toClient'[c] \in Nat
  BY DEF TypeOK
<1> QED
  BY <1>1 DEF UnderWay, One

\* A step of the server keeps the count if it adds to it for no orderly client,
\* and answers with a reset only where nothing is left.
LEMMA ServerCounts ==
    ASSUME TypeOK, TypeOK', Counted, UNCHANGED clientVars,
           pc' = "dead" => \E c \in Client : ~Orderly(c),
           \A c \in Client : Orderly(c) =>
              /\ UnderWay(c)' <= UnderWay(c)
              /\ c \in reset' => clientPc[c] = "quit" /\ UnderWay(c)' = 0
    PROVE  Counted'
<1>1. \A c \in Client : Orderly(c)' <=> Orderly(c)
  BY DEF Orderly, clientVars
<1>2. ASSUME NEW c \in Client, Orderly(c)
      PROVE  UnderWay(c)' <= Allowance(c)'
  <2>1. Allowance(c)' = Allowance(c)
    BY DEF Allowance, clientVars
  <2>2. UnderWay(c)' <= UnderWay(c) /\ UnderWay(c) <= Allowance(c)
    BY <1>2 DEF Counted
  <2>3. UnderWay(c)' \in Nat /\ UnderWay(c) \in Nat /\ Allowance(c) \in Nat
    BY UnderWayType, UnderWayAfter
  <2> QED
    BY <2>1, <2>2, <2>3
<1>3. pc' = "dead" => \E c \in Client : ~Orderly(c)'
  BY <1>1
<1>4. ASSUME NEW c \in Client, Orderly(c)'
      PROVE  /\ UnderWay(c)' <= Allowance(c)'
             /\ c \in reset' => clientPc'[c] = "quit" /\ UnderWay(c)' = 0
  BY <1>1, <1>2, <1>4 DEF clientVars
<1> QED
  BY <1>3, <1>4 DEF Counted

LEMMA QuietCounted ==
    ASSUME Inv, Inv', Counted,
           Select \/ EndOfScan \/ AcceptFails \/ \E c \in Client, f \in Fd : Refuse(c, f)
    PROVE  Counted'
<1>1. UNCHANGED <<clientVars, toServer, toClient, reset>>
  BY DEF Select, EndOfScan, AcceptFails, Refuse, wireVars, clientVars
<1>2. pc' # "dead" /\ pc' # "reply" /\ backlog' \subseteq backlog
  BY DEF Select, EndOfScan, AcceptFails, Refuse, Accepted, wireVars
<1>3. ASSUME NEW c \in Client
      PROVE  UnderWay(c)' <= UnderWay(c)
  <2>1. /\ toServer'[c] = toServer[c] /\ toClient'[c] = toClient[c]
        /\ toServer[c] \in Nat /\ toClient[c] \in Nat
    BY <1>1 DEF Inv, TypeOK
  <2>2. One(c \in backlog)' <= One(c \in backlog)
    BY <1>2 DEF One
  <2>3. One(pc = "reply" /\ PeerAt(nIndex) = c)' <= One(pc = "reply" /\ PeerAt(nIndex) = c)
    BY <1>2 DEF One
  <2> QED
    BY <2>1, <2>2, <2>3 DEF UnderWay, One
<1>4. ASSUME NEW c \in Client, Orderly(c), c \in reset'
      PROVE  clientPc[c] = "quit" /\ UnderWay(c)' = 0
  <2>1. clientPc[c] = "quit" /\ UnderWay(c) = 0
    BY <1>1, <1>4 DEF Counted
  <2>2. UnderWay(c)' \in Nat
    BY UnderWayAfter DEF Inv
  <2> QED
    BY <1>3, <2>1, <2>2
<1> QED
  BY <1>1, <1>2, <1>3, <1>4, ServerCounts DEF Inv

\* Sending to one client concerns no other.
LEMMA SendOthers ==
    ASSUME TypeOK, NEW c \in Client, Send(c, "scan")
    PROVE  /\ \A d \in Client \ {c} : toClient'[d] = toClient[d]
           /\ reset \subseteq reset' /\ reset' \subseteq reset \cup {c}
           /\ pc' \in {"scan", "dead"}
           /\ pc' = "dead" => c \in reset
  BY DEF Send, TypeOK

\* Sending what was owed to an orderly client: it arrives, or it is answered with
\* a reset and nothing is left; the client's system has not been reset before.
LEMMA SendCounted ==
    ASSUME Inv, Inv', Counted, NEW c \in Client, Orderly(c), Send(c, "scan"),
           toServer[c] + toClient[c] + 1 <= UnderWay(c),
           UNCHANGED <<clientVars, toServer>>,
           c \notin backlog'
    PROVE  /\ pc' = "scan"
           /\ UnderWay(c)' <= UnderWay(c)
           /\ c \in reset' => clientPc[c] = "quit" /\ UnderWay(c)' = 0
<1>1. /\ toServer[c] \in Nat /\ toClient[c] \in Nat /\ UnderWay(c) \in Nat
      /\ Allowance(c) \in Nat /\ toClient \in [Client -> Nat]
  BY UnderWayType DEF Inv, TypeOK
<1>2. c \notin reset
  BY <1>1 DEF Counted
<1>3. pc' = "scan"
  BY <1>2 DEF Send
<1>4. UnderWay(c)' = toServer[c] + toClient'[c]
  BY <1>1, <1>3 DEF UnderWay, One, Send
<1>5. toClient'[c] \in {toClient[c], toClient[c] + 1}
  BY <1>1, <1>2 DEF Send
<1>6. UnderWay(c)' <= UnderWay(c)
  BY <1>1, <1>4, <1>5
<1>7. ASSUME c \in reset'
      PROVE  clientPc[c] = "quit" /\ UnderWay(c)' = 0
  <2>1. clientPc[c] = "quit" /\ toClient'[c] = toClient[c]
    BY <1>2, <1>7 DEF Send, Ended, Orderly
  <2>2. UnderWay(c) <= Allowance(c)
    BY DEF Counted
  <2>3. Allowance(c) = 1
    BY <2>1 DEF Allowance
  <2>4. toServer[c] = 0 /\ toClient[c] = 0
    BY <1>1, <2>2, <2>3
  <2> QED
    BY <1>4, <2>1, <2>4
<1> QED
  BY <1>3, <1>6, <1>7

LEMMA ServeCounted ==
    ASSUME Inv, Inv', Counted,
           NEW c \in Client, NEW f \in Fd, NEW i \in Index, Serve(c, f, i)
    PROVE  Counted'
<1>1. /\ Send(c, "scan") /\ pc = "accept" /\ c \in backlog /\ backlog' = backlog \ {c}
      /\ UNCHANGED <<clientVars, toServer>>
  BY DEF Serve, Accepted
<1>2. toServer[c] + toClient[c] + 1 <= UnderWay(c)
  BY <1>1, UnderWayType DEF UnderWay, One, Inv
<1>3. Orderly(c) => /\ pc' = "scan"
                    /\ UnderWay(c)' <= UnderWay(c)
                    /\ c \in reset' => clientPc[c] = "quit" /\ UnderWay(c)' = 0
  BY <1>1, <1>2, SendCounted
<1>4. /\ \A d \in Client \ {c} : toClient'[d] = toClient[d]
      /\ reset' \subseteq reset \cup {c} /\ pc' \in {"scan", "dead"}
  BY <1>1, SendOthers DEF Inv
<1>5. ASSUME NEW d \in Client \ {c}
      PROVE  UnderWay(d)' = UnderWay(d)
  BY <1>1, <1>4 DEF UnderWay, One
<1>6. ASSUME NEW d \in Client, Orderly(d)
      PROVE  /\ UnderWay(d)' <= UnderWay(d)
             /\ d \in reset' => clientPc[d] = "quit" /\ UnderWay(d)' = 0
  <2>1. CASE d = c
    BY <1>3, <1>6, <2>1
  <2>2. CASE d # c
    <3>1. UnderWay(d)' = UnderWay(d) /\ UnderWay(d) \in Nat
      BY <1>5, <2>2, UnderWayType DEF Inv
    <3>2. d \in reset' => d \in reset
      BY <1>4, <2>2
    <3>3. d \in reset => clientPc[d] = "quit" /\ UnderWay(d) = 0
      BY <1>6 DEF Counted
    <3> QED
      BY <3>1, <3>2, <3>3
  <2> QED
    BY <2>1, <2>2
<1> QED
  BY <1>1, <1>3, <1>4, <1>6, ServerCounts DEF Inv

LEMMA ReplyCounted == Inv /\ Inv' /\ Counted /\ Reply => Counted'
<1> SUFFICES ASSUME Inv, Inv', Counted, Reply
             PROVE  Counted'
  OBVIOUS
<1>1. /\ pc = "reply" /\ Send(PeerAt(nIndex), "scan")
      /\ UNCHANGED <<clientVars, backlog, toServer>>
  BY DEF Reply
<1>2. nIndex \in Index /\ nArrClient[nIndex] # 0
  BY <1>1 DEF Inv, StillReadable
<1>3. PICK c \in Client : c = PeerAt(nIndex) /\ nArrClient[nIndex] \in Fd
  BY <1>2, UsedSlot
<1>4. c \notin backlog
  BY <1>3, SelectAssumption DEF Inv, OneSocketEach, PeerAt
<1>5. toServer[c] + toClient[c] + 1 <= UnderWay(c)
  <2>1. One(pc = "reply" /\ PeerAt(nIndex) = c) = 1
    BY <1>1, <1>3 DEF One
  <2>2. UnderWay(c) = toServer[c] + toClient[c] + One(c \in backlog) + 1
    BY <2>1 DEF UnderWay
  <2>3. /\ toServer[c] \in Nat /\ toClient[c] \in Nat
        /\ One(c \in backlog) \in Nat
    BY <1>3, UnderWayType DEF Inv
  <2> QED
    BY <2>2, <2>3
<1>6. Orderly(c) => /\ pc' = "scan"
                    /\ UnderWay(c)' <= UnderWay(c)
                    /\ c \in reset' => clientPc[c] = "quit" /\ UnderWay(c)' = 0
  <2>1. c \notin backlog' /\ UNCHANGED <<clientVars, toServer>>
    BY <1>1, <1>4
  <2> QED
    BY <1>1, <1>3, <1>5, <2>1, SendCounted
<1>7. /\ \A d \in Client \ {c} : toClient'[d] = toClient[d]
      /\ reset' \subseteq reset \cup {c} /\ pc' \in {"scan", "dead"}
  BY <1>1, <1>3, SendOthers DEF Inv
<1>8. ASSUME NEW d \in Client \ {c}
      PROVE  UnderWay(d)' = UnderWay(d)
  BY <1>1, <1>3, <1>7 DEF UnderWay, One
<1>9. ASSUME NEW d \in Client, Orderly(d)
      PROVE  /\ UnderWay(d)' <= UnderWay(d)
             /\ d \in reset' => clientPc[d] = "quit" /\ UnderWay(d)' = 0
  <2>1. CASE d = c
    BY <1>6, <1>9, <2>1
  <2>2. CASE d # c
    <3>1. UnderWay(d)' = UnderWay(d) /\ UnderWay(d) \in Nat
      BY <1>8, <2>2, UnderWayType DEF Inv
    <3>2. d \in reset' => d \in reset
      BY <1>7, <2>2
    <3>3. d \in reset => clientPc[d] = "quit" /\ UnderWay(d) = 0
      BY <1>9 DEF Counted
    <3> QED
      BY <3>1, <3>2, <3>3
  <2> QED
    BY <2>1, <2>2
<1> QED
  BY <1>1, <1>3, <1>6, <1>7, <1>9, ServerCounts DEF Inv

\* However many pieces one recv() returns, there is one reply to them.
LEMMA ReceiveCounted ==
    ASSUME Inv, Inv', Counted, NEW i \in Index, Receive(i)
    PROVE  Counted'
<1> DEFINE c == PeerAt(i)
<1>1. /\ Turn(i) /\ pc = "scan" /\ pc' = "reply" /\ nIndex' = i
      /\ UNCHANGED <<clientVars, nArrClient, fdTable, backlog, toClient, reset>>
  BY DEF Receive, Turn
<1>2. c \in Client
  BY <1>1, TurnSlot, UsedSlot
<1>3. PeerAt(nIndex)' = c
  BY <1>1 DEF PeerAt
<1>4. PICK n \in 1..toServer[c] : toServer' = [toServer EXCEPT ![c] = @ - n]
  BY DEF Receive
<1> HIDE DEF c
<1>5. ASSUME NEW d \in Client
      PROVE  UnderWay(d)' <= UnderWay(d)
  <2>1. toServer \in [Client -> Nat] /\ toClient[d] \in Nat /\ One(d \in backlog) \in Nat
    BY UnderWayType DEF Inv, TypeOK
  <2>2. UnderWay(d) = toServer[d] + toClient[d] + One(d \in backlog)
    BY <1>1, <2>1 DEF UnderWay, One
  <2>3. UnderWay(d)' = toServer'[d] + toClient[d] + One(d \in backlog) + One(c = d)
    BY <1>1, <1>3 DEF UnderWay, One
  <2>4. CASE d = c
    <3>1. toServer'[d] = toServer[d] - n /\ n \in Nat /\ n >= 1 /\ One(c = d) = 1
      BY <1>2, <1>4, <2>1, <2>4 DEF One
    <3> QED
      BY <2>1, <2>2, <2>3, <3>1
  <2>5. CASE d # c
    BY <1>2, <1>4, <2>1, <2>2, <2>3, <2>5 DEF One
  <2> QED
    BY <2>4, <2>5
<1>6. ASSUME NEW d \in Client, Orderly(d), d \in reset'
      PROVE  clientPc[d] = "quit" /\ UnderWay(d)' = 0
  <2>1. clientPc[d] = "quit" /\ UnderWay(d) = 0
    BY <1>1, <1>6 DEF Counted
  <2>2. UnderWay(d)' \in Nat
    BY UnderWayAfter DEF Inv
  <2> QED
    BY <1>5, <2>1, <2>2
<1> QED
  BY <1>1, <1>5, <1>6, ServerCounts DEF Inv

LEMMA DropCounted ==
    ASSUME Inv, Inv', Counted, NEW i \in Index, Drop(i)
    PROVE  Counted'
<1> DEFINE c == PeerAt(i)
<1>1. /\ Turn(i) /\ pc = "scan" /\ Close(c, nArrClient[i])
      /\ UNCHANGED <<pc, clientVars, backlog, toClient>>
  BY DEF Drop, Turn
<1>2. c \in Client
  BY <1>1, TurnSlot, UsedSlot
<1> HIDE DEF c
<1>3. ASSUME NEW d \in Client
      PROVE  UnderWay(d)' <= UnderWay(d)
  <2>1. toServer \in [Client -> Nat] /\ toClient[d] \in Nat /\ One(d \in backlog) \in Nat
    BY UnderWayType DEF Inv, TypeOK
  <2>2. toServer'[d] <= toServer[d] /\ toServer'[d] \in Nat
    BY <1>1, <1>2, <2>1 DEF Close
  <2>3. /\ UnderWay(d) = toServer[d] + toClient[d] + One(d \in backlog)
        /\ UnderWay(d)' = toServer'[d] + toClient[d] + One(d \in backlog)
    BY <1>1, <2>1, <2>2 DEF UnderWay, One
  <2> QED
    BY <2>1, <2>2, <2>3
<1>4. ASSUME NEW d \in Client, Orderly(d), d \in reset'
      PROVE  clientPc[d] = "quit" /\ UnderWay(d)' = 0
  <2>1. clientPc[d] = "quit" /\ UnderWay(d) = 0
    BY <1>1, <1>4 DEF Counted, Close
  <2>2. UnderWay(d)' \in Nat
    BY UnderWayAfter DEF Inv
  <2> QED
    BY <1>3, <2>1, <2>2
<1> QED
  BY <1>1, <1>3, <1>4, ServerCounts DEF Inv, Counted

\* A client adds to the count only by connecting and by sending a line, and the
\* line of an orderly client is one piece; what it reads or leaves unread is off.
LEMMA ClientCounted ==
    ASSUME Inv, Inv', Counted, NEW c \in Client, ClientStep(c)
    PROVE  Counted'
<1>1. UNCHANGED serverVars /\ pc # "dead"
  BY DEF ClientStep, Connect, SendLine, ReceiveReply, Quit, KillClient, Leave
<1>2. /\ clientPc \in [Client -> {"away", "typing", "waiting"} \cup Ended]
      /\ toServer \in [Client -> Nat] /\ toClient \in [Client -> Nat]
      /\ toServer[c] \in Nat /\ toClient[c] \in Nat
      /\ UnderWay(c) \in Nat /\ Allowance(c) \in 0..2
      /\ One(c \in backlog) \in Nat
      /\ One(pc = "reply" /\ PeerAt(nIndex) = c) \in Nat
  BY UnderWayType DEF Inv, TypeOK
<1>3. \A d \in Client : Orderly(d)' => Orderly(d)
  <2>1. /\ \A d \in Client : clientPc[d] = "killed" => clientPc'[d] = "killed"
        /\ long \subseteq long'
    <3>1. CASE Connect(c)
      BY <1>2, <3>1 DEF Connect, Become
    <3>2. CASE ReceiveReply(c)
      BY <1>2, <3>2 DEF ReceiveReply, Become
    <3>3. CASE SendLine(c)
      BY <1>2, <3>3 DEF SendLine, Become
    <3>4. CASE Quit(c)
      BY <1>2, <3>4 DEF Quit, Leave, Become
    <3>5. CASE KillClient(c)
      BY <1>2, <3>5 DEF KillClient, Leave, Become
    <3> QED
      BY <3>1, <3>2, <3>3, <3>4, <3>5 DEF ClientStep
  <2> QED
    BY <2>1 DEF Orderly
<1>4. \A d \in Client \ {c} :
         /\ clientPc'[d] = clientPc[d]
         /\ toServer'[d] = toServer[d] /\ toClient'[d] = toClient[d]
         /\ d \in backlog' <=> d \in backlog
         /\ d \in reset' <=> d \in reset
  <2>1. CASE Connect(c)
    BY <1>2, <2>1 DEF Connect, Become
  <2>2. CASE SendLine(c)
    BY <1>2, <2>2 DEF SendLine, Become
  <2>3. CASE ReceiveReply(c)
    BY <1>2, <2>3 DEF ReceiveReply, Become
  <2>4. CASE Quit(c) \/ KillClient(c)
    BY <1>2, <2>4 DEF Quit, KillClient, Leave, Become
  <2> QED
    BY <2>1, <2>2, <2>3, <2>4 DEF ClientStep
\* The other clients are where they were.
<1>5. ASSUME NEW d \in Client \ {c}, Orderly(d)'
      PROVE  /\ UnderWay(d)' <= Allowance(d)'
             /\ d \in reset' => clientPc'[d] = "quit" /\ UnderWay(d)' = 0
  <2>1. UnderWay(d)' = UnderWay(d)
    BY <1>1, <1>4 DEF UnderWay, One, PeerAt, serverVars
  <2>2. Allowance(d)' = Allowance(d)
    BY <1>4 DEF Allowance
  <2>3. Orderly(d)
    BY <1>3, <1>5
  <2>4. UnderWay(d) <= Allowance(d) /\ (d \in reset => clientPc[d] = "quit" /\ UnderWay(d) = 0)
    BY <2>3 DEF Counted
  <2> QED
    BY <1>4, <2>1, <2>2, <2>4
\* The client that takes the step.
<1>6. One(pc = "reply" /\ PeerAt(nIndex) = c)' = One(pc = "reply" /\ PeerAt(nIndex) = c)
  BY <1>1 DEF One, PeerAt, serverVars
<1>7. ASSUME Orderly(c)'
      PROVE  /\ UnderWay(c)' <= Allowance(c)'
             /\ c \in reset' => clientPc'[c] = "quit" /\ UnderWay(c)' = 0
  <2> USE <1>7
  <2>1. UnderWay(c) <= Allowance(c) /\ (c \in reset => clientPc[c] = "quit" /\ UnderWay(c) = 0)
    BY <1>3 DEF Counted
  <2>2. CASE Connect(c)
    <3>1. UnderWay(c) = 0 /\ clientPc[c] = "away" /\ clientPc'[c] = "typing" /\ c \notin reset
      BY <1>2, <2>1, <2>2 DEF Connect, Become, Allowance
    <3>2. UnderWay(c)' <= 1 /\ c \notin reset'
      BY <1>2, <1>6, <2>2, <3>1 DEF Connect, UnderWay, One
    <3> QED
      BY <3>1, <3>2 DEF Allowance
  <2>3. CASE SendLine(c)
    <3>1. PICK n \in Nat : /\ toServer' = [toServer EXCEPT ![c] = @ + n]
                           /\ long' = IF n > 1 THEN long \cup {c} ELSE long
      BY <2>3, SelectAssumption DEF SendLine
    <3>2. n <= 1
      BY <3>1 DEF Orderly
    <3>3. UnderWay(c) <= 1 /\ clientPc'[c] = "waiting" /\ c \notin reset
      BY <1>2, <2>1, <2>3 DEF SendLine, Become, Allowance
    <3>4. UnderWay(c)' = UnderWay(c) + n /\ c \notin reset'
      <4>1. toServer'[c] = toServer[c] + n
        BY <1>2, <3>1
      <4> QED
        BY <1>2, <1>6, <2>3, <3>3, <4>1 DEF SendLine, UnderWay, One
    <3> QED
      BY <1>2, <3>2, <3>3, <3>4 DEF Allowance
  <2>4. CASE ReceiveReply(c)
    <3>1. PICK n \in 1..toClient[c] : toClient' = [toClient EXCEPT ![c] = @ - n]
      BY <2>4 DEF ReceiveReply
    <3>2. UnderWay(c) <= 2 /\ clientPc'[c] = "typing" /\ c \notin reset
      BY <1>2, <2>1, <2>4 DEF ReceiveReply, Become, Allowance
    <3>3. UnderWay(c)' = UnderWay(c) - n /\ c \notin reset'
      <4>1. toClient'[c] = toClient[c] - n /\ n \in Nat
        BY <1>2, <3>1
      <4> QED
        BY <1>2, <1>6, <2>4, <3>2, <4>1 DEF ReceiveReply, UnderWay, One
    <3>4. n \in Nat /\ n >= 1
      BY <1>2, <3>1
    <3> QED
      BY <1>2, <3>2, <3>3, <3>4 DEF Allowance
  <2>5. CASE Quit(c)
    <3>1. UnderWay(c) <= 1 /\ clientPc'[c] = "quit" /\ c \notin reset
      BY <1>2, <2>1, <2>5 DEF Quit, Leave, Become, Allowance
    <3>2. UnderWay(c)' = UnderWay(c) - toClient[c]
      <4>1. toClient'[c] = 0
        BY <1>2, <2>5 DEF Quit, Leave
      <4> QED
        BY <1>2, <1>6, <2>5, <4>1 DEF Quit, Leave, UnderWay, One
    <3>3. c \in reset' => toClient[c] > 0
      BY <2>5, <3>1 DEF Quit, Leave
    <3>4. UnderWay(c)' \in Nat
      BY UnderWayAfter DEF Inv
    <3> QED
      BY <1>2, <3>1, <3>2, <3>3, <3>4 DEF Allowance
  <2>6. ~KillClient(c)
    BY <1>2 DEF KillClient, Leave, Become, Orderly
  <2> QED
    BY <2>2, <2>3, <2>4, <2>5, <2>6 DEF ClientStep
<1> QED
  BY <1>1, <1>5, <1>7 DEF Counted, serverVars

LEMMA StutterCounted == Counted /\ UNCHANGED vars => Counted'
BY DEF Counted, Orderly, UnderWay, Allowance, One, PeerAt, vars, serverVars, clientVars, wireVars

LEMMA CountedInductive == Inv /\ Inv' /\ Counted /\ [Next]_vars => Counted'
<1> SUFFICES ASSUME Inv, Inv', Counted, [Next]_vars
             PROVE  Counted'
  OBVIOUS
<1>1. CASE Select \/ AcceptFails \/ EndOfScan \/ \E c \in Client, f \in Fd : Refuse(c, f)
  BY <1>1, QuietCounted
<1>2. CASE Reply
  BY <1>2, ReplyCounted
<1>3. CASE \E c \in Client, f \in Fd : \E i \in Index : Serve(c, f, i)
  BY <1>3, ServeCounted
<1>4. CASE \E i \in Index : Receive(i) \/ Drop(i)
  BY <1>4, ReceiveCounted, DropCounted
<1>5. CASE TimeOut \/ ServerDead \/ UNCHANGED vars
  BY <1>5, StutterCounted DEF TimeOut, ServerDead
<1>6. CASE \E c \in Client : ClientStep(c)
  BY <1>6, ClientCounted
<1> QED
  BY <1>1, <1>2, <1>3, <1>4, <1>5, <1>6 DEF Next, ServerStep

LEMMA CountedAlways == SafetySpec => []Counted
<1>1. Init => Counted
  BY InitCounted
<1>2. Inv /\ Inv' /\ Counted /\ [Next]_vars => Counted'
  BY CountedInductive
<1> QED
  BY <1>1, <1>2, InvAlways, PTL DEF SafetySpec

\* For any number of clients and slots: clients whose lines arrive whole and that
\* quit only at their prompt never bring SIGPIPE on the server.
THEOREM OrderlyTheorem == SafetySpec => []OrderlyClientsHarmless
<1>1. Counted => OrderlyClientsHarmless
  BY DEF Counted, Orderly, OrderlyClientsHarmless
<1> QED
  BY <1>1, CountedAlways, PTL

\* The client that the server is about to greet or to answer, if it is an orderly
\* one, has not been reset: it is never such a client that SIGPIPE comes from,
\* whatever the other clients do.
NeverSendsIntoReset ==
    \A c \in Client :
        Orderly(c) /\ (c \in backlog \/ (pc = "reply" /\ PeerAt(nIndex) = c)) => c \notin reset

\* SocketServer.cpp:35: whenever a client is about to be greeted or answered, it has
\* not been reset, if it is an orderly one.
THEOREM ResetTheorem == SafetySpec => []NeverSendsIntoReset
<1>1. Inv /\ Counted => NeverSendsIntoReset
  <2> SUFFICES ASSUME Inv, Counted, NEW c \in Client, Orderly(c), c \in reset
               PROVE  c \notin backlog /\ ~(pc = "reply" /\ PeerAt(nIndex) = c)
    BY DEF NeverSendsIntoReset
  <2>1. UnderWay(c) = 0
    BY DEF Counted
  <2> QED
    BY <2>1, UnderWayType DEF UnderWay, One, Inv
<1> QED
  BY <1>1, InvAlways, CountedAlways, PTL

\* An orderly client at its prompt has at most one answer that it has not read,
\* on its way or still to be given: the lag that the greeting causes never grows,
\* whatever the other clients do.
LagsByOne ==
    \A c \in Client : Orderly(c) /\ clientPc[c] = "typing" =>
        toServer[c] + toClient[c] + One(c \in backlog) <= 1

\* SocketServer.cpp:93, SocketClient.cpp:61: at its prompt an orderly client is at most
\* one answer behind.
THEOREM LagTheorem == SafetySpec => []LagsByOne
<1>1. Inv /\ Counted => LagsByOne
  <2> SUFFICES ASSUME Inv, Counted, NEW c \in Client, Orderly(c), clientPc[c] = "typing"
               PROVE  toServer[c] + toClient[c] + One(c \in backlog) <= 1
    BY DEF LagsByOne
  <2>1. UnderWay(c) <= 1
    BY DEF Counted, Allowance
  <2> QED
    BY <2>1, UnderWayType DEF UnderWay, Inv
<1> QED
  BY <1>1, InvAlways, CountedAlways, PTL

=============================================================================
