------------------------- MODULE MasterServerProofs -------------------------
(***************************************************************************)
(* Theorems about MasterServer, for any number of connections, descriptor  *)
(* numbers and workers and for any maxNodes.                               *)
(***************************************************************************)
EXTENDS MasterServer, FiniteSetTheorems, SequenceTheorems, TLAPS

\* A connection is opened once, waits in the listen queue, is in the hands
\* of the accept thread, and only then gets its loop.
OneLife ==
    \A c \in Conn :
        /\ peer[c] = "away" => c \notin backlog /\ acceptConn # c /\ loop[c] = "none"
        /\ c \in backlog => acceptConn # c /\ loop[c] = "none"
        /\ acceptConn = c => loop[c] = "none"

\* The threads start with the server.
NotStarted == mainPc = "idle" => acceptPc = "none" /\ hbPc = "none"

TypeInv == TypeOK /\ OneLife /\ NotStarted

-----------------------------------------------------------------------------
(* Types: a step disturbs the parts of TypeOK whose variables it changes.  *)

LEMMA TypeFrame ==
    ASSUME TypeInv
    PROVE  /\ UNCHANGED netVars => NetTypeOK'
           /\ UNCHANGED nodes => RegistryTypeOK'
           /\ UNCHANGED mainVars => MainTypeOK'
           /\ UNCHANGED acceptVars => AcceptTypeOK'
           /\ UNCHANGED hbVars => HbTypeOK'
           /\ UNCHANGED loopVars => LoopTypeOK'
           /\ UNCHANGED poolVars => PoolTypeOK'
           /\ UNCHANGED <<peer, backlog, acceptConn, loop>> => OneLife'
           /\ UNCHANGED <<mainPc, acceptPc, hbPc>> => NotStarted'
<1> USE DEF TypeInv, TypeOK
<1>1. UNCHANGED netVars => NetTypeOK'
  BY DEF netVars, NetTypeOK
<1>2. UNCHANGED nodes => RegistryTypeOK'
  BY DEF RegistryTypeOK
<1>3. UNCHANGED mainVars => MainTypeOK'
  BY DEF mainVars, MainTypeOK
<1>4. UNCHANGED acceptVars => AcceptTypeOK'
  BY DEF acceptVars, AcceptTypeOK
<1>5. UNCHANGED hbVars => HbTypeOK'
  BY DEF hbVars, HbTypeOK
<1>6. UNCHANGED loopVars => LoopTypeOK'
  BY DEF loopVars, LoopTypeOK
<1>7. UNCHANGED poolVars => PoolTypeOK'
  BY DEF poolVars, PoolTypeOK
<1>8. UNCHANGED <<peer, backlog, acceptConn, loop>> => OneLife'
  BY DEF OneLife
<1>9. UNCHANGED <<mainPc, acceptPc, hbPc>> => NotStarted'
  BY DEF NotStarted
<1> QED
  BY <1>1, <1>2, <1>3, <1>4, <1>5, <1>6, <1>7, <1>8, <1>9

LEMMA TypeNext ==
    ASSUME TypeInv, [Next]_vars
    PROVE  TypeInv'
<1>1. /\ NetTypeOK /\ RegistryTypeOK /\ MainTypeOK /\ AcceptTypeOK
      /\ HbTypeOK /\ LoopTypeOK /\ PoolTypeOK /\ OneLife /\ NotStarted
  BY DEF TypeInv, TypeOK
<1> USE SocketAssumption, RegistryAssumption
<1>2. ASSUME StartServer
      PROVE  TypeInv'
  <2>1. NetTypeOK'
    BY <1>1, <1>2 DEF StartServer, NotStarted, NetTypeOK, netVars, peerVars
  <2>2. MainTypeOK'
    BY <1>1, <1>2 DEF StartServer, NotStarted, MainTypeOK
  <2>3. AcceptTypeOK'
    BY <1>1, <1>2 DEF StartServer, NotStarted, AcceptTypeOK
  <2>4. HbTypeOK'
    BY <1>1, <1>2 DEF StartServer, NotStarted, HbTypeOK, RegistryTypeOK
  <2>5. NotStarted'
    BY <1>1, <1>2 DEF StartServer, NotStarted, mainVars, acceptVars, hbVars
  <2> QED
    BY <1>2, <2>1, <2>2, <2>3, <2>4, <2>5, TypeFrame DEF TypeInv, TypeOK, StartServer,
       netVars, peerVars, mainVars, acceptVars, hbVars, loopVars, poolVars
<1>39. ASSUME StartFails
      PROVE  TypeInv'
  <2>1. MainTypeOK'
    BY <1>1, <1>39 DEF StartFails, MainTypeOK
  <2>2. NotStarted'
    BY <1>1, <1>39 DEF StartFails, NotStarted, mainVars, acceptVars, hbVars
  <2> QED
    BY <1>39, <2>1, <2>2, TypeFrame DEF TypeInv, TypeOK, StartFails,
       netVars, peerVars, mainVars, acceptVars, hbVars, loopVars, poolVars
<1>3. ASSUME StopServer
      PROVE  TypeInv'
  <2>1. MainTypeOK'
    BY <1>1, <1>3 DEF StopServer, MainTypeOK
  <2>2. NotStarted'
    BY <1>1, <1>3 DEF StopServer, NotStarted, mainVars, acceptVars, hbVars
  <2> QED
    BY <1>3, <2>1, <2>2, TypeFrame DEF TypeInv, TypeOK, StopServer,
       netVars, peerVars, mainVars, acceptVars, hbVars, loopVars, poolVars
<1>4. ASSUME TeardownListener
      PROVE  TypeInv'
  <2>1. NetTypeOK'
    BY <1>1, <1>4 DEF TeardownListener, NetTypeOK, netVars, peerVars
  <2>2. MainTypeOK'
    BY <1>1, <1>4 DEF TeardownListener, MainTypeOK
  <2>3. OneLife'
    BY <1>1, <1>4
       DEF TeardownListener, OneLife, NetTypeOK, AcceptTypeOK, LoopTypeOK, netVars, peerVars,
           acceptVars, loopVars
  <2>4. NotStarted'
    BY <1>1, <1>4 DEF TeardownListener, NotStarted, mainVars, acceptVars, hbVars
  <2> QED
    BY <1>4, <2>1, <2>2, <2>3, <2>4, TypeFrame DEF TypeInv, TypeOK, TeardownListener,
       netVars, peerVars, mainVars, acceptVars, hbVars, loopVars, poolVars
<1>5. ASSUME JoinAccept
      PROVE  TypeInv'
  <2>1. MainTypeOK'
    BY <1>1, <1>5 DEF JoinAccept, MainTypeOK
  <2>2. NotStarted'
    BY <1>1, <1>5 DEF JoinAccept, NotStarted, mainVars, acceptVars, hbVars
  <2> QED
    BY <1>5, <2>1, <2>2, TypeFrame DEF TypeInv, TypeOK, JoinAccept,
       netVars, peerVars, mainVars, acceptVars, hbVars, loopVars, poolVars
<1>6. ASSUME JoinHeartbeat
      PROVE  TypeInv'
  <2>1. MainTypeOK'
    BY <1>1, <1>6 DEF JoinHeartbeat, MainTypeOK
  <2>2. NotStarted'
    BY <1>1, <1>6 DEF JoinHeartbeat, NotStarted, mainVars, acceptVars, hbVars
  <2> QED
    BY <1>6, <2>1, <2>2, TypeFrame DEF TypeInv, TypeOK, JoinHeartbeat,
       netVars, peerVars, mainVars, acceptVars, hbVars, loopVars, poolVars
<1>7. ASSUME DestroyServer
      PROVE  TypeInv'
  <2>1. MainTypeOK'
    BY <1>1, <1>7 DEF DestroyServer, MainTypeOK
  <2>2. NotStarted'
    BY <1>1, <1>7 DEF DestroyServer, NotStarted, mainVars, acceptVars, hbVars
  <2> QED
    BY <1>7, <2>1, <2>2, TypeFrame DEF TypeInv, TypeOK, DestroyServer,
       netVars, peerVars, mainVars, acceptVars, hbVars, loopVars, poolVars
<1>8. ASSUME AcceptTop
      PROVE  TypeInv'
  <2>1. AcceptTypeOK'
    BY <1>1, <1>8 DEF AcceptTop, AcceptTypeOK
  <2>2. NotStarted'
    BY <1>1, <1>8 DEF AcceptTop, NotStarted, mainVars, acceptVars, hbVars
  <2> QED
    BY <1>8, <2>1, <2>2, TypeFrame DEF TypeInv, TypeOK, AcceptTop,
       netVars, peerVars, mainVars, acceptVars, hbVars, loopVars, poolVars
<1>9. ASSUME NEW c \in Conn, NEW f \in Fd, AcceptConn(c, f)
      PROVE  TypeInv'
  <2>1. NetTypeOK'
    BY <1>1, <1>9 DEF AcceptConn, NetTypeOK, netVars, peerVars
  <2>2. AcceptTypeOK'
    BY <1>1, <1>9 DEF AcceptConn, AcceptTypeOK
  <2>3. OneLife'
    BY <1>1, <1>9
       DEF AcceptConn, OneLife, NetTypeOK, AcceptTypeOK, LoopTypeOK, netVars, peerVars,
           acceptVars, loopVars
  <2>4. NotStarted'
    BY <1>1, <1>9 DEF AcceptConn, NotStarted, mainVars, acceptVars, hbVars
  <2> QED
    BY <1>9, <2>1, <2>2, <2>3, <2>4, TypeFrame DEF TypeInv, TypeOK, AcceptConn,
       netVars, peerVars, mainVars, acceptVars, hbVars, loopVars, poolVars
<1>10. ASSUME AcceptFail
      PROVE  TypeInv'
  <2>1. AcceptTypeOK'
    BY <1>1, <1>10 DEF AcceptFail, AcceptTypeOK
  <2>2. NotStarted'
    BY <1>1, <1>10 DEF AcceptFail, NotStarted, mainVars, acceptVars, hbVars
  <2> QED
    BY <1>10, <2>1, <2>2, TypeFrame DEF TypeInv, TypeOK, AcceptFail,
       netVars, peerVars, mainVars, acceptVars, hbVars, loopVars, poolVars
<1>11. ASSUME AcceptReject
      PROVE  TypeInv'
  <2>1. NetTypeOK'
    BY <1>1, <1>11
       DEF AcceptReject, CloseFd, ShutdownFd, NetTypeOK, netVars, peerVars, AcceptTypeOK
  <2>2. AcceptTypeOK'
    BY <1>1, <1>11 DEF AcceptReject, CloseFd, ShutdownFd, AcceptTypeOK
  <2>3. OneLife'
    BY <1>1, <1>11
       DEF AcceptReject, CloseFd, ShutdownFd, OneLife, NetTypeOK, AcceptTypeOK, LoopTypeOK,
           netVars, peerVars, acceptVars, loopVars
  <2>4. NotStarted'
    BY <1>1, <1>11
       DEF AcceptReject, CloseFd, ShutdownFd, NotStarted, mainVars, acceptVars, hbVars
  <2> QED
    BY <1>11, <2>1, <2>2, <2>3, <2>4, TypeFrame
       DEF TypeInv, TypeOK, AcceptReject, CloseFd, ShutdownFd,
       netVars, peerVars, mainVars, acceptVars, hbVars, loopVars, poolVars
<1>12. ASSUME AcceptAdmit
      PROVE  TypeInv'
  <2>1. AcceptTypeOK'
    BY <1>1, <1>12 DEF AcceptAdmit, AcceptTypeOK
  <2>2. NotStarted'
    BY <1>1, <1>12 DEF AcceptAdmit, NotStarted, mainVars, acceptVars, hbVars
  <2> QED
    BY <1>12, <2>1, <2>2, TypeFrame DEF TypeInv, TypeOK, AcceptAdmit,
       netVars, peerVars, mainVars, acceptVars, hbVars, loopVars, poolVars
<1>13. ASSUME AcceptInsert
      PROVE  TypeInv'
  <2>1. RegistryTypeOK'
    BY <1>1, <1>13 DEF AcceptInsert, Insert, RegistryTypeOK, NodeInfo, AcceptTypeOK
  <2>2. AcceptTypeOK'
    BY <1>1, <1>13 DEF AcceptInsert, Insert, AcceptTypeOK
  <2>3. NotStarted'
    BY <1>1, <1>13 DEF AcceptInsert, Insert, NotStarted, mainVars, acceptVars, hbVars
  <2> QED
    BY <1>13, <2>1, <2>2, <2>3, TypeFrame DEF TypeInv, TypeOK, AcceptInsert,
       netVars, peerVars, mainVars, acceptVars, hbVars, loopVars, poolVars
<1>14. ASSUME AcceptSpawn
      PROVE  TypeInv'
  <2>1. AcceptTypeOK'
    BY <1>1, <1>14 DEF AcceptSpawn, AcceptTypeOK
  <2>2. LoopTypeOK'
    BY <1>1, <1>14 DEF AcceptSpawn, LoopTypeOK, AcceptTypeOK, LoopPc, OneLife
  <2>3. OneLife'
    BY <1>1, <1>14
       DEF AcceptSpawn, OneLife, NetTypeOK, AcceptTypeOK, LoopTypeOK, netVars, peerVars,
           acceptVars, loopVars
  <2>4. NotStarted'
    BY <1>1, <1>14 DEF AcceptSpawn, NotStarted, mainVars, acceptVars, hbVars
  <2> QED
    BY <1>14, <2>1, <2>2, <2>3, <2>4, TypeFrame DEF TypeInv, TypeOK, AcceptSpawn,
       netVars, peerVars, mainVars, acceptVars, hbVars, loopVars, poolVars
<1>15. ASSUME NEW c \in Conn, LoopTop(c)
      PROVE  TypeInv'
  <2>1. LoopTypeOK'
    BY <1>1, <1>15 DEF LoopTop, Goto, LoopTypeOK, LoopPc
  <2>2. OneLife'
    BY <1>1, <1>15
       DEF LoopTop, Goto, OneLife, NetTypeOK, AcceptTypeOK, LoopTypeOK, netVars, peerVars,
           acceptVars, loopVars
  <2> QED
    BY <1>15, <2>1, <2>2, TypeFrame DEF TypeInv, TypeOK, LoopTop, Goto,
       netVars, peerVars, mainVars, acceptVars, hbVars, loopVars, poolVars
<1>16. ASSUME NEW c \in Conn, LoopRecv(c)
      PROVE  TypeInv'
  <2>1. LoopTypeOK'
    BY <1>1, <1>16 DEF LoopRecv, Goto, LoopTypeOK, LoopPc, NetTypeOK
  <2>2. OneLife'
    BY <1>1, <1>16
       DEF LoopRecv, Goto, OneLife, NetTypeOK, AcceptTypeOK, LoopTypeOK, netVars, peerVars,
           acceptVars, loopVars
  <2> QED
    BY <1>16, <2>1, <2>2, TypeFrame DEF TypeInv, TypeOK, LoopRecv, Goto,
       netVars, peerVars, mainVars, acceptVars, hbVars, loopVars, poolVars
<1>17. ASSUME NEW c \in Conn, LoopMessage(c)
      PROVE  TypeInv'
  <2>1. NetTypeOK'
    BY <1>1, <1>17 DEF LoopMessage, Goto, NetTypeOK, netVars, peerVars, LoopTypeOK
  <2>2. LoopTypeOK'
    BY <1>1, <1>17 DEF LoopMessage, Goto, LoopTypeOK, LoopPc, NetTypeOK
  <2>3. OneLife'
    BY <1>1, <1>17
       DEF LoopMessage, Goto, OneLife, NetTypeOK, AcceptTypeOK, LoopTypeOK, netVars, peerVars,
           acceptVars, loopVars
  <2> QED
    BY <1>17, <2>1, <2>2, <2>3, TypeFrame DEF TypeInv, TypeOK, LoopMessage, Goto,
       netVars, peerVars, mainVars, acceptVars, hbVars, loopVars, poolVars
<1>18. ASSUME NEW c \in Conn, LoopEof(c)
      PROVE  TypeInv'
  <2>1. LoopTypeOK'
    BY <1>1, <1>18 DEF LoopEof, Goto, AtEof, LoopTypeOK, LoopPc
  <2>2. OneLife'
    BY <1>1, <1>18
       DEF LoopEof, Goto, AtEof, OneLife, NetTypeOK, AcceptTypeOK, LoopTypeOK, netVars,
           peerVars, acceptVars, loopVars
  <2> QED
    BY <1>18, <2>1, <2>2, TypeFrame DEF TypeInv, TypeOK, LoopEof, Goto,
       netVars, peerVars, mainVars, acceptVars, hbVars, loopVars, poolVars
<1>38. ASSUME NEW c \in Conn, LoopEmptyFrame(c)
      PROVE  TypeInv'
  <2>1. NetTypeOK'
    BY <1>1, <1>38 DEF LoopEmptyFrame, Goto, NetTypeOK, netVars, peerVars, LoopTypeOK
  <2>2. LoopTypeOK'
    BY <1>1, <1>38 DEF LoopEmptyFrame, Goto, LoopTypeOK, LoopPc, NetTypeOK
  <2>3. OneLife'
    BY <1>1, <1>38
       DEF LoopEmptyFrame, Goto, OneLife, NetTypeOK, AcceptTypeOK, LoopTypeOK, netVars,
           peerVars, acceptVars, loopVars
  <2> QED
    BY <1>38, <2>1, <2>2, <2>3, TypeFrame DEF TypeInv, TypeOK, LoopEmptyFrame, Goto,
       netVars, peerVars, mainVars, acceptVars, hbVars, loopVars, poolVars
<1>19. ASSUME NEW c \in Conn, LoopHandoff(c)
      PROVE  TypeInv'
  <2>1. LoopTypeOK'
    BY <1>1, <1>19 DEF LoopHandoff, Goto, LoopTypeOK, LoopPc
  <2>2. PoolTypeOK'
    BY <1>1, <1>19 DEF LoopHandoff, Goto, PoolTypeOK, Task, LoopTypeOK
  <2>3. OneLife'
    BY <1>1, <1>19
       DEF LoopHandoff, Goto, OneLife, NetTypeOK, AcceptTypeOK, LoopTypeOK, netVars, peerVars,
           acceptVars, loopVars
  <2> QED
    BY <1>19, <2>1, <2>2, <2>3, TypeFrame DEF TypeInv, TypeOK, LoopHandoff, Goto,
       netVars, peerVars, mainVars, acceptVars, hbVars, loopVars, poolVars
<1>20. ASSUME NEW c \in Conn, LoopErase(c)
      PROVE  TypeInv'
  <2>1. RegistryTypeOK'
    BY <1>1, <1>20 DEF LoopErase, Goto, Erase, RegistryTypeOK, NodeInfo
  <2>2. LoopTypeOK'
    BY <1>1, <1>20 DEF LoopErase, Goto, Erase, LoopTypeOK, LoopPc
  <2>3. OneLife'
    BY <1>1, <1>20
       DEF LoopErase, Goto, Erase, OneLife, NetTypeOK, AcceptTypeOK, LoopTypeOK, netVars,
           peerVars, acceptVars, loopVars
  <2> QED
    BY <1>20, <2>1, <2>2, <2>3, TypeFrame DEF TypeInv, TypeOK, LoopErase, Goto,
       netVars, peerVars, mainVars, acceptVars, hbVars, loopVars, poolVars
<1>21. ASSUME NEW c \in Conn, LoopShut(c)
      PROVE  TypeInv'
  <2>1. NetTypeOK'
    BY <1>1, <1>21 DEF LoopShut, Goto, ShutdownFd, NetTypeOK, netVars, peerVars, LoopTypeOK
  <2>2. LoopTypeOK'
    BY <1>1, <1>21 DEF LoopShut, Goto, ShutdownFd, LoopTypeOK, LoopPc
  <2>3. OneLife'
    BY <1>1, <1>21
       DEF LoopShut, Goto, ShutdownFd, OneLife, NetTypeOK, AcceptTypeOK, LoopTypeOK, netVars,
           peerVars, acceptVars, loopVars
  <2> QED
    BY <1>21, <2>1, <2>2, <2>3, TypeFrame DEF TypeInv, TypeOK, LoopShut, Goto, ShutdownFd,
       netVars, peerVars, mainVars, acceptVars, hbVars, loopVars, poolVars
<1>22. ASSUME NEW c \in Conn, LoopClose(c)
      PROVE  TypeInv'
  <2>1. NetTypeOK'
    BY <1>1, <1>22
       DEF LoopClose, Goto, CloseFd, ShutdownFd, NetTypeOK, netVars, peerVars, LoopTypeOK
  <2>2. LoopTypeOK'
    BY <1>1, <1>22 DEF LoopClose, Goto, CloseFd, ShutdownFd, LoopTypeOK, LoopPc
  <2>3. OneLife'
    BY <1>1, <1>22
       DEF LoopClose, Goto, CloseFd, ShutdownFd, OneLife, NetTypeOK, AcceptTypeOK, LoopTypeOK,
           netVars, peerVars, acceptVars, loopVars
  <2> QED
    BY <1>22, <2>1, <2>2, <2>3, TypeFrame
       DEF TypeInv, TypeOK, LoopClose, Goto, CloseFd, ShutdownFd,
       netVars, peerVars, mainVars, acceptVars, hbVars, loopVars, poolVars
<1>23. ASSUME HbTop
      PROVE  TypeInv'
  <2>1. HbTypeOK'
    BY <1>1, <1>23 DEF HbTop, Registered, HbTypeOK, RegistryTypeOK
  <2>2. NotStarted'
    BY <1>1, <1>23 DEF HbTop, Registered, NotStarted, mainVars, acceptVars, hbVars
  <2> QED
    BY <1>23, <2>1, <2>2, TypeFrame DEF TypeInv, TypeOK, HbTop,
       netVars, peerVars, mainVars, acceptVars, hbVars, loopVars, poolVars
<1>24. ASSUME NEW f \in Fd, HbPing(f)
      PROVE  TypeInv'
  <2>1. NetTypeOK'
    BY <1>1, <1>24 DEF HbPing, SendPing, NetTypeOK, netVars, peerVars, HbTypeOK
  <2>2. HbTypeOK'
    BY <1>1, <1>24 DEF HbPing, SendPing, HbTypeOK, RegistryTypeOK
  <2>3. NotStarted'
    BY <1>1, <1>24 DEF HbPing, SendPing, NotStarted, mainVars, acceptVars, hbVars
  <2> QED
    BY <1>24, <2>1, <2>2, <2>3, TypeFrame DEF TypeInv, TypeOK, HbPing,
       netVars, peerVars, mainVars, acceptVars, hbVars, loopVars, poolVars
<1>25. ASSUME HbSnapshot
      PROVE  TypeInv'
  <2>1. HbTypeOK'
    BY <1>1, <1>25 DEF HbSnapshot, Registered, HbTypeOK, RegistryTypeOK
  <2>2. NotStarted'
    BY <1>1, <1>25 DEF HbSnapshot, Registered, NotStarted, mainVars, acceptVars, hbVars
  <2> QED
    BY <1>25, <2>1, <2>2, TypeFrame DEF TypeInv, TypeOK, HbSnapshot,
       netVars, peerVars, mainVars, acceptVars, hbVars, loopVars, poolVars
<1>26. ASSUME NEW f \in Fd, HbErase(f)
      PROVE  TypeInv'
  <2>1. RegistryTypeOK'
    BY <1>1, <1>26 DEF HbErase, Erase, RegistryTypeOK, NodeInfo
  <2>2. HbTypeOK'
    BY <1>1, <1>26 DEF HbErase, Erase, HbTypeOK, RegistryTypeOK
  <2>3. NotStarted'
    BY <1>1, <1>26 DEF HbErase, Erase, NotStarted, mainVars, acceptVars, hbVars
  <2> QED
    BY <1>26, <2>1, <2>2, <2>3, TypeFrame DEF TypeInv, TypeOK, HbErase,
       netVars, peerVars, mainVars, acceptVars, hbVars, loopVars, poolVars
<1>27. ASSUME HbShut
      PROVE  TypeInv'
  <2>1. NetTypeOK'
    BY <1>1, <1>27 DEF HbShut, ShutdownFd, NetTypeOK, netVars, peerVars, HbTypeOK
  <2>2. HbTypeOK'
    BY <1>1, <1>27 DEF HbShut, ShutdownFd, HbTypeOK, RegistryTypeOK
  <2>3. NotStarted'
    BY <1>1, <1>27 DEF HbShut, ShutdownFd, NotStarted, mainVars, acceptVars, hbVars
  <2> QED
    BY <1>27, <2>1, <2>2, <2>3, TypeFrame DEF TypeInv, TypeOK, HbShut, ShutdownFd,
       netVars, peerVars, mainVars, acceptVars, hbVars, loopVars, poolVars
<1>28. ASSUME HbClose
      PROVE  TypeInv'
  <2>1. NetTypeOK'
    BY <1>1, <1>28 DEF HbClose, CloseFd, ShutdownFd, NetTypeOK, netVars, peerVars, HbTypeOK
  <2>2. HbTypeOK'
    BY <1>1, <1>28 DEF HbClose, CloseFd, ShutdownFd, HbTypeOK, RegistryTypeOK
  <2>3. NotStarted'
    BY <1>1, <1>28
       DEF HbClose, CloseFd, ShutdownFd, NotStarted, mainVars, acceptVars, hbVars
  <2> QED
    BY <1>28, <2>1, <2>2, <2>3, TypeFrame DEF TypeInv, TypeOK, HbClose, CloseFd, ShutdownFd,
       netVars, peerVars, mainVars, acceptVars, hbVars, loopVars, poolVars
<1>29. ASSUME HbSleep
      PROVE  TypeInv'
  <2>1. HbTypeOK'
    BY <1>1, <1>29 DEF HbSleep, HbTypeOK, RegistryTypeOK
  <2>2. NotStarted'
    BY <1>1, <1>29 DEF HbSleep, NotStarted, mainVars, acceptVars, hbVars
  <2> QED
    BY <1>29, <2>1, <2>2, TypeFrame DEF TypeInv, TypeOK, HbSleep,
       netVars, peerVars, mainVars, acceptVars, hbVars, loopVars, poolVars
<1>30. ASSUME NEW w \in Worker, PoolTake(w)
      PROVE  TypeInv'
  <2>1. Head(queue) \in Task /\ Tail(queue) \in Seq(Task)
    BY <1>1, <1>30 DEF PoolTake, PoolTypeOK
  <2>2. PoolTypeOK'
    BY <1>1, <1>30, <2>1 DEF PoolTake, PoolTypeOK
  <2> QED
    BY <1>30, <2>2, TypeFrame DEF TypeInv, TypeOK, PoolTake,
       netVars, peerVars, mainVars, acceptVars, hbVars, loopVars, poolVars
<1>31. ASSUME NEW w \in Worker, PoolRun(w)
      PROVE  TypeInv'
  <2>1. job[w] \in Task
    BY <1>1, <1>31 DEF PoolRun, PoolTypeOK
  <2>2. job[w].id \in Fd /\ job[w].from \in Conn
    BY <2>1 DEF Task
  <2>3. RegistryTypeOK'
    <3>1. ASSUME NEW f \in Fd, NEW e \in Conn, NEW m, Update(f, e, m)
          PROVE  RegistryTypeOK'
      <4>1. CASE nodes[f] = None \/ m = "OTHER"
        BY <1>1, <3>1, <4>1 DEF Update, RegistryTypeOK
      <4>2. CASE nodes[f] # None /\ m # "OTHER"
        <5> DEFINE specs == IF m = "REPORT" THEN e ELSE nodes[f].specs
                   entry == [nodes[f] EXCEPT !.expired = FALSE, !.specs = specs]
        <5>1. nodes \in [Fd -> NodeInfo \cup {None}]
          BY <1>1 DEF RegistryTypeOK
        <5>2. nodes[f] \in NodeInfo
          BY <4>2, <5>1
        <5>3. entry \in NodeInfo
          BY <5>2 DEF NodeInfo
        <5>4. nodes' = [nodes EXCEPT ![f] = entry]
          BY <3>1, <4>2, <5>1 DEF Update
        <5> HIDE DEF entry
        <5> QED
          BY <5>1, <5>3, <5>4 DEF RegistryTypeOK
      <4> QED
        BY <4>1, <4>2
    <3> QED
      BY <1>31, <2>2, <3>1 DEF PoolRun
  <2>4. PoolTypeOK'
    BY <1>1, <1>31 DEF PoolRun, PoolTypeOK
  <2> QED
    BY <1>31, <2>3, <2>4, TypeFrame DEF TypeInv, TypeOK, PoolRun,
       netVars, peerVars, mainVars, acceptVars, hbVars, loopVars, poolVars
<1>32. ASSUME NEW c \in Conn, PeerConnect(c),
             UNCHANGED <<nodes, mainVars, acceptVars, hbVars, loopVars, poolVars>>
      PROVE  TypeInv'
  <2>1. NetTypeOK'
    BY <1>1, <1>32 DEF PeerConnect, NetTypeOK, netVars, peerVars, Message
  <2>2. OneLife'
    BY <1>1, <1>32
       DEF PeerConnect, OneLife, NetTypeOK, AcceptTypeOK, LoopTypeOK, netVars, peerVars,
           acceptVars, loopVars
  <2> QED
    BY <1>32, <2>1, <2>2, TypeFrame DEF TypeInv, TypeOK, PeerConnect,
       netVars, peerVars, mainVars, acceptVars, hbVars, loopVars, poolVars
<1>33. ASSUME NEW c \in Conn, NEW m \in Unasked, PeerSend(c, m),
            UNCHANGED <<nodes, mainVars, acceptVars, hbVars, loopVars, poolVars>>
      PROVE  TypeInv'
  <2>1. NetTypeOK'
    <3>1. m \in Message
      OBVIOUS
    <3>2. Append(inbox[c], m) \in Seq(Message)
      BY <1>1, <3>1 DEF NetTypeOK
    <3>3. inbox' \in [Conn -> Seq(Message)]
      BY <1>1, <1>33, <3>2 DEF PeerSend, NetTypeOK
    <3> QED
      BY <1>1, <1>33, <3>3 DEF PeerSend, NetTypeOK
  <2> QED
    BY <1>33, <2>1, TypeFrame DEF TypeInv, TypeOK, PeerSend,
       netVars, peerVars, mainVars, acceptVars, hbVars, loopVars, poolVars
<1>34. ASSUME NEW c \in Conn, PeerPong(c),
             UNCHANGED <<nodes, mainVars, acceptVars, hbVars, loopVars, poolVars>>
      PROVE  TypeInv'
  <2>1. NetTypeOK'
    <3>1. "PONG" \in Message
      BY DEF Message
    <3>2. Append(inbox[c], "PONG") \in Seq(Message)
      BY <1>1, <3>1 DEF NetTypeOK
    <3>3. inbox' \in [Conn -> Seq(Message)]
      BY <1>1, <1>34, <3>2 DEF PeerPong, NetTypeOK
    <3> QED
      BY <1>1, <1>34, <3>3 DEF PeerPong, NetTypeOK
  <2> QED
    BY <1>34, <2>1, TypeFrame DEF TypeInv, TypeOK, PeerPong,
       netVars, peerVars, mainVars, acceptVars, hbVars, loopVars, poolVars
<1>35. ASSUME NEW c \in Conn, PeerLeave(c),
             UNCHANGED <<nodes, mainVars, acceptVars, hbVars, loopVars, poolVars>>
      PROVE  TypeInv'
  <2>1. NetTypeOK'
    <3>1. inbox' \in [Conn -> Seq(Message)]
      <4>1. CASE inbox' = inbox
        BY <1>1, <4>1 DEF NetTypeOK
      <4>2. CASE inbox' = [inbox EXCEPT ![c] = <<>>]
        BY <1>1, <4>2 DEF NetTypeOK
      <4> QED
        BY <1>35, <4>1, <4>2 DEF PeerLeave
    <3> QED
      BY <1>1, <1>35, <3>1 DEF PeerLeave, NetTypeOK
  <2>2. OneLife'
    BY <1>1, <1>35
       DEF PeerLeave, OneLife, NetTypeOK, AcceptTypeOK, LoopTypeOK, netVars, peerVars,
           acceptVars, loopVars
  <2> QED
    BY <1>35, <2>1, <2>2, TypeFrame DEF TypeInv, TypeOK, PeerLeave,
       netVars, peerVars, mainVars, acceptVars, hbVars, loopVars, poolVars
<1>36. ASSUME NEW f \in Fd, Expire(f),
            UNCHANGED <<netVars, mainVars, acceptVars, hbVars, loopVars, poolVars>>
      PROVE  TypeInv'
  <2>1. RegistryTypeOK'
    BY <1>1, <1>36 DEF Expire, RegistryTypeOK, NodeInfo
  <2> QED
    BY <1>36, <2>1, TypeFrame DEF TypeInv, TypeOK, Expire,
       netVars, peerVars, mainVars, acceptVars, hbVars, loopVars, poolVars
<1>37. ASSUME UNCHANGED vars
      PROVE  TypeInv'
  <2> QED
    BY <1>37, TypeFrame DEF TypeInv, TypeOK, vars,
       netVars, peerVars, mainVars, acceptVars, hbVars, loopVars, poolVars
<1> QED
  BY <1>2, <1>3, <1>4, <1>5, <1>6, <1>7, <1>8, <1>9, <1>10, <1>11, <1>12, <1>13,
     <1>14, <1>15, <1>16, <1>17, <1>18, <1>19, <1>20, <1>21, <1>22, <1>23, <1>24,
     <1>25, <1>26, <1>27, <1>28, <1>29, <1>30, <1>31, <1>32, <1>33, <1>34, <1>35,
     <1>36, <1>37, <1>38, <1>39
     DEF Next, Terminated, Environment, Peers, Server, MainStep, AcceptStep, LoopStep, HbStep, PoolStep

LEMMA TypeInit == Init => TypeInv
<1> SUFFICES ASSUME Init
             PROVE  TypeInv
  OBVIOUS
<1> USE SocketAssumption DEF Init
<1>1. NetTypeOK /\ RegistryTypeOK
  <2>1. inbox \in [Conn -> Seq(Message)] /\ sent \in [Conn -> 0..MaxMsgs]
    BY DEF NetInit
  <2>2. listening \in BOOLEAN
    BY DEF NetInit
  <2>3. /\ fdTable \in [Fd -> Conn \cup {None}] /\ peer \in [Conn -> {"away", "open", "gone"}]
        /\ backlog \subseteq Conn /\ shut \subseteq Conn /\ pinged \subseteq Conn
    BY DEF NetInit
  <2> QED
    BY <2>1, <2>2, <2>3 DEF RegistryInit, NetTypeOK, RegistryTypeOK
<1>2. MainTypeOK /\ AcceptTypeOK /\ HbTypeOK
  BY DEF MainTypeOK, AcceptTypeOK, HbTypeOK
<1>3. LoopTypeOK /\ PoolTypeOK
  BY DEF LoopTypeOK, PoolTypeOK, LoopPc
<1>4. OneLife /\ NotStarted
  BY DEF NetInit, OneLife, NotStarted
<1> QED
  BY <1>1, <1>2, <1>3, <1>4 DEF TypeInv, TypeOK

LEMMA TypeInvariant == SafetySpec => []TypeInv
<1>1. Init => TypeInv
  BY TypeInit
<1>2. TypeInv /\ [Next]_vars => TypeInv'
  BY TypeNext
<1> QED
  BY <1>1, <1>2, PTL DEF SafetySpec

\* TypeOK: every variable of the server keeps its type; in particular a
\* thread that is about to use a descriptor has one.
THEOREM Typing == SafetySpec => []TypeOK
<1>1. TypeInv => TypeOK
  BY DEF TypeInv
<1> QED
  BY <1>1, TypeInvariant, PTL

-----------------------------------------------------------------------------
(***************************************************************************)
(* Who owns what in MasterServer: every registry entry and every open      *)
(* descriptor has a thread that is going to release it, the limit holds    *)
(* when an entry is inserted, and until the heartbeat removes a node no    *)
(* thread acts on a descriptor of another connection.                      *)
(***************************************************************************)

(* NoOrphanEntry is inductive with the types.                              *)

LEMMA OrphanNext ==
    ASSUME TypeInv, NoOrphanEntry, [Next]_vars
    PROVE  NoOrphanEntry'
<1>1. /\ NetTypeOK /\ RegistryTypeOK /\ AcceptTypeOK /\ LoopTypeOK /\ PoolTypeOK /\ OneLife
  BY DEF TypeInv, TypeOK
<1>2. ASSUME UNCHANGED <<nodes, loop, id>>,
             acceptPc # "spawn" \/ UNCHANGED acceptVars
      PROVE  NoOrphanEntry'
  BY <1>2 DEF NoOrphanEntry, Registered, Serving, acceptVars
<1>3. ASSUME UNCHANGED <<acceptVars, loop, id>>,
             \A f \in Fd : nodes'[f] # None => /\ nodes[f] # None
                                               /\ nodes'[f].owner = nodes[f].owner
      PROVE  NoOrphanEntry'
  BY <1>3 DEF NoOrphanEntry, Registered, Serving, acceptVars
<1>4. ASSUME NEW c \in Conn, NEW next, loop' = [loop EXCEPT ![c] = next],
             Serving(c) => next \in {"top", "recv", "blocked", "handoff", "erase"},
             UNCHANGED <<nodes, acceptVars, id>>
      PROVE  NoOrphanEntry'
  BY <1>1, <1>4 DEF NoOrphanEntry, Registered, Serving, acceptVars, LoopTypeOK
<1>5. CASE AcceptInsert
  <2>1. acceptFd \in Fd /\ acceptConn \in Conn
    BY <1>1, <1>5, SocketAssumption DEF AcceptInsert, AcceptTypeOK
  <2>2. \A f \in Fd : nodes'[f] # None =>
          \/ f = acceptFd /\ nodes'[f].owner = acceptConn
          \/ nodes'[f] = nodes[f]
    BY <1>1, <1>5, <2>1 DEF AcceptInsert, Insert, RegistryTypeOK
  <2>3. acceptPc = "insert" /\ acceptPc' = "spawn" /\ UNCHANGED <<acceptFd, acceptConn, loop, id>>
    BY <1>5 DEF AcceptInsert, loopVars
  <2> QED
    BY <2>2, <2>3 DEF NoOrphanEntry, Registered, Serving
<1>6. CASE AcceptSpawn
  <2>1. acceptFd \in Fd /\ acceptConn \in Conn /\ loop[acceptConn] = "none"
    BY <1>1, <1>6, SocketAssumption DEF AcceptSpawn, AcceptTypeOK, OneLife
  <2>2. /\ loop'[acceptConn] = "top" /\ id'[acceptConn] = acceptFd
        /\ \A c \in Conn : c # acceptConn => loop'[c] = loop[c] /\ id'[c] = id[c]
    BY <1>1, <1>6, <2>1 DEF AcceptSpawn, LoopTypeOK
  <2>3. UNCHANGED nodes
    BY <1>6 DEF AcceptSpawn
  <2>4. \A f \in Registered : nodes[f].owner \in Conn
    BY <1>1 DEF Registered, RegistryTypeOK, NodeInfo
  <2> QED
    BY <2>1, <2>2, <2>3, <2>4 DEF NoOrphanEntry, Registered, Serving
<1>7. ASSUME NEW c \in Conn, LoopErase(c)
      PROVE  NoOrphanEntry'
  <2>1. \A f \in Fd : nodes'[f] # None => nodes'[f] = nodes[f] /\ f # id[c]
    BY <1>1, <1>7 DEF LoopErase, Erase, RegistryTypeOK
  <2>2. \A d \in Conn : d # c => loop'[d] = loop[d]
    BY <1>1, <1>7 DEF LoopErase, Goto, LoopTypeOK
  <2>3. UNCHANGED <<acceptPc, acceptFd, acceptConn, id>>
    BY <1>7 DEF LoopErase, acceptVars
  <2>4. \A f \in Registered : nodes[f].owner \in Conn
    BY <1>1 DEF Registered, RegistryTypeOK, NodeInfo
  <2> QED
    BY <2>1, <2>2, <2>3, <2>4 DEF NoOrphanEntry, Registered, Serving
<1>8. ASSUME NEW c \in Conn, LoopClose(c)
      PROVE  NoOrphanEntry'
  <2>1. /\ ~Serving(c) /\ UNCHANGED <<nodes, acceptPc, acceptFd, acceptConn>>
        /\ \A d \in Conn : d # c => loop'[d] = loop[d] /\ id'[d] = id[d]
    BY <1>1, <1>8 DEF LoopClose, Goto, LoopTypeOK, Serving, acceptVars
  <2>2. \A f \in Registered : nodes[f].owner \in Conn
    BY <1>1 DEF Registered, RegistryTypeOK, NodeInfo
  <2> QED
    BY <2>1, <2>2 DEF NoOrphanEntry, Registered, Serving
<1>9. ASSUME NEW w \in Worker, PoolRun(w)
      PROVE  NoOrphanEntry'
  <2>1. job[w].id \in Fd /\ job[w].from \in Conn
    <3>1. job[w] \in Task
      BY <1>1, <1>9 DEF PoolRun, PoolTypeOK
    <3> QED
      BY <3>1 DEF Task
  <2>2. ASSUME NEW f \in Fd, NEW e \in Conn, NEW m, Update(f, e, m), NEW g \in Fd,
               nodes'[g] # None
        PROVE  nodes[g] # None /\ nodes'[g].owner = nodes[g].owner
    BY <1>1, <2>2 DEF Update, RegistryTypeOK, NodeInfo
  <2>3. \A g \in Fd : nodes'[g] # None => nodes[g] # None /\ nodes'[g].owner = nodes[g].owner
    BY <1>9, <2>1, <2>2 DEF PoolRun
  <2> QED
    BY <1>3, <1>9, <2>3 DEF PoolRun, loopVars
<1>10. ASSUME NEW f \in Fd, HbErase(f)
       PROVE  NoOrphanEntry'
  BY <1>1, <1>3, <1>10 DEF HbErase, Erase, RegistryTypeOK, loopVars
<1>11. ASSUME NEW f \in Fd, Expire(f), UNCHANGED <<acceptVars, loopVars>>
       PROVE  NoOrphanEntry'
  BY <1>1, <1>3, <1>11 DEF Expire, RegistryTypeOK, NodeInfo, loopVars
<1>12. ASSUME NEW c \in Conn,
              LoopTop(c) \/ LoopRecv(c) \/ LoopMessage(c) \/ LoopEof(c)
              \/ LoopEmptyFrame(c) \/ LoopHandoff(c) \/ LoopShut(c)
       PROVE  NoOrphanEntry'
  BY <1>4, <1>12
     DEF LoopTop, LoopRecv, LoopMessage, LoopEof, LoopEmptyFrame, LoopHandoff, LoopShut, Goto,
         Serving
<1>13. CASE StartServer \/ StartFails \/ StopServer \/ MainStep
  BY <1>1, <1>2, <1>13, TypeInit
     DEF TypeInv, NotStarted, StartServer, StartFails, StopServer, MainStep, TeardownListener, JoinAccept,
         JoinHeartbeat, DestroyServer, loopVars
<1>14. ASSUME AcceptTop \/ AcceptFail \/ AcceptReject \/ AcceptAdmit
              \/ \E c \in Conn, f \in Fd : AcceptConn(c, f)
       PROVE  NoOrphanEntry'
  BY <1>2, <1>14 DEF AcceptTop, AcceptFail, AcceptReject, AcceptAdmit, AcceptConn, loopVars
<1>15. ASSUME HbTop \/ HbSnapshot \/ HbShut \/ HbClose \/ HbSleep \/ \E f \in Fd : HbPing(f)
       PROVE  NoOrphanEntry'
  BY <1>2, <1>15 DEF HbTop, HbSnapshot, HbShut, HbClose, HbSleep, HbPing, loopVars
<1>16. ASSUME NEW w \in Worker, PoolTake(w)
       PROVE  NoOrphanEntry'
  BY <1>2, <1>16 DEF PoolTake, loopVars
<1>17. ASSUME UNCHANGED <<nodes, acceptVars, loopVars>>
       PROVE  NoOrphanEntry'
  BY <1>2, <1>17 DEF loopVars
<1> QED
  BY <1>5, <1>6, <1>7, <1>8, <1>9, <1>10, <1>11, <1>12, <1>13, <1>14, <1>15, <1>16, <1>17
     DEF Next, Terminated, Environment, Server, AcceptStep, LoopStep, HbStep, PoolStep, vars

\* NoOrphanEntry: whatever the interleaving of the accept thread, the loops,
\* the heartbeat and the pool, no entry outlives the loop that erases it.
THEOREM NoOrphan == SafetySpec => []NoOrphanEntry
<1>1. Init => NoOrphanEntry
  BY DEF Init, RegistryInit, NoOrphanEntry, Registered
<1>2. TypeInv /\ NoOrphanEntry /\ [Next]_vars => NoOrphanEntry'
  BY OrphanNext
<1> QED
  BY <1>1, <1>2, TypeInvariant, PTL DEF SafetySpec

-----------------------------------------------------------------------------
(* NoDescriptorLeak is inductive with the types.                           *)

LEMMA LeakNext ==
    ASSUME TypeInv, NoDescriptorLeak, [Next]_vars
    PROVE  NoDescriptorLeak'
<1>1. /\ NetTypeOK /\ AcceptTypeOK /\ LoopTypeOK /\ OneLife
  BY DEF TypeInv, TypeOK
<1>2. ASSUME UNCHANGED <<loop, id>>,
             \/ UNCHANGED <<acceptFd, acceptConn>>
                /\ (acceptPc \in {"check", "insert", "spawn"}
                      => acceptPc' \in {"check", "insert", "spawn"})
             \/ acceptPc \notin {"check", "insert", "spawn"},
             \A f \in Fd : fdTable'[f] \in {None, fdTable[f]}
      PROVE  NoDescriptorLeak'
  BY <1>2 DEF NoDescriptorLeak, Live
<1>3. ASSUME NEW c \in Conn, NEW next, loop' = [loop EXCEPT ![c] = next],
             Live(c), next \notin {"none", "exited"},
             UNCHANGED <<fdTable, acceptVars, id>>
      PROVE  NoDescriptorLeak'
  BY <1>1, <1>3 DEF NoDescriptorLeak, Live, acceptVars, LoopTypeOK
<1>4. ASSUME NEW c \in Conn, NEW f \in Fd, AcceptConn(c, f)
      PROVE  NoDescriptorLeak'
  <2>1. /\ acceptPc' = "check" /\ acceptFd' = f /\ acceptConn' = c /\ acceptPc = "accept"
        /\ UNCHANGED <<loop, id>>
        /\ \A g \in Fd : fdTable'[g] = IF g = f THEN c ELSE fdTable[g]
    BY <1>1, <1>4 DEF AcceptConn, NetTypeOK, loopVars
  <2> QED
    BY <2>1 DEF NoDescriptorLeak, Live
<1>5. CASE AcceptReject
  <2>1. acceptPc = "check" /\ acceptFd \in Fd /\ UNCHANGED <<loop, id>>
    BY <1>1, <1>5 DEF AcceptReject, AcceptTypeOK, loopVars
  <2>2. \A g \in Fd : fdTable'[g] = IF g = acceptFd THEN None ELSE fdTable[g]
    BY <1>1, <1>5 DEF AcceptReject, CloseFd, NetTypeOK
  <2> QED
    BY <2>1, <2>2 DEF NoDescriptorLeak, Live
<1>6. CASE AcceptSpawn
  <2>1. acceptFd \in Fd /\ acceptConn \in Conn /\ loop[acceptConn] = "none"
    BY <1>1, <1>6, SocketAssumption DEF AcceptSpawn, AcceptTypeOK, OneLife
  <2>2. /\ loop'[acceptConn] = "top" /\ id'[acceptConn] = acceptFd
        /\ \A c \in Conn : c # acceptConn => loop'[c] = loop[c] /\ id'[c] = id[c]
    BY <1>1, <1>6, <2>1 DEF AcceptSpawn, LoopTypeOK
  <2>3. UNCHANGED fdTable
    BY <1>6 DEF AcceptSpawn, netVars
  <2>4. \A f \in Fd : fdTable[f] \in Conn \cup {None}
    BY <1>1 DEF NetTypeOK
  <2> QED
    BY <2>1, <2>2, <2>3, <2>4 DEF NoDescriptorLeak, Live
<1>7. ASSUME NEW c \in Conn, LoopClose(c)
      PROVE  NoDescriptorLeak'
  <2>1. /\ id[c] \in Fd /\ UNCHANGED <<acceptPc, acceptFd, acceptConn>>
        /\ \A d \in Conn : d # c => loop'[d] = loop[d] /\ id'[d] = id[d]
    BY <1>1, <1>7 DEF LoopClose, Goto, LoopTypeOK, acceptVars
  <2>2. \A g \in Fd : fdTable'[g] = IF g = id[c] THEN None ELSE fdTable[g]
    BY <1>1, <1>7 DEF LoopClose, CloseFd, NetTypeOK
  <2>3. \A f \in Fd : fdTable[f] \in Conn \cup {None}
    BY <1>1 DEF NetTypeOK
  <2> QED
    BY <2>1, <2>2, <2>3 DEF NoDescriptorLeak, Live
<1>8. ASSUME NEW c \in Conn,
             LoopTop(c) \/ LoopRecv(c) \/ LoopMessage(c) \/ LoopEof(c)
             \/ LoopEmptyFrame(c) \/ LoopHandoff(c) \/ LoopErase(c) \/ LoopShut(c)
      PROVE  NoDescriptorLeak'
  <2>1. UNCHANGED <<fdTable, acceptVars, id>> /\ Live(c)
    BY <1>8
       DEF LoopTop, LoopRecv, LoopMessage, LoopEof, LoopEmptyFrame, LoopHandoff, LoopErase,
           LoopShut, Live, netVars
  <2>2. CASE LoopTop(c) \/ LoopRecv(c)
    BY <1>3, <2>1, <2>2 DEF LoopTop, LoopRecv, Goto
  <2>3. CASE LoopMessage(c) \/ LoopEof(c) \/ LoopEmptyFrame(c) \/ LoopHandoff(c)
    BY <1>3, <2>1, <2>3 DEF LoopMessage, LoopEof, LoopEmptyFrame, LoopHandoff, Goto
  <2>4. CASE LoopErase(c) \/ LoopShut(c)
    BY <1>3, <2>1, <2>4 DEF LoopErase, LoopShut, Goto
  <2> QED
    BY <1>8, <2>2, <2>3, <2>4
<1>9. CASE HbClose
  <2>1. \A g \in Fd : fdTable'[g] \in {None, fdTable[g]}
    BY <1>1, <1>9 DEF HbClose, CloseFd, NetTypeOK
  <2> QED
    BY <1>2, <1>9, <2>1 DEF HbClose, loopVars, acceptVars
<1>10. ASSUME UNCHANGED <<fdTable, acceptVars, loopVars>>
       PROVE  NoDescriptorLeak'
  BY <1>2, <1>10 DEF loopVars, acceptVars
<1>11. CASE StartServer \/ StartFails \/ StopServer \/ MainStep
  BY <1>1, <1>2, <1>11
     DEF TypeInv, NotStarted, StartServer, StartFails, StopServer, MainStep, TeardownListener, JoinAccept,
         JoinHeartbeat, DestroyServer, loopVars, acceptVars, netVars
<1>12. CASE AcceptTop \/ AcceptFail \/ AcceptAdmit \/ AcceptInsert
  BY <1>2, <1>12 DEF AcceptTop, AcceptFail, AcceptAdmit, AcceptInsert, loopVars, netVars
<1>13. ASSUME HbTop \/ HbSnapshot \/ HbShut \/ HbSleep \/ \E f \in Fd : HbPing(f) \/ HbErase(f)
       PROVE  NoDescriptorLeak'
  BY <1>10, <1>13 DEF HbTop, HbSnapshot, HbShut, HbSleep, HbPing, HbErase, netVars
<1>14. ASSUME NEW w \in Worker, PoolStep(w)
       PROVE  NoDescriptorLeak'
  BY <1>10, <1>14 DEF PoolStep, PoolTake, PoolRun, netVars
<1>15. CASE Environment
  BY <1>10, <1>15
     DEF Environment, Peers, PeerConnect, PeerSend, PeerPong, PeerLeave, Expire, netVars
<1>16. CASE UNCHANGED vars
  BY <1>10, <1>16 DEF vars, netVars
<1> QED
  BY <1>4, <1>5, <1>6, <1>7, <1>8, <1>9, <1>11, <1>12, <1>13, <1>14, <1>15, <1>16
     DEF Next, Terminated, Server, AcceptStep, LoopStep, HbStep

\* NoDescriptorLeak: no interleaving leaves an accepted socket that no
\* thread is going to close.
THEOREM NoLeak == SafetySpec => []NoDescriptorLeak
<1>1. Init => NoDescriptorLeak
  BY DEF Init, NetInit, NoDescriptorLeak
<1>2. TypeInv /\ NoDescriptorLeak /\ [Next]_vars => NoDescriptorLeak'
  BY LeakNext
<1> QED
  BY <1>1, <1>2, TypeInvariant, PTL DEF SafetySpec

-----------------------------------------------------------------------------
(* InsertNeverRefused: only the accept thread adds entries.                *)

LEMMA FewerEntries ==
    ASSUME TypeInv, Registered' \subseteq Registered
    PROVE  /\ Cardinality(Registered) \in Nat /\ Cardinality(Registered') \in Nat
           /\ Cardinality(Registered') <= Cardinality(Registered)
<1>1. IsFiniteSet(Registered) /\ IsFiniteSet(Registered')
  BY RegistryAssumption, FS_Subset DEF Registered
<1> QED
  BY <1>1, FS_Subset, FS_CardinalityType

LEMMA OnlyInsertAdds ==
    ASSUME TypeInv, [Next]_vars, ~AcceptInsert
    PROVE  Registered' \subseteq Registered
<1>1. RegistryTypeOK /\ PoolTypeOK
  BY DEF TypeInv, TypeOK
<1>2. CASE UNCHANGED nodes
  BY <1>2 DEF Registered
<1>3. ASSUME NEW f \in Fd, HbErase(f)
      PROVE  Registered' \subseteq Registered
  BY <1>1, <1>3 DEF HbErase, Erase, Registered, RegistryTypeOK
<1>4. ASSUME NEW c \in Conn, LoopErase(c)
      PROVE  Registered' \subseteq Registered
  BY <1>1, <1>4 DEF LoopErase, Erase, Registered, RegistryTypeOK
<1>5. ASSUME NEW f \in Fd, Expire(f)
      PROVE  Registered' \subseteq Registered
  BY <1>1, <1>5 DEF Expire, Registered, RegistryTypeOK
<1>6. ASSUME NEW w \in Worker, PoolRun(w)
      PROVE  Registered' \subseteq Registered
  BY <1>1, <1>6 DEF PoolRun, Update, Registered, RegistryTypeOK
<1>7. CASE StartServer \/ StartFails \/ StopServer \/ MainStep
  BY <1>2, <1>7
     DEF StartServer, StartFails, StopServer, MainStep, TeardownListener, JoinAccept, JoinHeartbeat,
         DestroyServer
<1>8. ASSUME AcceptStep \/ AcceptFail
      PROVE  Registered' \subseteq Registered
  BY <1>2, <1>8
     DEF AcceptStep, AcceptTop, AcceptFail, AcceptReject, AcceptAdmit, AcceptConn, AcceptSpawn
<1>9. ASSUME HbTop \/ HbSnapshot \/ HbShut \/ HbClose \/ HbSleep \/ \E f \in Fd : HbPing(f)
      PROVE  Registered' \subseteq Registered
  BY <1>2, <1>9 DEF HbTop, HbSnapshot, HbShut, HbClose, HbSleep, HbPing
<1>10. ASSUME NEW c \in Conn,
              LoopTop(c) \/ LoopRecv(c) \/ LoopMessage(c) \/ LoopEof(c)
              \/ LoopEmptyFrame(c) \/ LoopHandoff(c) \/ LoopShut(c) \/ LoopClose(c)
       PROVE  Registered' \subseteq Registered
  BY <1>2, <1>10
     DEF LoopTop, LoopRecv, LoopMessage, LoopEof, LoopEmptyFrame, LoopHandoff, LoopShut,
         LoopClose
<1>11. ASSUME NEW w \in Worker, PoolTake(w)
       PROVE  Registered' \subseteq Registered
  BY <1>2, <1>11 DEF PoolTake
<1>12. CASE UNCHANGED vars
  BY <1>2, <1>12 DEF vars
<1> QED
  BY <1>2, <1>3, <1>4, <1>5, <1>6, <1>7, <1>8, <1>9, <1>10, <1>11, <1>12
     DEF Next, Terminated, Environment, Server, LoopStep, HbStep, PoolStep

\* Only acceptLoop moves its own program counter.
LEMMA InsertFollowsAdmit ==
    ASSUME TypeInv, [Next]_vars, acceptPc' = "insert"
    PROVE  AcceptAdmit \/ (acceptPc = "insert" /\ ~AcceptInsert)
<1>1. CASE AcceptStep \/ AcceptFail \/ StartServer
  BY <1>1
     DEF AcceptStep, AcceptTop, AcceptFail, AcceptReject, AcceptConn, AcceptInsert, AcceptSpawn,
         StartServer
<1>2. CASE UNCHANGED acceptVars
  BY <1>2 DEF acceptVars, AcceptInsert
<1>3. ASSUME StartFails \/ StopServer \/ MainStep
      PROVE  UNCHANGED acceptVars
  BY <1>3 DEF StartFails, StopServer, MainStep, TeardownListener, JoinAccept, JoinHeartbeat, DestroyServer
<1>4. ASSUME HbStep
      PROVE  UNCHANGED acceptVars
  BY <1>4 DEF HbStep, HbTop, HbSnapshot, HbShut, HbClose, HbSleep, HbPing, HbErase
<1>5. ASSUME NEW c \in Conn, LoopStep(c)
      PROVE  UNCHANGED acceptVars
  BY <1>5
     DEF LoopStep, LoopTop, LoopRecv, LoopMessage, LoopEof, LoopEmptyFrame, LoopHandoff,
         LoopErase, LoopShut,
         LoopClose
<1>6. ASSUME (\E w \in Worker : PoolStep(w)) \/ Environment \/ UNCHANGED vars
      PROVE  UNCHANGED acceptVars
  BY <1>6 DEF PoolStep, PoolTake, PoolRun, Environment, vars
<1> QED
  BY <1>1, <1>2, <1>3, <1>4, <1>5, <1>6 DEF Next, Terminated, Server

\* InsertNeverRefused: the size tested by acceptLoop is still below the limit
\* when it inserts, although the test and the insertion are two critical
\* sections and the result of the insertion is ignored.
THEOREM Capacity == SafetySpec => []InsertNeverRefused
<1>1. Init => InsertNeverRefused
  BY DEF Init, InsertNeverRefused
<1>2. ASSUME TypeInv, InsertNeverRefused, [Next]_vars
      PROVE  InsertNeverRefused'
  <2> SUFFICES ASSUME acceptPc' = "insert"
               PROVE  Cardinality(Registered') < MaxNodes
    BY DEF InsertNeverRefused
  <2>1. CASE AcceptAdmit
    <3>1. Registered' = Registered /\ ~Full
      BY <2>1 DEF AcceptAdmit, Registered
    <3>2. Cardinality(Registered) \in Nat
      BY <1>2, <3>1, FewerEntries
    <3> QED
      BY <3>1, <3>2, RegistryAssumption DEF Full
  <2>2. CASE acceptPc = "insert" /\ ~AcceptInsert
    <3>1. Cardinality(Registered) < MaxNodes
      BY <1>2, <2>2 DEF InsertNeverRefused
    <3>2. Registered' \subseteq Registered
      BY <1>2, <2>2, OnlyInsertAdds
    <3> QED
      BY <1>2, <3>1, <3>2, FewerEntries, RegistryAssumption
  <2> QED
    BY <1>2, <2>1, <2>2, InsertFollowsAdmit
<1> QED
  BY <1>1, <1>2, TypeInvariant, PTL DEF SafetySpec

-----------------------------------------------------------------------------
(* OwnershipUntilReap, strengthened with what the accept thread holds.     *)

OwnInv ==
    ~reaped =>
        /\ \A c \in Conn :
            /\ Live(c) => fdTable[id[c]] = c
            /\ loop[c] \in {"blocked", "handoff"} => reading[c] = c
            /\ Serving(c) => nodes[id[c]] # None /\ nodes[id[c]].owner = c
        /\ hbPc \notin {"shut", "close"}
        /\ acceptPc \in {"check", "insert", "spawn"} => fdTable[acceptFd] = acceptConn
        /\ acceptPc = "spawn" => nodes[acceptFd] # None /\ nodes[acceptFd].owner = acceptConn

OwnersKept ==
    \A f \in Fd : nodes[f] # None => nodes'[f] # None /\ nodes'[f].owner = nodes[f].owner

\* What a change of the other fields of an entry leaves as it is.
LEMMA EntryKeepsOwner ==
    ASSUME NEW e \in NodeInfo, NEW x \in BOOLEAN, NEW s \in Conn \cup {None}
    PROVE  LET new == [e EXCEPT !.expired = x, !.specs = s]
           IN  new # None /\ new.owner = e.owner
<1>1. [e EXCEPT !.expired = x, !.specs = s] \in NodeInfo
  BY DEF NodeInfo
<1>2. [e EXCEPT !.expired = x, !.specs = s].owner = e.owner
  BY DEF NodeInfo
<1> QED
  BY <1>1, <1>2, RegistryAssumption

LEMMA UpdateKeepsOwners ==
    ASSUME RegistryTypeOK, NEW f \in Fd, NEW e \in Conn, NEW m, Update(f, e, m)
    PROVE  OwnersKept
<1>1. CASE nodes' = nodes
  BY <1>1 DEF OwnersKept
<1>2. CASE nodes[f] # None /\ m # "OTHER"
  <2>1. nodes[f] \in NodeInfo
    BY <1>2 DEF RegistryTypeOK
  <2> DEFINE s == IF m = "REPORT" THEN e ELSE nodes[f].specs
             new == [nodes[f] EXCEPT !.expired = FALSE, !.specs = s]
  <2>2. s \in Conn \cup {None}
    BY <2>1 DEF NodeInfo
  <2>3. new # None /\ new.owner = nodes[f].owner
    BY <2>1, <2>2, EntryKeepsOwner
  <2>4. nodes'[f] = new /\ \A g \in Fd : g # f => nodes'[g] = nodes[g]
    BY <1>2, <2>1 DEF Update, RegistryTypeOK, NodeInfo
  <2> QED
    BY <2>3, <2>4 DEF OwnersKept
<1> QED
  BY <1>1, <1>2 DEF Update

LEMMA ExpireKeepsOwners ==
    ASSUME RegistryTypeOK, NEW f \in Fd, Expire(f)
    PROVE  OwnersKept
<1>1. nodes[f] \in NodeInfo
  BY DEF Expire, RegistryTypeOK
<1>2. [nodes[f] EXCEPT !.expired = TRUE] \in NodeInfo
  BY <1>1 DEF NodeInfo
<1>3. [nodes[f] EXCEPT !.expired = TRUE].owner = nodes[f].owner
  BY <1>1 DEF NodeInfo
<1>4. /\ nodes'[f] = [nodes[f] EXCEPT !.expired = TRUE]
      /\ \A g \in Fd : g # f => nodes'[g] = nodes[g]
  BY DEF Expire, RegistryTypeOK
<1> QED
  BY <1>2, <1>3, <1>4, RegistryAssumption DEF OwnersKept

LEMMA OwnFrame ==
    ASSUME TypeInv, OwnInv, UNCHANGED <<fdTable, loop, id, reading, acceptFd, acceptConn>>,
           OwnersKept,
           reaped' = reaped, hbPc' \in {"shut", "close"} => hbPc \in {"shut", "close"},
           acceptPc' = "spawn" => acceptPc = "spawn",
           acceptPc' \in {"check", "insert", "spawn"}
             => acceptPc \in {"check", "insert", "spawn"}
    PROVE  OwnInv'
<1>1. /\ AcceptTypeOK /\ LoopTypeOK
  BY DEF TypeInv, TypeOK
<1>2. \A c \in Conn : Serving(c) => id[c] \in Fd
  BY <1>1 DEF LoopTypeOK, Serving
<1>3. acceptPc = "spawn" => acceptFd \in Fd
  BY <1>1 DEF AcceptTypeOK
<1> QED
  BY <1>2, <1>3 DEF OwnInv, OwnersKept, Live, Serving

\* A step of the loop of c that stays within its clean-up or before it.
LEMMA OwnLoop ==
    ASSUME TypeInv, OwnInv, NEW c \in Conn, NEW next,
           loop' = [loop EXCEPT ![c] = next], Live(c),
           next \notin {"none", "exited"},
           Serving(c) \/ next \notin {"top", "recv", "blocked", "handoff", "erase"},
           next \in {"blocked", "handoff"} /\ ~reaped => reading'[c] = c,
           \A d \in Conn : d # c => reading'[d] = reading[d],
           UNCHANGED <<fdTable, nodes, id, acceptVars, hbVars>>
    PROVE  OwnInv'
<1>1. /\ loop'[c] = next
      /\ \A d \in Conn : d # c => loop'[d] = loop[d]
  BY DEF TypeInv, TypeOK, LoopTypeOK
<1> QED
  BY <1>1 DEF OwnInv, Live, Serving, acceptVars, hbVars

\* Two live loops, or a live loop and the accept thread, hold two numbers.
LEMMA Apart ==
    ASSUME TypeInv, OwnInv, ~reaped, NEW c \in Conn, Live(c)
    PROVE  /\ \A d \in Conn : d # c /\ Live(d) => id[d] # id[c]
           /\ acceptPc \in {"check", "insert", "spawn"} => acceptFd # id[c] /\ acceptConn # c
<1>1. acceptConn = c => loop[c] = "none"
  BY DEF TypeInv, OneLife
<1> QED
  BY <1>1 DEF OwnInv, Live

LEMMA OwnNext ==
    ASSUME TypeInv, InsertNeverRefused, OwnInv, [Next]_vars
    PROVE  OwnInv'
<1>1. /\ NetTypeOK /\ RegistryTypeOK /\ AcceptTypeOK /\ LoopTypeOK /\ PoolTypeOK
      /\ OneLife /\ NotStarted
  BY DEF TypeInv, TypeOK
<1>2. CASE reaped'
  BY <1>2 DEF OwnInv
<1>3. ASSUME NEW c \in Conn, NEW f \in Fd, AcceptConn(c, f)
      PROVE  OwnInv'
  <2>1. /\ acceptPc' = "check" /\ acceptFd' = f /\ acceptConn' = c /\ fdTable[f] = None
        /\ UNCHANGED <<loop, id, reading, nodes, hbPc, reaped>>
        /\ \A g \in Fd : fdTable'[g] = IF g = f THEN c ELSE fdTable[g]
    BY <1>1, <1>3 DEF AcceptConn, LowestFree, NetTypeOK, loopVars, hbVars
  <2>2. \A d \in Conn : Live(d) => id[d] \in Fd /\ d # None
    BY <1>1, SocketAssumption DEF LoopTypeOK, Live
  <2> QED
    BY <2>1, <2>2 DEF OwnInv, Live, Serving
<1>4. CASE AcceptReject
  <2>1. /\ acceptPc = "check" /\ acceptPc' = "top" /\ acceptFd \in Fd
        /\ UNCHANGED <<loop, id, reading, nodes, hbPc, reaped>>
        /\ \A g \in Fd : fdTable'[g] = IF g = acceptFd THEN None ELSE fdTable[g]
    BY <1>1, <1>4 DEF AcceptReject, CloseFd, NetTypeOK, AcceptTypeOK, loopVars, hbVars
  <2>2. \A d \in Conn : Live(d) => id[d] \in Fd
    BY <1>1 DEF LoopTypeOK, Live
  <2>3. \A d \in Conn : ~reaped /\ Live(d) => id[d] # acceptFd
    BY <2>1, Apart
  <2> QED
    BY <2>1, <2>2, <2>3 DEF OwnInv, Live, Serving
<1>5. CASE AcceptInsert
  <2>1. /\ acceptPc = "insert" /\ acceptPc' = "spawn" /\ acceptFd \in Fd /\ acceptConn \in Conn
        /\ UNCHANGED <<fdTable, acceptFd, acceptConn, loop, id, reading, hbPc, reaped>>
    BY <1>1, <1>5, SocketAssumption DEF AcceptInsert, AcceptTypeOK, loopVars, hbVars, netVars
  <2>2. Cardinality(Registered) < MaxNodes /\ Cardinality(Registered) \in Nat
    <3>1. IsFiniteSet(Registered)
      BY RegistryAssumption, FS_Subset DEF Registered
    <3> QED
      BY <2>1, <3>1, FS_CardinalityType DEF InsertNeverRefused
  <2>3. nodes' = [nodes EXCEPT ![acceptFd] =
                    [owner |-> acceptConn, specs |-> None, expired |-> FALSE]]
    BY <1>5, <2>2, RegistryAssumption DEF AcceptInsert, Insert
  <2>4. [owner |-> acceptConn, specs |-> None, expired |-> FALSE] # None
    <3>1. [owner |-> acceptConn, specs |-> None, expired |-> FALSE] \in NodeInfo
      BY <2>1 DEF NodeInfo
    <3> QED
      BY <3>1, RegistryAssumption
  <2>5. /\ nodes'[acceptFd] # None /\ nodes'[acceptFd].owner = acceptConn
        /\ \A g \in Fd : g # acceptFd => nodes'[g] = nodes[g]
    BY <1>1, <2>1, <2>3, <2>4 DEF RegistryTypeOK
  <2>6. \A d \in Conn : Live(d) => id[d] \in Fd
    BY <1>1 DEF LoopTypeOK, Live
  <2>7. \A d \in Conn : ~reaped /\ Live(d) => id[d] # acceptFd
    BY <2>1, Apart
  <2> QED
    BY <2>1, <2>5, <2>6, <2>7 DEF OwnInv, Live, Serving
<1>6. CASE AcceptSpawn
  <2>1. acceptFd \in Fd /\ acceptConn \in Conn /\ loop[acceptConn] = "none" /\ acceptPc = "spawn"
    BY <1>1, <1>6, SocketAssumption DEF AcceptSpawn, AcceptTypeOK, OneLife
  <2>2. /\ loop'[acceptConn] = "top" /\ id'[acceptConn] = acceptFd
        /\ \A c \in Conn : c # acceptConn => loop'[c] = loop[c] /\ id'[c] = id[c]
    BY <1>1, <1>6, <2>1 DEF AcceptSpawn, LoopTypeOK
  <2>3. acceptPc' = "top" /\ UNCHANGED <<fdTable, nodes, reading, hbPc, reaped>>
    BY <1>6 DEF AcceptSpawn, netVars, hbVars
  <2> QED
    BY <2>1, <2>2, <2>3 DEF OwnInv, Live, Serving
<1>7. ASSUME NEW c \in Conn, LoopErase(c)
      PROVE  OwnInv'
  <2>1. /\ Live(c) /\ loop'[c] = "shut" /\ id[c] \in Fd
        /\ \A d \in Conn : d # c => loop'[d] = loop[d]
    BY <1>1, <1>7 DEF LoopErase, Goto, LoopTypeOK, Live
  <2>2. UNCHANGED <<fdTable, acceptPc, acceptFd, acceptConn, hbPc, reaped, id, reading>>
    BY <1>7 DEF LoopErase, acceptVars, hbVars, netVars
  <2>3. \A f \in Fd : f # id[c] => nodes'[f] = nodes[f]
    BY <1>1, <1>7 DEF LoopErase, Erase, RegistryTypeOK
  <2>4. /\ \A d \in Conn : Live(d) => id[d] \in Fd
        /\ acceptPc = "spawn" => acceptFd \in Fd
    BY <1>1 DEF LoopTypeOK, AcceptTypeOK, Live
  <2>5. ~reaped => /\ \A d \in Conn : d # c /\ Live(d) => id[d] # id[c]
                   /\ acceptPc = "spawn" => acceptFd # id[c]
    BY <2>1, Apart
  <2> QED
    BY <2>1, <2>2, <2>3, <2>4, <2>5 DEF OwnInv, Live, Serving
<1>8. ASSUME NEW c \in Conn, LoopClose(c)
      PROVE  OwnInv'
  <2>1. /\ Live(c) /\ loop'[c] = "exited" /\ id[c] \in Fd
        /\ \A d \in Conn : d # c => loop'[d] = loop[d] /\ id'[d] = id[d]
    BY <1>1, <1>8 DEF LoopClose, Goto, LoopTypeOK, Live
  <2>2. UNCHANGED <<nodes, acceptPc, acceptFd, acceptConn, hbPc, reaped, reading>>
    BY <1>8 DEF LoopClose, acceptVars, hbVars
  <2>3. \A g \in Fd : g # id[c] => fdTable'[g] = fdTable[g]
    BY <1>1, <1>8 DEF LoopClose, CloseFd, NetTypeOK
  <2>4. /\ \A d \in Conn : Live(d) => id[d] \in Fd
        /\ acceptPc \in {"check", "insert", "spawn"} => acceptFd \in Fd
    BY <1>1 DEF LoopTypeOK, AcceptTypeOK, Live
  <2>5. ~reaped => /\ \A d \in Conn : d # c /\ Live(d) => id[d] # id[c]
                   /\ acceptPc \in {"check", "insert", "spawn"} => acceptFd # id[c]
    BY <2>1, Apart
  <2> QED
    BY <2>1, <2>2, <2>3, <2>4, <2>5 DEF OwnInv, Live, Serving
<1>9. ASSUME NEW c \in Conn, LoopRecv(c)
      PROVE  OwnInv'
  <2>1. /\ Live(c) /\ Serving(c) /\ reading'[c] = fdTable[id[c]]
        /\ \A d \in Conn : d # c => reading'[d] = reading[d]
    BY <1>1, <1>9 DEF LoopRecv, LoopTypeOK, Live, Serving
  <2>2. ~reaped => reading'[c] = c
    BY <2>1 DEF OwnInv
  <2>3. UNCHANGED <<fdTable, nodes, id, acceptVars, hbVars>>
    BY <1>9 DEF LoopRecv, netVars
  <2>4. PICK next : next \in {"erase", "blocked"} /\ loop' = [loop EXCEPT ![c] = next]
    BY <1>9 DEF LoopRecv, Goto
  <2> QED
    BY <2>1, <2>2, <2>3, <2>4, OwnLoop
<1>10. ASSUME NEW c \in Conn, LoopMessage(c)
       PROVE  OwnInv'
  <2>1. /\ Live(c) /\ Serving(c) /\ UNCHANGED <<fdTable, nodes, id, reading, acceptVars, hbVars>>
        /\ loop[c] = "blocked" /\ loop' = [loop EXCEPT ![c] = "handoff"]
    BY <1>10 DEF LoopMessage, Goto, Live, Serving
  <2>2. ~reaped => reading'[c] = c
    BY <2>1 DEF OwnInv
  <2>3. PICK next : next = "handoff" /\ loop' = [loop EXCEPT ![c] = next]
    BY <2>1
  <2>4. \A d \in Conn : d # c => reading'[d] = reading[d]
    BY <2>1
  <2> QED
    BY <2>1, <2>2, <2>3, <2>4, OwnLoop
<1>11. ASSUME NEW c \in Conn, LoopEof(c) \/ LoopEmptyFrame(c) \/ LoopHandoff(c)
       PROVE  OwnInv'
  <2>1. /\ Live(c) /\ Serving(c) /\ UNCHANGED <<fdTable, nodes, id, acceptVars, hbVars>>
        /\ \A d \in Conn : d # c => reading'[d] = reading[d]
    BY <1>1, <1>11 DEF LoopEof, LoopEmptyFrame, LoopHandoff, LoopTypeOK, Live, Serving, netVars
  <2>2. PICK next : next \in {"erase", "top"} /\ loop' = [loop EXCEPT ![c] = next]
    BY <1>11 DEF LoopEof, LoopEmptyFrame, LoopHandoff, Goto
  <2> QED
    BY <2>1, <2>2, OwnLoop
<1>12. ASSUME NEW c \in Conn, LoopTop(c) \/ LoopShut(c)
       PROVE  OwnInv'
  <2>1. /\ Live(c) /\ UNCHANGED <<fdTable, nodes, id, reading, acceptVars, hbVars>>
    BY <1>12 DEF LoopTop, LoopShut, Live, netVars
  <2>2. PICK next : /\ next \in {"erase", "recv", "close"} /\ loop' = [loop EXCEPT ![c] = next]
                    /\ next = "close" \/ Serving(c)
    BY <1>12 DEF LoopTop, LoopShut, Goto, Serving
  <2> QED
    BY <2>1, <2>2, OwnLoop
<1>13. ASSUME UNCHANGED <<fdTable, nodes, loopVars, acceptVars, hbVars>>
       PROVE  OwnInv'
  BY <1>13, OwnFrame DEF OwnersKept, loopVars, acceptVars, hbVars
<1>14. CASE HbTop \/ HbSnapshot \/ HbSleep \/ \E f \in Fd : HbPing(f)
  BY <1>14, OwnFrame
     DEF HbTop, HbSnapshot, HbSleep, HbPing, OwnersKept, loopVars, acceptVars, hbVars, netVars
<1>15. ASSUME HbShut \/ HbClose \/ \E f \in Fd : HbErase(f)
       PROVE  OwnInv'
  <2>1. reaped'
    BY <1>1, <1>15 DEF HbShut, HbClose, HbErase, OwnInv
  <2> QED
    BY <1>2, <2>1
<1>16. CASE AcceptTop \/ AcceptFail \/ AcceptAdmit
  BY <1>16, OwnFrame
     DEF AcceptTop, AcceptFail, AcceptAdmit, OwnersKept, loopVars, hbVars, netVars
<1>17. CASE StartServer
  BY <1>17, OwnFrame DEF StartServer, OwnersKept, loopVars
<1>18. CASE StartFails \/ StopServer \/ MainStep
  BY <1>13, <1>18
     DEF StartFails, StopServer, MainStep, TeardownListener, JoinAccept, JoinHeartbeat, DestroyServer,
         netVars
<1>19. ASSUME NEW w \in Worker, PoolRun(w)
       PROVE  OwnInv'
  <2>1. job[w] \in Task /\ Update(job[w].id, job[w].from, job[w].msg)
    BY <1>1, <1>19 DEF PoolRun, PoolTypeOK
  <2>2. job[w].id \in Fd /\ job[w].from \in Conn
    BY <2>1 DEF Task
  <2>3. OwnersKept
    BY <1>1, <2>1, <2>2, UpdateKeepsOwners
  <2> QED
    BY <1>19, <2>3, OwnFrame DEF PoolRun, loopVars, acceptVars, hbVars, netVars
<1>20. ASSUME NEW f \in Fd, Expire(f), UNCHANGED <<netVars, acceptVars, hbVars, loopVars>>
       PROVE  OwnInv'
  <2>1. OwnersKept
    BY <1>1, <1>20, ExpireKeepsOwners
  <2> QED
    BY <1>20, <2>1, OwnFrame DEF loopVars, acceptVars, hbVars, netVars
<1>21. ASSUME NEW w \in Worker, PoolTake(w)
       PROVE  OwnInv'
  BY <1>13, <1>21 DEF PoolTake, netVars
<1>22. CASE Peers /\ UNCHANGED <<nodes, acceptVars, hbVars, loopVars>>
  BY <1>13, <1>22 DEF Peers, PeerConnect, PeerSend, PeerPong, PeerLeave
<1>23. CASE UNCHANGED vars
  BY <1>13, <1>23 DEF vars, netVars
<1> QED
  BY <1>3, <1>4, <1>5, <1>6, <1>7, <1>8, <1>9, <1>10, <1>11, <1>12, <1>14, <1>15, <1>16, <1>17,
     <1>18, <1>19, <1>20, <1>21, <1>22, <1>23
     DEF Next, Terminated, Server, Environment, AcceptStep, LoopStep, HbStep, PoolStep

\* OwnershipUntilReap: with any number of connections coming and going, and
\* numbers reused, the loops keep their sockets and their entries to
\* themselves until the heartbeat removes a node for the first time.
THEOREM Ownership == SafetySpec => []OwnershipUntilReap
<1>1. Init => OwnInv
  BY DEF Init, OwnInv, Live, Serving
<1>2. TypeInv /\ InsertNeverRefused /\ OwnInv /\ [Next]_vars => OwnInv'
  BY OwnNext
<1>3. OwnInv => OwnershipUntilReap
  BY DEF OwnInv, OwnershipUntilReap
<1> QED
  BY <1>1, <1>2, <1>3, TypeInvariant, Capacity, PTL DEF SafetySpec

-----------------------------------------------------------------------------
(* The registry seen from outside: MasterServer implements Membership.     *)

\* What the four invariants say together; every step is taken from here.
MasterInv == TypeInv /\ NoOrphanEntry /\ InsertNeverRefused /\ OwnInv

Entered == {c \in Conn : HasEntered(c)}

\* No connection has two entries, and whoever has one has entered.
LEMMA OneEntryEach ==
    ASSUME TypeInv, NoOrphanEntry
    PROVE  /\ \A f \in Registered : nodes[f].owner \in Entered
           /\ \A f, g \in Registered : nodes[f].owner = nodes[g].owner => f = g
           /\ Members \subseteq Entered
<1>1. \A f \in Registered : nodes[f].owner \in Conn
  BY DEF TypeInv, TypeOK, RegistryTypeOK, Registered, NodeInfo
<1>2. \A f \in Registered : nodes[f].owner \in Entered
  BY <1>1 DEF NoOrphanEntry, Entered, HasEntered, Serving
<1>3. \A c \in Conn : acceptConn = c => loop[c] = "none"
  BY DEF TypeInv, OneLife
<1>4. ASSUME NEW f \in Registered, NEW g \in Registered, nodes[f].owner = nodes[g].owner
      PROVE  f = g
  <2>1. PICK c \in Conn : c = nodes[f].owner /\ c = nodes[g].owner
    BY <1>1, <1>4
  <2>2. /\ (acceptPc = "spawn" /\ acceptConn = c /\ acceptFd = f) \/ (Serving(c) /\ id[c] = f)
        /\ (acceptPc = "spawn" /\ acceptConn = c /\ acceptFd = g) \/ (Serving(c) /\ id[c] = g)
    BY <2>1 DEF NoOrphanEntry
  <2> QED
    BY <1>3, <2>2 DEF Serving
<1> QED
  BY <1>2, <1>4 DEF Members

\* Before the heartbeat has removed anybody, the number that accept() has
\* returned has no entry: the one of its last user was erased before close().
LEMMA InsertIsFresh ==
    ASSUME MasterInv, ~reaped, acceptPc = "insert"
    PROVE  nodes[acceptFd] = None
<1>1. TypeInv /\ NoOrphanEntry /\ OwnInv
  BY DEF MasterInv
<1>2. acceptFd \in Fd /\ acceptConn \in Conn /\ loop[acceptConn] = "none"
  BY <1>1, SocketAssumption DEF TypeInv, TypeOK, AcceptTypeOK, OneLife
<1>3. fdTable[acceptFd] = acceptConn
  BY <1>1 DEF OwnInv
<1> SUFFICES ASSUME nodes[acceptFd] # None
             PROVE  FALSE
  OBVIOUS
<1>4. PICK c \in Conn : c = nodes[acceptFd].owner
  BY <1>1, <1>2 DEF TypeInv, TypeOK, RegistryTypeOK, NodeInfo
<1>5. Serving(c) /\ id[c] = acceptFd
  BY <1>1, <1>2, <1>4 DEF NoOrphanEntry, Registered
<1>6. fdTable[id[c]] = c
  BY <1>1, <1>5 DEF OwnInv, Live, Serving
<1> QED
  BY <1>2, <1>3, <1>5, <1>6 DEF Serving

\* As many members as entries.
LEMMA MembersFit ==
    ASSUME TypeInv
    PROVE  /\ Cardinality(Members) \in Nat
           /\ Cardinality(Members) <= Cardinality(Registered)
<1> DEFINE own == [f \in Registered |-> nodes[f].owner]
<1>1. own \in Surjection(Registered, Members)
  BY DEF Surjection, Members
<1> HIDE DEF own
<1>2. IsFiniteSet(Registered)
  BY RegistryAssumption, FS_Subset DEF Registered
<1>3. IsFiniteSet(Members) /\ Cardinality(Members) <= Cardinality(Registered)
  BY <1>1, <1>2, FS_Surjection
<1> QED
  BY <1>3, FS_CardinalityType

\* The steps that keep every entry where it is.
LEMMA NobodyMoves ==
    ASSUME TypeInv, OwnersKept, Registered' \subseteq Registered
    PROVE  Members' = Members
<1>1. \A f \in Fd : nodes[f] # None => nodes'[f] # None /\ nodes'[f].owner = nodes[f].owner
  BY DEF OwnersKept
<1>2. Registered' = Registered
  BY <1>1 DEF Registered
<1>3. \A f \in Registered : nodes'[f].owner = nodes[f].owner
  BY <1>1 DEF Registered
<1> QED
  BY <1>2, <1>3 DEF Members

\* The steps that erase an entry.
LEMMA EraseLeaves ==
    ASSUME TypeInv, NoOrphanEntry, NEW f \in Fd, Erase(f)
    PROVE  \/ nodes[f] = None /\ Members' = Members
           \/ \E d \in Members : Members' = Members \ {d}
<1>1. nodes' = [nodes EXCEPT ![f] = None] /\ RegistryTypeOK
  BY DEF Erase, TypeInv, TypeOK
<1>2. \A g \in Fd : nodes'[g] = IF g = f THEN None ELSE nodes[g]
  BY <1>1 DEF RegistryTypeOK
<1>3. Registered' = Registered \ {f}
  BY <1>2 DEF Registered
<1>4. CASE nodes[f] = None
  <2>1. Registered' = Registered
    BY <1>3, <1>4 DEF Registered
  <2>2. \A g \in Registered : nodes'[g].owner = nodes[g].owner
    BY <1>2, <1>4 DEF Registered
  <2> QED
    BY <1>4, <2>1, <2>2 DEF Members
<1>5. CASE f \in Registered
  <2>1. \A g \in Registered \ {f} : nodes'[g].owner = nodes[g].owner
                                    /\ nodes[g].owner # nodes[f].owner
    BY <1>2, <1>5, OneEntryEach DEF Registered
  <2>2. Members' = Members \ {nodes[f].owner}
    BY <1>3, <1>5, <2>1 DEF Members
  <2> QED
    BY <1>5, <2>2 DEF Members
<1> QED
  BY <1>4, <1>5 DEF Registered

\* Who has entered changes by an insertion only.
LEMMA EnteredKept ==
    ASSUME TypeInv, [Next]_vars, ~AcceptInsert
    PROVE  Entered' = Entered
<1>1. AcceptTypeOK /\ LoopTypeOK /\ OneLife /\ NotStarted
  BY DEF TypeInv, TypeOK
<1>2. ASSUME UNCHANGED <<acceptVars, loop>>
      PROVE  Entered' = Entered
  BY <1>2 DEF Entered, HasEntered, acceptVars
<1>3. ASSUME NEW c \in Conn, NEW next, loop' = [loop EXCEPT ![c] = next],
             loop[c] # "none", next # "none", UNCHANGED acceptVars
      PROVE  Entered' = Entered
  <2>1. \A d \in Conn : loop'[d] = IF d = c THEN next ELSE loop[d]
    BY <1>1, <1>3 DEF LoopTypeOK
  <2> QED
    BY <1>3, <2>1 DEF Entered, HasEntered, acceptVars
<1>4. ASSUME acceptPc # "spawn", acceptPc' # "spawn", UNCHANGED loop
      PROVE  Entered' = Entered
  BY <1>4 DEF Entered, HasEntered
<1>5. CASE AcceptSpawn
  <2>1. /\ acceptConn \in Conn /\ loop[acceptConn] = "none"
        /\ acceptPc = "spawn" /\ acceptPc' = "top"
    BY <1>1, <1>5, SocketAssumption DEF AcceptSpawn, AcceptTypeOK, OneLife
  <2>2. \A d \in Conn : loop'[d] = IF d = acceptConn THEN "top" ELSE loop[d]
    BY <1>1, <1>5 DEF AcceptSpawn, LoopTypeOK
  <2> QED
    BY <2>1, <2>2 DEF Entered, HasEntered
<1>6. CASE AcceptTop \/ AcceptFail \/ AcceptReject \/ AcceptAdmit
           \/ \E c \in Conn, f \in Fd : AcceptConn(c, f)
  BY <1>4, <1>6 DEF AcceptTop, AcceptFail, AcceptReject, AcceptAdmit, AcceptConn, loopVars
<1>7. CASE StartServer
  BY <1>1, <1>4, <1>7 DEF StartServer, NotStarted, loopVars
<1>8. CASE StartFails \/ StopServer \/ MainStep
  BY <1>2, <1>8
     DEF StartFails, StopServer, MainStep, TeardownListener, JoinAccept, JoinHeartbeat,
         DestroyServer, loopVars
<1>9. CASE HbStep
  BY <1>2, <1>9
     DEF HbStep, HbTop, HbSnapshot, HbShut, HbClose, HbSleep, HbPing, HbErase, loopVars
<1>10. ASSUME NEW c \in Conn, LoopStep(c)
       PROVE  Entered' = Entered
  <2>1. UNCHANGED acceptVars
    BY <1>10
       DEF LoopStep, LoopTop, LoopRecv, LoopMessage, LoopEof, LoopEmptyFrame, LoopHandoff,
           LoopErase, LoopShut, LoopClose
  <2>2. loop[c] # "none"
    BY <1>10
       DEF LoopStep, LoopTop, LoopRecv, LoopMessage, LoopEof, LoopEmptyFrame, LoopHandoff,
           LoopErase, LoopShut, LoopClose
  <2>3. PICK next : next # "none" /\ loop' = [loop EXCEPT ![c] = next]
    BY <1>10
       DEF LoopStep, LoopTop, LoopRecv, LoopMessage, LoopEof, LoopEmptyFrame, LoopHandoff,
           LoopErase, LoopShut, LoopClose, Goto
  <2> QED
    BY <1>3, <2>1, <2>2, <2>3
<1>11. CASE (\E w \in Worker : PoolStep(w)) \/ Environment \/ UNCHANGED vars
  BY <1>2, <1>11 DEF PoolStep, PoolTake, PoolRun, Environment, vars, loopVars
<1> QED
  BY <1>5, <1>6, <1>7, <1>8, <1>9, <1>10, <1>11 DEF Next, Terminated, Server, AcceptStep

\* The heartbeat alone removes nodes for good, and `reaped` remembers it.
LEMMA ReapedByErase ==
    ASSUME TypeInv, [Next]_vars, ~\E f \in Fd : HbErase(f)
    PROVE  reaped' = reaped
<1>1. CASE StartServer \/ StartFails \/ StopServer \/ MainStep
  BY <1>1
     DEF StartServer, StartFails, StopServer, MainStep, TeardownListener, JoinAccept,
         JoinHeartbeat, DestroyServer, hbVars
<1>2. CASE AcceptStep \/ AcceptFail
  BY <1>2
     DEF AcceptStep, AcceptTop, AcceptFail, AcceptReject, AcceptAdmit, AcceptConn, AcceptInsert,
         AcceptSpawn, hbVars
<1>3. CASE HbStep
  BY <1>3 DEF HbStep, HbTop, HbSnapshot, HbShut, HbClose, HbSleep, HbPing, hbVars
<1>4. ASSUME NEW c \in Conn, LoopStep(c)
      PROVE  reaped' = reaped
  BY <1>4
     DEF LoopStep, LoopTop, LoopRecv, LoopMessage, LoopEof, LoopEmptyFrame, LoopHandoff,
         LoopErase, LoopShut, LoopClose, hbVars
<1>5. CASE (\E w \in Worker : PoolStep(w)) \/ Environment \/ UNCHANGED vars
  BY <1>5 DEF PoolStep, PoolTake, PoolRun, Environment, vars, hbVars
<1> QED
  BY <1>1, <1>2, <1>3, <1>4, <1>5 DEF Next, Terminated, Server

\* Steps other than an insertion and the two that erase keep all owners.
LEMMA OthersKeepOwners ==
    ASSUME TypeInv, [Next]_vars, ~AcceptInsert,
           ~\E c \in Conn : LoopErase(c), ~\E f \in Fd : HbErase(f)
    PROVE  OwnersKept
<1>1. RegistryTypeOK /\ PoolTypeOK
  BY DEF TypeInv, TypeOK
<1>2. CASE UNCHANGED nodes
  BY <1>2 DEF OwnersKept
<1>3. ASSUME NEW f \in Fd, Expire(f)
      PROVE  OwnersKept
  BY <1>1, <1>3, ExpireKeepsOwners
<1>4. ASSUME NEW w \in Worker, PoolRun(w)
      PROVE  OwnersKept
  <2>1. job[w] \in Task /\ Update(job[w].id, job[w].from, job[w].msg)
    BY <1>1, <1>4 DEF PoolRun, PoolTypeOK
  <2>2. job[w].id \in Fd /\ job[w].from \in Conn
    BY <2>1 DEF Task
  <2> QED
    BY <1>1, <2>1, <2>2, UpdateKeepsOwners
<1>5. CASE StartServer \/ StartFails \/ StopServer \/ MainStep
  BY <1>2, <1>5
     DEF StartServer, StartFails, StopServer, MainStep, TeardownListener, JoinAccept,
         JoinHeartbeat, DestroyServer
<1>6. CASE AcceptStep \/ AcceptFail
  BY <1>2, <1>6
     DEF AcceptStep, AcceptTop, AcceptFail, AcceptReject, AcceptAdmit, AcceptConn, AcceptSpawn
<1>7. CASE HbStep
  BY <1>2, <1>7 DEF HbStep, HbTop, HbSnapshot, HbShut, HbClose, HbSleep, HbPing
<1>8. ASSUME NEW c \in Conn, LoopStep(c)
      PROVE  OwnersKept
  BY <1>2, <1>8
     DEF LoopStep, LoopTop, LoopRecv, LoopMessage, LoopEof, LoopEmptyFrame, LoopHandoff,
         LoopShut, LoopClose
<1>9. ASSUME NEW w \in Worker, PoolTake(w)
      PROVE  OwnersKept
  BY <1>2, <1>9 DEF PoolTake
<1>10. CASE UNCHANGED vars
  BY <1>2, <1>10 DEF vars
<1> QED
  BY <1>2, <1>3, <1>4, <1>5, <1>6, <1>7, <1>8, <1>9, <1>10
     DEF Next, Terminated, Environment, Server, PoolStep

\* What an insertion does to the registry.
LEMMA InsertAdds ==
    ASSUME MasterInv, AcceptInsert
    PROVE  /\ acceptConn \in Conn \ Entered
           /\ Entered' = Entered \cup {acceptConn}
           /\ Cardinality(Members) < MaxNodes
           /\ \/ Members' = Members \cup {acceptConn}
              \/ /\ reaped
                 /\ \E d \in Members : Members' = (Members \ {d}) \cup {acceptConn}
<1>1. TypeInv /\ NoOrphanEntry /\ InsertNeverRefused /\ RegistryTypeOK /\ AcceptTypeOK
      /\ acceptPc = "insert" /\ acceptPc' = "spawn" /\ UNCHANGED <<acceptFd, acceptConn, loop>>
  BY DEF MasterInv, TypeInv, TypeOK, AcceptInsert, loopVars
<1>2. acceptFd \in Fd /\ acceptConn \in Conn /\ loop[acceptConn] = "none"
  BY <1>1, SocketAssumption DEF TypeInv, AcceptTypeOK, OneLife
<1>3. acceptConn \notin Entered /\ Entered' = Entered \cup {acceptConn}
  BY <1>1, <1>2 DEF Entered, HasEntered
<1>4. Cardinality(Registered) < MaxNodes /\ Cardinality(Registered) \in Nat
  <2>1. IsFiniteSet(Registered)
    BY RegistryAssumption, FS_Subset DEF Registered
  <2> QED
    BY <1>1, <2>1, FS_CardinalityType DEF InsertNeverRefused
<1>5. Cardinality(Members) < MaxNodes
  BY <1>1, <1>4, MembersFit, RegistryAssumption
<1> DEFINE new == [owner |-> acceptConn, specs |-> None, expired |-> FALSE]
<1>6. new \in NodeInfo /\ new # None /\ new.owner = acceptConn
  <2>1. new \in NodeInfo /\ new.owner = acceptConn
    BY <1>2 DEF NodeInfo
  <2> QED
    BY <2>1, RegistryAssumption
<1>7. nodes' = [nodes EXCEPT ![acceptFd] = new]
  BY <1>4, RegistryAssumption DEF AcceptInsert, Insert
<1> HIDE DEF new
<1>8. \A g \in Fd : nodes'[g] = IF g = acceptFd THEN new ELSE nodes[g]
  BY <1>1, <1>7 DEF RegistryTypeOK
<1>9. Registered' = Registered \cup {acceptFd}
  BY <1>2, <1>6, <1>8 DEF Registered
<1>10. \A g \in Registered \ {acceptFd} : nodes'[g].owner = nodes[g].owner
  BY <1>8 DEF Registered
<1>11. nodes'[acceptFd].owner = acceptConn
  BY <1>2, <1>6, <1>8
<1>12. CASE acceptFd \notin Registered
  <2>1. Members' = Members \cup {acceptConn}
    BY <1>9, <1>10, <1>11, <1>12 DEF Members
  <2> QED
    BY <1>2, <1>3, <1>5, <2>1
<1>13. CASE acceptFd \in Registered
  <2>1. reaped
    BY <1>1, <1>13, InsertIsFresh DEF Registered
  <2>2. \A g \in Registered \ {acceptFd} : nodes[g].owner # nodes[acceptFd].owner
    BY <1>1, <1>13, OneEntryEach
  <2>3. Members' = (Members \ {nodes[acceptFd].owner}) \cup {acceptConn}
    BY <1>9, <1>10, <1>11, <1>13, <2>2 DEF Members
  <2>4. nodes[acceptFd].owner \in Members
    BY <1>13 DEF Members
  <2> QED
    BY <1>2, <1>3, <1>5, <2>1, <2>3, <2>4
<1> QED
  BY <1>12, <1>13

LEMMA MemberSteps ==
    ASSUME MasterInv, [Next]_vars
    PROVE  [Membership!MemberNext]_<<Members, Entered, reaped>>
<1>1. TypeInv /\ NoOrphanEntry /\ reaped \in BOOLEAN
  BY DEF MasterInv, TypeInv, TypeOK, HbTypeOK
<1>2. CASE AcceptInsert
  <2>1. reaped' = reaped
    BY <1>2 DEF AcceptInsert, hbVars
  <2>2. /\ acceptConn \in Conn \ Entered
        /\ Entered' = Entered \cup {acceptConn}
    BY <1>2, InsertAdds
  <2>3. CASE Members' = Members \cup {acceptConn}
    <3>1. Membership!Cardinality(Members) < MaxNodes
      BY <1>2, InsertAdds DEF Membership!Cardinality, Cardinality
    <3>2. Membership!Join(acceptConn)
      BY <2>1, <2>2, <2>3, <3>1 DEF Membership!Join, Entered
    <3> QED
      BY <2>2, <3>2 DEF Membership!MemberNext
  <2>4. ASSUME reaped, NEW d \in Members, Members' = (Members \ {d}) \cup {acceptConn}
        PROVE  Membership!MemberNext
    <3>1. Membership!Replace(acceptConn, d)
      BY <2>1, <2>2, <2>4 DEF Membership!Replace, Entered
    <3> QED
      BY <2>2, <3>1 DEF Membership!MemberNext
  <2> QED
    BY <1>2, <2>3, <2>4, InsertAdds
<1>3. ASSUME NEW d \in Members, Members' = Members \ {d}, Entered' = Entered,
             reaped' \in {reaped, TRUE}
      PROVE  Membership!MemberNext
  <2>1. Membership!Leave(d)
    BY <1>3 DEF Membership!Leave, Entered
  <2> QED
    BY <2>1 DEF Membership!MemberNext
<1>4. ASSUME NEW c \in Conn, LoopErase(c)
      PROVE  [Membership!MemberNext]_<<Members, Entered, reaped>>
  <2>1. id[c] \in Fd /\ Erase(id[c]) /\ reaped' = reaped /\ acceptPc' = acceptPc
    BY <1>1, <1>4 DEF LoopErase, TypeInv, TypeOK, LoopTypeOK, hbVars, acceptVars
  <2>2. ~AcceptInsert
    BY <2>1 DEF AcceptInsert
  <2>3. Entered' = Entered
    BY <1>1, <2>2, EnteredKept
  <2> QED
    BY <1>1, <1>3, <2>1, <2>3, EraseLeaves
<1>5. ASSUME NEW f \in Fd, HbErase(f)
      PROVE  [Membership!MemberNext]_<<Members, Entered, reaped>>
  <2>1. Erase(f) /\ reaped' = TRUE /\ acceptPc' = acceptPc
    BY <1>5 DEF HbErase, acceptVars
  <2>2. ~AcceptInsert
    BY <2>1 DEF AcceptInsert
  <2>3. Entered' = Entered
    BY <1>1, <2>2, EnteredKept
  <2>4. CASE Members' = Members /\ ~reaped
    <3>1. Membership!Disturb
      BY <2>1, <2>3, <2>4 DEF Membership!Disturb, Entered
    <3> QED
      BY <3>1 DEF Membership!MemberNext
  <2>5. CASE Members' = Members /\ reaped
    BY <1>1, <2>1, <2>3, <2>5
  <2> QED
    BY <1>1, <1>3, <2>1, <2>3, <2>4, <2>5, EraseLeaves
<1>6. CASE ~AcceptInsert /\ ~(\E c \in Conn : LoopErase(c)) /\ ~(\E f \in Fd : HbErase(f))
  <2>1. Members' = Members
    BY <1>1, <1>6, OthersKeepOwners, OnlyInsertAdds, NobodyMoves
  <2>2. Entered' = Entered /\ reaped' = reaped
    BY <1>1, <1>6, EnteredKept, ReapedByErase
  <2> QED
    BY <2>1, <2>2
<1> QED
  BY <1>2, <1>4, <1>5, <1>6

LEMMA MasterInvariant == SafetySpec => []MasterInv
<1>1. Init => OwnInv
  BY DEF Init, OwnInv, Live, Serving
<1>2. TypeInv /\ InsertNeverRefused /\ OwnInv /\ [Next]_vars => OwnInv'
  BY OwnNext
<1> QED
  BY <1>1, <1>2, TypeInvariant, NoOrphan, Capacity, PTL DEF SafetySpec, MasterInv

\* ImplementsMembership: for all that accept, the loops, the heartbeat and the
\* pool do to the registry, in whatever order, what is seen from outside are
\* connections that join once, within the limit, and leave for good; an entry
\* takes the place of another one only after the heartbeat's first removal.
THEOREM MembershipRefined == SafetySpec => ImplementsMembership
<1>1. Init => Membership!MemberInit
  BY DEF Init, RegistryInit, Membership!MemberInit, Members, Registered, HasEntered
<1>2. MasterInv /\ [Next]_vars => [Membership!MemberNext]_<<Members, Entered, reaped>>
  BY MemberSteps
<1>3. [Membership!MemberNext]_<<Members, Entered, reaped>>
        => [Membership!MemberNext]_(Membership!memberVars)
  BY DEF Entered, Membership!memberVars
<1> QED
  BY <1>1, <1>2, <1>3, MasterInvariant, PTL
     DEF SafetySpec, ImplementsMembership, Membership!MemberSpec

-----------------------------------------------------------------------------
(* The order in which the workers handle messages.                         *)

\* What Update makes of the entry it finds.
Handled(info, from, msg) ==
    IF msg = "OTHER" THEN info
    ELSE [info EXCEPT !.expired = FALSE, !.specs = IF msg = "REPORT" THEN from ELSE @]

LEMMA UpdateHandles ==
    ASSUME RegistryTypeOK, NEW f \in Fd, NEW e \in Conn, NEW m \in Message, Update(f, e, m)
    PROVE  nodes' = [g \in Fd |-> IF g = f /\ nodes[g] # None THEN Handled(nodes[g], e, m)
                                  ELSE nodes[g]]
<1>1. nodes \in [Fd -> NodeInfo \cup {None}]
  BY DEF RegistryTypeOK
<1>2. CASE nodes[f] = None \/ m = "OTHER"
  BY <1>1, <1>2 DEF Update, Handled
<1>3. CASE nodes[f] # None /\ m # "OTHER"
  <2>1. nodes[f] \in NodeInfo
    BY <1>1, <1>3
  <2>2. nodes' = [nodes EXCEPT ![f].expired = FALSE,
                               ![f].specs = IF m = "REPORT" THEN e ELSE @]
    BY <1>3 DEF Update
  <2>3. nodes' = [nodes EXCEPT ![f] = Handled(nodes[f], e, m)]
    BY <1>1, <1>3, <2>1, <2>2 DEF Handled, NodeInfo
  <2> QED
    BY <1>1, <1>3, <2>3
<1> QED
  BY <1>2, <1>3

\* The message handler: two workers may take two messages of one connection in
\* either order, a PONG before the report it followed included, and leave the
\* same entry.  Messages of two connections that meet on one number commute
\* as well, unless both are reports.
THEOREM UpdatesCommute ==
    ASSUME NEW info \in NodeInfo, NEW c \in Conn, NEW d \in Conn,
           NEW m \in Message, NEW n \in Message,
           c = d \/ ~(m = "REPORT" /\ n = "REPORT")
    PROVE  Handled(Handled(info, c, m), d, n) = Handled(Handled(info, d, n), c, m)
<1>1. CASE m = "OTHER" \/ n = "OTHER"
  BY <1>1 DEF Handled
<1>2. CASE m # "OTHER" /\ n # "OTHER"
  BY <1>2 DEF Handled, NodeInfo
<1> QED
  BY <1>1, <1>2

-----------------------------------------------------------------------------
(* The end: what is still going on when stop() has returned.               *)

StopInv ==
    /\ mainPc \in {"teardown", "joinAccept", "joinHeartbeat", "stopped"} => stopping
    /\ mainPc \in {"joinAccept", "joinHeartbeat", "stopped"} => ~listening /\ backlog = {}
    /\ mainPc \in {"joinHeartbeat", "stopped"} => acceptPc = "exited"
    /\ mainPc = "stopped" => hbPc = "exited"

QuietStep ==
    mainPc = "stopped" =>
        /\ Members' \subseteq Members
        /\ UNCHANGED <<backlog, listening>>
        /\ \A f \in Fd : fdTable'[f] \in {fdTable[f], None}

QuietAfterStop == [][QuietStep]_vars

LEMMA StopNext ==
    ASSUME TypeInv, StopInv, [Next]_vars
    PROVE  StopInv'
<1>1. NotStarted
  BY DEF TypeInv, TypeOK
<1>2. ASSUME UNCHANGED <<mainVars, listening, backlog, acceptPc, hbPc>>
      PROVE  StopInv'
  BY <1>2 DEF StopInv, mainVars
<1>3. CASE StartServer \/ StartFails \/ StopServer \/ MainStep
  <2>1. CASE StartServer \/ StartFails \/ StopServer \/ TeardownListener
    BY <2>1 DEF StartServer, StartFails, StopServer, TeardownListener, StopInv
  <2>2. CASE JoinAccept \/ JoinHeartbeat \/ DestroyServer
    BY <2>2 DEF JoinAccept, JoinHeartbeat, DestroyServer, StopInv, netVars, acceptVars, hbVars
  <2> QED
    BY <1>3, <2>1, <2>2 DEF MainStep
<1>4. CASE AcceptStep \/ AcceptFail
  <2>1. /\ acceptPc \notin {"none", "exited"}
        /\ UNCHANGED <<mainVars, listening, hbPc>>
        /\ backlog' \subseteq backlog
    BY <1>4
       DEF AcceptStep, AcceptTop, AcceptFail, AcceptReject, AcceptAdmit, AcceptConn, AcceptInsert,
           AcceptSpawn, netVars, hbVars
  <2> QED
    BY <1>1, <2>1 DEF StopInv, NotStarted, mainVars
<1>5. CASE HbStep
  <2>1. /\ hbPc \notin {"none", "exited"}
        /\ UNCHANGED <<mainVars, listening, backlog, acceptPc>>
    BY <1>5
       DEF HbStep, HbTop, HbSnapshot, HbShut, HbClose, HbSleep, HbPing, HbErase, netVars,
           acceptVars
  <2> QED
    BY <1>1, <2>1 DEF StopInv, NotStarted, mainVars
<1>6. ASSUME NEW c \in Conn, LoopStep(c)
      PROVE  StopInv'
  BY <1>2, <1>6
     DEF LoopStep, LoopTop, LoopRecv, LoopMessage, LoopEof, LoopEmptyFrame, LoopHandoff,
         LoopErase, LoopShut, LoopClose, Goto, netVars, acceptVars, hbVars
<1>7. ASSUME NEW w \in Worker, PoolStep(w)
      PROVE  StopInv'
  BY <1>2, <1>7 DEF PoolStep, PoolTake, PoolRun, netVars, acceptVars, hbVars
<1>8. CASE Environment
  <2>1. UNCHANGED <<mainVars, listening, acceptPc, hbPc>>
    BY <1>8
       DEF Environment, Peers, PeerConnect, PeerSend, PeerPong, PeerLeave, netVars, acceptVars,
           hbVars
  <2>2. backlog' = backlog \/ listening
    BY <1>8 DEF Environment, Peers, PeerConnect, PeerSend, PeerPong, PeerLeave, netVars
  <2> QED
    BY <2>1, <2>2 DEF StopInv, mainVars
<1>9. CASE UNCHANGED vars
  BY <1>2, <1>9 DEF vars, netVars, acceptVars, hbVars
<1> QED
  BY <1>3, <1>4, <1>5, <1>6, <1>7, <1>8, <1>9 DEF Next, Terminated, Server

LEMMA QuietNext ==
    ASSUME MasterInv, StopInv, [Next]_vars
    PROVE  QuietStep
<1>1. /\ TypeInv /\ NoOrphanEntry /\ NotStarted /\ NetTypeOK
      /\ AcceptTypeOK /\ HbTypeOK /\ LoopTypeOK
  BY DEF MasterInv, TypeInv, TypeOK
<1> SUFFICES ASSUME mainPc = "stopped"
             PROVE  QuietStep
  BY DEF QuietStep
<1>2. acceptPc = "exited" /\ hbPc = "exited" /\ ~listening /\ backlog = {}
  BY DEF StopInv
<1>3. ~AcceptStep /\ ~AcceptFail /\ ~HbStep
  BY <1>2
     DEF AcceptStep, AcceptTop, AcceptFail, AcceptReject, AcceptAdmit, AcceptConn, AcceptInsert,
         AcceptSpawn, HbStep, HbTop, HbSnapshot, HbShut, HbClose, HbSleep, HbPing, HbErase
<1>4. Members' \subseteq Members
  <2>1. ~AcceptInsert /\ ~\E f \in Fd : HbErase(f)
    BY <1>3 DEF AcceptStep, HbStep
  <2>2. ASSUME NEW c \in Conn, LoopErase(c)
        PROVE  Members' \subseteq Members
    <3>1. id[c] \in Fd /\ Erase(id[c])
      BY <1>1, <2>2 DEF LoopErase, LoopTypeOK
    <3> QED
      BY <1>1, <3>1, EraseLeaves
  <2>3. CASE ~\E c \in Conn : LoopErase(c)
    BY <1>1, <2>1, <2>3, OthersKeepOwners, OnlyInsertAdds, NobodyMoves
  <2> QED
    BY <2>2, <2>3
<1>5. CASE UNCHANGED <<nodes, fdTable, listening, backlog>>
  BY <1>4, <1>5 DEF QuietStep
<1>6. CASE StartServer \/ StartFails \/ StopServer \/ MainStep
  BY <1>5, <1>6
     DEF StartServer, StartFails, StopServer, MainStep, TeardownListener, JoinAccept,
         JoinHeartbeat, DestroyServer, netVars
<1>7. ASSUME NEW c \in Conn, LoopStep(c)
      PROVE  QuietStep
  <2>1. UNCHANGED <<listening, backlog>>
    BY <1>7
       DEF LoopStep, LoopTop, LoopRecv, LoopMessage, LoopEof, LoopEmptyFrame, LoopHandoff,
           LoopErase, LoopShut, LoopClose, Goto, netVars
  <2>2. CASE LoopClose(c)
    <3>1. \A f \in Fd : fdTable'[f] \in {fdTable[f], None}
      BY <1>1, <2>2 DEF LoopClose, CloseFd, NetTypeOK
    <3> QED
      BY <1>4, <2>1, <3>1 DEF QuietStep
  <2>3. CASE ~LoopClose(c)
    <3>1. fdTable' = fdTable
      BY <1>7, <2>3
         DEF LoopStep, LoopTop, LoopRecv, LoopMessage, LoopEof, LoopEmptyFrame, LoopHandoff,
             LoopErase, LoopShut, netVars
    <3> QED
      BY <1>4, <2>1, <3>1 DEF QuietStep
  <2> QED
    BY <2>2, <2>3
<1>8. ASSUME NEW w \in Worker, PoolStep(w)
      PROVE  QuietStep
  <2>1. UNCHANGED netVars
    BY <1>8 DEF PoolStep, PoolTake, PoolRun
  <2> QED
    BY <1>4, <2>1 DEF QuietStep, netVars
<1>9. CASE Environment
  <2>1. CASE Peers /\ UNCHANGED <<nodes, mainVars, poolVars>>
    BY <1>2, <1>5, <2>1
       DEF Peers, PeerConnect, PeerSend, PeerPong, PeerLeave, mainVars
  <2>2. CASE UNCHANGED netVars
    BY <1>4, <2>2 DEF QuietStep, netVars
  <2> QED
    BY <1>9, <2>1, <2>2 DEF Environment
<1>10. CASE UNCHANGED vars
  BY <1>5, <1>10 DEF vars, netVars, mainVars
<1> QED
  BY <1>3, <1>6, <1>7, <1>8, <1>9, <1>10 DEF Next, Terminated, Server

\* stop(), between its return and the end of the process: no connection is added
\* to the registry or accepted any more, and descriptors are only closed,
\* although connection loops and workers go on handling messages.
THEOREM StopIsFinal == SafetySpec => QuietAfterStop
<1>1. Init => StopInv
  BY DEF Init, NetInit, StopInv
<1>2. TypeInv /\ StopInv /\ [Next]_vars => StopInv'
  BY StopNext
<1>3. MasterInv /\ StopInv /\ [Next]_vars => QuietStep
  BY QuietNext
<1> QED
  BY <1>1, <1>2, <1>3, TypeInvariant, MasterInvariant, PTL DEF SafetySpec, QuietAfterStop

(* What stop() waits for: the two threads it joins have less and less to   *)
(* do, whatever the loops, the peers and the clock do meanwhile.           *)

AcceptRank ==
    CASE acceptPc = "check"  -> 4
      [] acceptPc = "insert" -> 3
      [] acceptPc = "spawn"  -> 2
      [] acceptPc \in {"top", "accept"} -> 1
      [] OTHER -> 0

HbRank ==
    CASE hbPc = "ping"  -> 3 * Cardinality(Fd) + 3 + Cardinality(hbTodo)
      [] hbPc = "shut"  -> 3 * Cardinality(hbTodo) + 4
      [] hbPc = "close" -> 3 * Cardinality(hbTodo) + 3
      [] hbPc = "reap"  -> 3 * Cardinality(hbTodo) + 2
      [] hbPc = "top"   -> 1
      [] OTHER -> 0

JoinStep ==
    mainPc \in {"joinAccept", "joinHeartbeat"} =>
        /\ AcceptRank' <= AcceptRank /\ (AcceptStep => AcceptRank' < AcceptRank)
        /\ HbRank' <= HbRank /\ (HbStep => HbRank' < HbRank)

JoinsEnd == [][JoinStep]_vars

\* accept() is the only call in which one of the two may wait for others.
JoinedIsNotBlocked ==
    mainPc \in {"joinAccept", "joinHeartbeat"} =>
        /\ acceptPc # "none" /\ (acceptPc = "accept" => ~listening)
        /\ hbPc # "none"

Started == mainPc \notin {"idle", "destroyed"} => acceptPc # "none" /\ hbPc # "none"

\* Each of the two threads moves by its own steps only, once started.
LEMMA OwnStepsOnly ==
    ASSUME [Next]_vars
    PROVE  /\ AcceptStep \/ AcceptFail \/ StartServer \/ UNCHANGED acceptVars
           /\ HbStep \/ StartServer \/ UNCHANGED hbVars
<1>1. CASE StartFails \/ StopServer \/ MainStep
  BY <1>1
     DEF StartFails, StopServer, MainStep, TeardownListener, JoinAccept, JoinHeartbeat,
         DestroyServer
<1>2. CASE AcceptStep \/ AcceptFail
  BY <1>2
     DEF AcceptStep, AcceptTop, AcceptFail, AcceptReject, AcceptAdmit, AcceptConn, AcceptInsert,
         AcceptSpawn
<1>3. CASE HbStep
  BY <1>3 DEF HbStep, HbTop, HbSnapshot, HbShut, HbClose, HbSleep, HbPing, HbErase
<1>4. ASSUME NEW c \in Conn, LoopStep(c)
      PROVE  UNCHANGED acceptVars /\ UNCHANGED hbVars
  BY <1>4
     DEF LoopStep, LoopTop, LoopRecv, LoopMessage, LoopEof, LoopEmptyFrame, LoopHandoff,
         LoopErase, LoopShut, LoopClose
<1>5. CASE (\E w \in Worker : PoolStep(w)) \/ Environment \/ UNCHANGED vars
  BY <1>5 DEF PoolStep, PoolTake, PoolRun, Environment, vars
<1> QED
  BY <1>1, <1>2, <1>3, <1>4, <1>5 DEF Next, Terminated, Server

LEMMA StartedNext ==
    ASSUME TypeInv, Started, [Next]_vars
    PROVE  Started'
<1>1. CASE StartServer
  BY <1>1 DEF StartServer, Started
<1>2. CASE ~StartServer
  <2>1. mainPc' \notin {"idle", "destroyed"} => mainPc \notin {"idle", "destroyed"}
    BY <1>2
       DEF Next, Terminated, Environment, Server, StartFails, StopServer, MainStep,
           TeardownListener, JoinAccept, JoinHeartbeat, DestroyServer, AcceptStep, AcceptTop,
           AcceptFail, AcceptReject, AcceptAdmit, AcceptConn, AcceptInsert, AcceptSpawn, HbStep,
           HbTop, HbSnapshot, HbShut, HbClose, HbSleep, HbPing, HbErase, LoopStep, LoopTop,
           LoopRecv, LoopMessage, LoopEof, LoopEmptyFrame, LoopHandoff, LoopErase, LoopShut,
           LoopClose, PoolStep, PoolTake, PoolRun, mainVars, vars
  <2>2. acceptPc' = acceptPc \/ acceptPc' # "none"
    BY <1>2, OwnStepsOnly
       DEF AcceptStep, AcceptTop, AcceptFail, AcceptReject, AcceptAdmit, AcceptConn, AcceptInsert,
           AcceptSpawn, acceptVars
  <2>3. hbPc' = hbPc \/ hbPc' # "none"
    BY <1>2, OwnStepsOnly
       DEF HbStep, HbTop, HbSnapshot, HbShut, HbClose, HbSleep, HbPing, HbErase, hbVars
  <2> QED
    BY <2>1, <2>2, <2>3 DEF Started
<1> QED
  BY <1>1, <1>2

LEMMA AcceptRanks ==
    ASSUME stopping, ~listening, AcceptStep
    PROVE  AcceptRank \in Nat /\ AcceptRank' \in Nat /\ AcceptRank' < AcceptRank
<1>1. CASE AcceptTop \/ AcceptFail
  BY <1>1 DEF AcceptTop, AcceptFail, AcceptRank
<1>2. CASE AcceptReject \/ AcceptAdmit
  BY <1>2 DEF AcceptReject, AcceptAdmit, AcceptRank
<1>3. CASE AcceptInsert \/ AcceptSpawn
  BY <1>3 DEF AcceptInsert, AcceptSpawn, AcceptRank
<1> QED
  BY <1>1, <1>2, <1>3 DEF AcceptStep, AcceptConn

LEMMA HbRanks ==
    ASSUME HbTypeOK, RegistryTypeOK, stopping, HbStep
    PROVE  HbRank \in Nat /\ HbRank' \in Nat /\ HbRank' < HbRank
<1>1. IsFiniteSet(Fd) /\ IsFiniteSet(hbTodo) /\ hbTodo \subseteq Fd
  BY RegistryAssumption, FS_Subset DEF HbTypeOK
<1>2. Cardinality(Fd) \in Nat /\ Cardinality(hbTodo) \in Nat
  BY <1>1, FS_CardinalityType
<1>3. CASE HbTop
  BY <1>3 DEF HbTop, HbRank
<1>4. ASSUME NEW f \in Fd, HbPing(f) \/ HbErase(f)
      PROVE  HbRank \in Nat /\ HbRank' \in Nat /\ HbRank' < HbRank
  <2>1. f \in hbTodo /\ hbTodo' = hbTodo \ {f}
    BY <1>4 DEF HbPing, HbErase
  <2>2. Cardinality(hbTodo \ {f}) = Cardinality(hbTodo) - 1
    BY <1>1, <2>1, FS_RemoveElement
  <2>3. IsFiniteSet(hbTodo \ {f})
    BY <1>1, FS_Subset
  <2>4. Cardinality(hbTodo') = Cardinality(hbTodo) - 1 /\ Cardinality(hbTodo') \in Nat
    BY <2>1, <2>2, <2>3, FS_CardinalityType
  <2>5. \/ hbPc = "ping" /\ hbPc' = "ping"
        \/ hbPc = "reap" /\ hbPc' = "shut"
    BY <1>4 DEF HbPing, HbErase, acceptVars
  <2> QED
    BY <1>2, <2>4, <2>5 DEF HbRank
<1>5. CASE HbSnapshot
  <2>1. hbTodo' \subseteq Fd /\ hbPc = "ping" /\ hbPc' = "reap"
    BY <1>5 DEF HbSnapshot, Registered
  <2>2. IsFiniteSet(hbTodo') /\ Cardinality(hbTodo') <= Cardinality(Fd)
    BY <1>1, <2>1, FS_Subset
  <2>3. Cardinality(hbTodo') \in Nat
    BY <2>2, FS_CardinalityType
  <2> QED
    BY <1>2, <2>1, <2>2, <2>3 DEF HbRank
<1>6. CASE HbShut \/ HbClose \/ HbSleep
  <2>1. /\ hbTodo' = hbTodo
        /\ \/ hbPc = "shut" /\ hbPc' = "close"
           \/ hbPc = "close" /\ hbPc' = "reap"
           \/ hbPc = "reap" /\ hbPc' = "top"
    BY <1>6 DEF HbShut, HbClose, HbSleep
  <2> QED
    BY <1>2, <2>1 DEF HbRank
<1> QED
  BY <1>3, <1>4, <1>5, <1>6 DEF HbStep

LEMMA JoinNext ==
    ASSUME TypeInv, StopInv, [Next]_vars
    PROVE  JoinStep
<1> SUFFICES ASSUME mainPc \in {"joinAccept", "joinHeartbeat"}
             PROVE  /\ AcceptRank' <= AcceptRank /\ (AcceptStep => AcceptRank' < AcceptRank)
                    /\ HbRank' <= HbRank /\ (HbStep => HbRank' < HbRank)
  BY DEF JoinStep
<1>1. HbTypeOK /\ RegistryTypeOK /\ stopping /\ ~listening /\ ~StartServer
  BY DEF TypeInv, TypeOK, StopInv, StartServer
<1>2. AcceptFail => AcceptStep
  BY <1>1 DEF AcceptStep
<1>3. AcceptRank \in Nat
  BY DEF AcceptRank
<1>4. HbRank \in Nat
  <2>1. IsFiniteSet(Fd) /\ IsFiniteSet(hbTodo)
    BY <1>1, RegistryAssumption, FS_Subset DEF HbTypeOK
  <2>2. Cardinality(Fd) \in Nat /\ Cardinality(hbTodo) \in Nat
    BY <2>1, FS_CardinalityType
  <2> QED
    BY <2>2 DEF HbRank
<1>5. UNCHANGED acceptVars => AcceptRank' = AcceptRank
  BY DEF acceptVars, AcceptRank
<1>6. UNCHANGED hbVars => HbRank' = HbRank
  BY DEF hbVars, HbRank
<1>7. AcceptRank' <= AcceptRank /\ (AcceptStep => AcceptRank' < AcceptRank)
  BY <1>1, <1>2, <1>3, <1>5, OwnStepsOnly, AcceptRanks
<1>8. HbRank' <= HbRank /\ (HbStep => HbRank' < HbRank)
  BY <1>1, <1>4, <1>6, OwnStepsOnly, HbRanks
<1> QED
  BY <1>7, <1>8

\* stop(): from close(listenfd) on, each step of acceptLoop or of
\* heartbeatLoop brings it nearer to its end by a count of steps that nothing
\* else makes larger, and neither waits for anybody: accept() is the only
\* blocking call, and it fails.  Hence both joins return.
THEOREM JoinsReturn == SafetySpec => JoinsEnd /\ []JoinedIsNotBlocked
<1>1. Init => StopInv /\ Started
  BY DEF Init, NetInit, StopInv, Started
<1>2. TypeInv /\ StopInv /\ [Next]_vars => StopInv' /\ JoinStep
  BY StopNext, JoinNext
<1>3. TypeInv /\ Started /\ [Next]_vars => Started'
  BY StartedNext
<1>4. StopInv /\ Started => JoinedIsNotBlocked
  BY DEF StopInv, Started, JoinedIsNotBlocked
<1> QED
  BY <1>1, <1>2, <1>3, <1>4, TypeInvariant, PTL DEF SafetySpec, JoinsEnd

=============================================================================
