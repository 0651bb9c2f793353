------------------------- MODULE PrintfServerProofs -------------------------
(* What PrintfServer guarantees for any number of clients, descriptors and *)
(* other users of descriptors: its types, that the output leaves clients   *)
(* that have gone, and that a thread in time closes its own connection.    *)
EXTENDS PrintfServer, WellFoundedInduction, TLAPS

-----------------------------------------------------------------------------
(* The invariant.                                                          *)

\* While the listening thread serves srv.c, srv.fd is that client's, free, or one of the
\* others'; and the client has no thread before it is created.
ServeInv ==
  srv.pc \notin {"accept", "ended"} =>
    /\ srv.c \in Clients /\ srv.fd \in Fds
    /\ fds[srv.fd] \in {srv.c, None} \cup Others
    /\ srv.pc \in {"set", "create"} => th[srv.c].pc = None
    /\ srv.pc # "err" => accept_socket_fd = srv.fd
    /\ srv.pc = "err" => th[srv.c].pc = None \/ fds[srv.fd] # srv.c

\* A thread that has begun while its client is being served has the right descriptor,
\* and when it has closed it, it is no longer the client's.
ThreadInv ==
  srv.pc \in {"dup1", "dup2"} =>
    /\ th[srv.c].pc # None
    /\ th[srv.c].pc \in {"loop", "close"} => th[srv.c].fd = srv.fd
    /\ th[srv.c].pc \in {"dup1", "dup2", "done"} => fds[srv.fd] # srv.c

\* The output goes to a client only as long as its thread is still to put the console
\* back.
OutputInv ==
  \A c \in Clients :
    /\ std[1] = c => th[c].pc \in {"start", "loop", "close", "dup1"}
    /\ std[2] = c => th[c].pc \in {"start", "loop", "close", "dup1", "dup2"}

\* Until a thread is late, each has its client's descriptor, open, until it closes it.
OwnInv ==
  ~late =>
    /\ srv.pc \in {"set", "create"} => fds[srv.fd] = srv.c
    /\ \A c \in Clients :
         /\ th[c].pc = "start" => /\ srv.pc \in {"dup1", "dup2", "sleep"} /\ srv.c = c
                                  /\ fds[srv.fd] = c
         /\ th[c].pc \in {"loop", "close"} => th[c].fd \in Fds /\ fds[th[c].fd] = c

PrintfInv == ServeInv /\ ThreadInv /\ OutputInv /\ OwnInv

-----------------------------------------------------------------------------
(* The types.                                                              *)

\* The kernel gives out the lowest free number.
LEMMA LowestFree == Free # {} => Min(Free) \in Fds /\ fds[Min(Free)] = None
  <1> SUFFICES ASSUME Free # {} PROVE Min(Free) \in Free
    BY DEF Free
  <1>1. Free \subseteq Nat
    BY PrintfAssumption DEF PrintfAssumption, Free, Fds
  <1>2. PICK f \in Free : \A g \in Free : <<g, f>> \notin OpToRel(<, Nat)
    BY <1>1, NatLessThanWellFounded, WFMin
  <1>3. ASSUME NEW g \in Free PROVE f =< g
    <2>1. f \in Nat /\ g \in Nat
      BY <1>1
    <2>2. g < f => <<g, f>> \in OpToRel(<, Nat)
      BY <2>1, Zenon DEF OpToRel
    <2>3. ~(g < f)
      BY <1>2, <2>2, Zenon
    <2> QED
      BY <2>1, <2>3
  <1> QED
    BY <1>3 DEF Min

LEMMA TypeInit == Init => TypeOK
  <1> SUFFICES ASSUME Init PROVE TypeOK
    OBVIOUS
  <1>1. late \in BOOLEAN
    BY Zenon DEF Init
  <1> QED
    BY <1>1, PrintfAssumption DEF PrintfAssumption, Init, TypeOK, Conns

LEMMA TypeStep == TypeOK /\ ServeInv /\ [Next]_vars => TypeOK'
  <1> SUFFICES ASSUME TypeOK, ServeInv, [Next]_vars PROVE TypeOK'
    OBVIOUS
  <1> USE PrintfAssumption DEF PrintfAssumption, TypeOK, Conns, None, ServeInv
  <1>1. ASSUME NEW c \in Clients, ClientConnect(c) PROVE TypeOK'
    BY <1>1 DEF ClientConnect
  <1>2. ASSUME NEW c \in Clients, ClientGone(c) PROVE TypeOK'
    BY <1>2 DEF ClientGone
  <1>3. ASSUME NEW o \in Others, OtherOpen(o) PROVE TypeOK'
    BY <1>3, LowestFree DEF OtherOpen
  <1>4. ASSUME NEW o \in Others, OtherClose(o) PROVE TypeOK'
    BY <1>4 DEF OtherClose, Closed
  <1>5. ASSUME NEW c \in Clients, prinf_read(c) PROVE TypeOK'
    BY <1>5, LowestFree DEF prinf_read
  <1>6. CASE SetOptions
    BY <1>6 DEF SetOptions, Closed
  <1>7. CASE CreateThread
    BY <1>7 DEF CreateThread
  <1>8. CASE DupOut
    BY <1>8 DEF DupOut, Dup
  <1>9. CASE DupErr
    BY <1>9 DEF DupErr, Dup
  <1>10. CASE Sleep
    BY <1>10 DEF Sleep
  <1>11. CASE Err
    <2>1. srv' \in [pc : {"accept", "set", "create", "dup1", "dup2", "sleep", "err",
                          "ended"},
                     c : Clients \cup {None}, fd : Fds \cup {0}]
      BY <1>11 DEF Err
    <2>2. cli' \in [Clients -> {"away", "open", "gone"}]
      BY <1>11 DEF Err
    <2>3. fds' \in [Fds -> Conns \cup {None}]
      BY <1>11 DEF Err, Closed
    <2>4. th' \in [Clients -> [pc : {None, "start", "loop", "close", "dup1", "dup2", "done"},
                             fd : Fds \cup {0}]]
      BY <1>11 DEF Err
    <2> QED
      BY <1>11, <2>1, <2>2, <2>3, <2>4 DEF Err
  <1>12. ASSUME NEW c \in Clients, ThreadStart(c) PROVE TypeOK'
    BY <1>12 DEF ThreadStart
  <1>13. ASSUME NEW c \in Clients, ThreadLoop(c) PROVE TypeOK'
    BY <1>13 DEF ThreadLoop
  <1>14. ASSUME NEW c \in Clients, ThreadClose(c) PROVE TypeOK'
    BY <1>14 DEF ThreadClose, Closed
  <1>15. ASSUME NEW c \in Clients, ThreadDupOut(c) PROVE TypeOK'
    BY <1>15 DEF ThreadDupOut
  <1>16. ASSUME NEW c \in Clients, ThreadDupErr(c) PROVE TypeOK'
    BY <1>16 DEF ThreadDupErr
  <1>17. CASE UNCHANGED vars
    BY <1>17 DEF vars
  <1>18. CASE ListenError
    BY <1>18 DEF ListenError
  <1>19. ASSUME NEW c \in Clients, ThreadLoopOfAnother(c) PROVE TypeOK'
    BY <1>19 DEF ThreadLoopOfAnother
  <1> QED
    BY <1>1, <1>2, <1>3, <1>4, <1>5, <1>6, <1>7, <1>8, <1>9, <1>10, <1>11, <1>12,
       <1>13, <1>14, <1>15, <1>16, <1>17, <1>18, <1>19
    DEF Next, create_socket_recv, NM_net_recv_thread2

LEMMA PrintfInit == Init => PrintfInv
  BY PrintfAssumption
  DEF PrintfAssumption, Init, None, Console, PrintfInv, ServeInv, ThreadInv, OutputInv, OwnInv

LEMMA ServeStep == TypeOK /\ ServeInv /\ [Next]_vars => ServeInv'
  <1> SUFFICES ASSUME TypeOK, ServeInv, [Next]_vars PROVE ServeInv'
    OBVIOUS
  <1> USE PrintfAssumption DEF PrintfAssumption, TypeOK, None, Conns, ServeInv
  <1>1. ASSUME NEW c \in Clients, ClientConnect(c) PROVE ServeInv'
    BY <1>1 DEF ClientConnect
  <1>2. ASSUME NEW c \in Clients, ClientGone(c) PROVE ServeInv'
    BY <1>2 DEF ClientGone
  <1>3. ASSUME NEW o \in Others, OtherOpen(o) PROVE ServeInv'
    BY <1>3, LowestFree DEF OtherOpen
  <1>4. ASSUME NEW o \in Others, OtherClose(o) PROVE ServeInv'
    BY <1>4 DEF OtherClose, Closed
  <1>5. ASSUME NEW c \in Clients, prinf_read(c) PROVE ServeInv'
    BY <1>5, LowestFree DEF prinf_read
  <1>6. CASE SetOptions
    BY <1>6 DEF SetOptions, Closed
  <1>7. CASE CreateThread
    BY <1>7 DEF CreateThread
  <1>8. CASE DupOut
    BY <1>8 DEF DupOut, Dup
  <1>9. CASE DupErr
    BY <1>9 DEF DupErr, Dup
  <1>10. CASE Sleep
    BY <1>10 DEF Sleep
  <1>11. CASE Err
    BY <1>11 DEF Err, Closed
  <1>12. ASSUME NEW c \in Clients, ThreadStart(c) PROVE ServeInv'
    BY <1>12 DEF ThreadStart
  <1>13. ASSUME NEW c \in Clients, ThreadLoop(c) PROVE ServeInv'
    BY <1>13 DEF ThreadLoop
  <1>14. ASSUME NEW c \in Clients, ThreadClose(c) PROVE ServeInv'
    BY <1>14 DEF ThreadClose, Closed
  <1>15. ASSUME NEW c \in Clients, ThreadDupOut(c) PROVE ServeInv'
    BY <1>15 DEF ThreadDupOut
  <1>16. ASSUME NEW c \in Clients, ThreadDupErr(c) PROVE ServeInv'
    BY <1>16 DEF ThreadDupErr
  <1>17. CASE UNCHANGED vars
    BY <1>17 DEF vars
  <1>18. CASE ListenError
    BY <1>18 DEF ListenError
  <1>19. ASSUME NEW c \in Clients, ThreadLoopOfAnother(c) PROVE ServeInv'
    BY <1>19 DEF ThreadLoopOfAnother
  <1> QED
    BY <1>1, <1>2, <1>3, <1>4, <1>5, <1>6, <1>7, <1>8, <1>9, <1>10, <1>11, <1>12,
       <1>13, <1>14, <1>15, <1>16, <1>17, <1>18, <1>19
    DEF Next, create_socket_recv, NM_net_recv_thread2

LEMMA ThreadStep == TypeOK /\ ServeInv /\ ThreadInv /\ [Next]_vars => ThreadInv'
  <1> SUFFICES ASSUME TypeOK, ServeInv, ThreadInv, [Next]_vars PROVE ThreadInv'
    OBVIOUS
  <1> USE PrintfAssumption DEF PrintfAssumption, TypeOK, None, ServeInv, ThreadInv
  <1>1. ASSUME NEW c \in Clients, ClientConnect(c) PROVE ThreadInv'
    BY <1>1 DEF ClientConnect
  <1>2. ASSUME NEW c \in Clients, ClientGone(c) PROVE ThreadInv'
    BY <1>2 DEF ClientGone
  <1>3. ASSUME NEW o \in Others, OtherOpen(o) PROVE ThreadInv'
    BY <1>3, LowestFree DEF OtherOpen
  <1>4. ASSUME NEW o \in Others, OtherClose(o) PROVE ThreadInv'
    BY <1>4 DEF OtherClose, Closed
  <1>5. ASSUME NEW c \in Clients, prinf_read(c) PROVE ThreadInv'
    BY <1>5, LowestFree DEF prinf_read
  <1>6. CASE SetOptions
    BY <1>6 DEF SetOptions, Closed
  <1>7. CASE CreateThread
    BY <1>7 DEF CreateThread
  <1>8. CASE DupOut
    BY <1>8 DEF DupOut, Dup
  <1>9. CASE DupErr
    BY <1>9 DEF DupErr, Dup
  <1>10. CASE Sleep
    BY <1>10 DEF Sleep
  <1>11. CASE Err
    BY <1>11 DEF Err, Closed
  <1>12. ASSUME NEW c \in Clients, ThreadStart(c) PROVE ThreadInv'
    BY <1>12 DEF ThreadStart
  <1>13. ASSUME NEW c \in Clients, ThreadLoop(c) PROVE ThreadInv'
    BY <1>13 DEF ThreadLoop
  <1>14. ASSUME NEW c \in Clients, ThreadClose(c) PROVE ThreadInv'
    <2>1. CASE srv.c = c
      <3>1. SUFFICES ASSUME srv.pc \in {"dup1", "dup2"} PROVE ThreadInv'
        BY <1>14 DEF ThreadClose
      <3>2. srv.fd \in Fds /\ th[c].fd = srv.fd /\ srv.fd # 0
        BY <1>14, <2>1, <3>1 DEF ThreadClose, Fds
      <3>3. fds'[srv.fd] = None
        BY <1>14, <3>2 DEF ThreadClose, Closed
      <3>4. th'[c].pc = "dup1" /\ UNCHANGED srv
        BY <1>14 DEF ThreadClose
      <3> QED
        BY <2>1, <3>3, <3>4
    <2>2. CASE srv.c # c
      BY <1>14, <2>2 DEF ThreadClose, Closed
    <2> QED
      BY <2>1, <2>2
  <1>15. ASSUME NEW c \in Clients, ThreadDupOut(c) PROVE ThreadInv'
    BY <1>15 DEF ThreadDupOut
  <1>16. ASSUME NEW c \in Clients, ThreadDupErr(c) PROVE ThreadInv'
    BY <1>16 DEF ThreadDupErr
  <1>17. CASE UNCHANGED vars
    BY <1>17 DEF vars
  <1>18. CASE ListenError
    BY <1>18 DEF ListenError
  <1>19. ASSUME NEW c \in Clients, ThreadLoopOfAnother(c) PROVE ThreadInv'
    BY <1>19 DEF ThreadLoopOfAnother
  <1> QED
    BY <1>1, <1>2, <1>3, <1>4, <1>5, <1>6, <1>7, <1>8, <1>9, <1>10, <1>11, <1>12,
       <1>13, <1>14, <1>15, <1>16, <1>17, <1>18, <1>19
    DEF Next, create_socket_recv, NM_net_recv_thread2

LEMMA OutputStep == TypeOK /\ ServeInv /\ ThreadInv /\ OutputInv /\ [Next]_vars => OutputInv'
  <1> SUFFICES ASSUME TypeOK, ServeInv, ThreadInv, OutputInv, [Next]_vars PROVE OutputInv'
    OBVIOUS
  <1> USE PrintfAssumption DEF PrintfAssumption, TypeOK, None, ServeInv, ThreadInv, OutputInv
  <1>1. ASSUME NEW c \in Clients, ClientConnect(c) PROVE OutputInv'
    BY <1>1 DEF ClientConnect
  <1>2. ASSUME NEW c \in Clients, ClientGone(c) PROVE OutputInv'
    BY <1>2 DEF ClientGone
  <1>3. ASSUME NEW o \in Others, OtherOpen(o) PROVE OutputInv'
    BY <1>3, LowestFree DEF OtherOpen
  <1>4. ASSUME NEW o \in Others, OtherClose(o) PROVE OutputInv'
    BY <1>4 DEF OtherClose, Closed
  <1>5. ASSUME NEW c \in Clients, prinf_read(c) PROVE OutputInv'
    BY <1>5, LowestFree DEF prinf_read
  <1>6. CASE SetOptions
    BY <1>6 DEF SetOptions, Closed
  <1>7. CASE CreateThread
    BY <1>7 DEF CreateThread
  <1>8. CASE DupOut
    BY <1>8 DEF DupOut, Dup
  <1>9. CASE DupErr
    BY <1>9 DEF DupErr, Dup
  <1>10. CASE Sleep
    BY <1>10 DEF Sleep
  <1>11. CASE Err
    BY <1>11 DEF Err, Closed
  <1>12. ASSUME NEW c \in Clients, ThreadStart(c) PROVE OutputInv'
    BY <1>12 DEF ThreadStart
  <1>13. ASSUME NEW c \in Clients, ThreadLoop(c) PROVE OutputInv'
    BY <1>13 DEF ThreadLoop
  <1>14. ASSUME NEW c \in Clients, ThreadClose(c) PROVE OutputInv'
    BY <1>14 DEF ThreadClose, Closed
  <1>15. ASSUME NEW c \in Clients, ThreadDupOut(c) PROVE OutputInv'
    BY <1>15 DEF ThreadDupOut
  <1>16. ASSUME NEW c \in Clients, ThreadDupErr(c) PROVE OutputInv'
    BY <1>16 DEF ThreadDupErr
  <1>17. CASE UNCHANGED vars
    BY <1>17 DEF vars
  <1>18. CASE ListenError
    BY <1>18 DEF ListenError
  <1>19. ASSUME NEW c \in Clients, ThreadLoopOfAnother(c) PROVE OutputInv'
    BY <1>19 DEF ThreadLoopOfAnother
  <1> QED
    BY <1>1, <1>2, <1>3, <1>4, <1>5, <1>6, <1>7, <1>8, <1>9, <1>10, <1>11, <1>12,
       <1>13, <1>14, <1>15, <1>16, <1>17, <1>18, <1>19
    DEF Next, create_socket_recv, NM_net_recv_thread2

LEMMA OwnStep == TypeOK /\ ServeInv /\ ThreadInv /\ OwnInv /\ [Next]_vars => OwnInv'
  <1> SUFFICES ASSUME TypeOK, ServeInv, ThreadInv, OwnInv, [Next]_vars PROVE OwnInv'
    OBVIOUS
  <1> USE PrintfAssumption DEF PrintfAssumption, TypeOK, None, ServeInv, ThreadInv, OwnInv
  <1>1. ASSUME NEW c \in Clients, ClientConnect(c) PROVE OwnInv'
    BY <1>1 DEF ClientConnect
  <1>2. ASSUME NEW c \in Clients, ClientGone(c) PROVE OwnInv'
    BY <1>2 DEF ClientGone
  <1>3. ASSUME NEW o \in Others, OtherOpen(o) PROVE OwnInv'
    BY <1>3, LowestFree DEF OtherOpen
  <1>4. ASSUME NEW o \in Others, OtherClose(o) PROVE OwnInv'
    BY <1>4 DEF OtherClose, Closed
  <1>5. ASSUME NEW c \in Clients, prinf_read(c) PROVE OwnInv'
    BY <1>5, LowestFree DEF prinf_read
  <1>6. CASE SetOptions
    BY <1>6 DEF SetOptions, Closed
  <1>7. CASE CreateThread
    BY <1>7 DEF CreateThread
  <1>8. CASE DupOut
    BY <1>8 DEF DupOut, Dup
  <1>9. CASE DupErr
    BY <1>9 DEF DupErr, Dup
  <1>10. CASE Sleep
    BY <1>10 DEF Sleep
  <1>11. CASE Err
    BY <1>11 DEF Err, Closed
  <1>12. ASSUME NEW c \in Clients, ThreadStart(c) PROVE OwnInv'
    BY <1>12 DEF ThreadStart
  <1>13. ASSUME NEW c \in Clients, ThreadLoop(c) PROVE OwnInv'
    BY <1>13 DEF ThreadLoop
  <1>14. ASSUME NEW c \in Clients, ThreadClose(c) PROVE OwnInv'
    BY <1>14 DEF ThreadClose, Closed
  <1>15. ASSUME NEW c \in Clients, ThreadDupOut(c) PROVE OwnInv'
    BY <1>15 DEF ThreadDupOut
  <1>16. ASSUME NEW c \in Clients, ThreadDupErr(c) PROVE OwnInv'
    BY <1>16 DEF ThreadDupErr
  <1>17. CASE UNCHANGED vars
    BY <1>17 DEF vars
  <1>18. CASE ListenError
    BY <1>18 DEF ListenError
  <1>19. ASSUME NEW c \in Clients, ThreadLoopOfAnother(c) PROVE OwnInv'
    BY <1>19 DEF ThreadLoopOfAnother
  <1> QED
    BY <1>1, <1>2, <1>3, <1>4, <1>5, <1>6, <1>7, <1>8, <1>9, <1>10, <1>11, <1>12,
       <1>13, <1>14, <1>15, <1>16, <1>17, <1>18, <1>19
    DEF Next, create_socket_recv, NM_net_recv_thread2

LEMMA PrintfInduction ==
  /\ Init => TypeOK /\ PrintfInv
  /\ TypeOK /\ PrintfInv /\ [Next]_vars => TypeOK' /\ PrintfInv'
  BY TypeInit, TypeStep, PrintfInit, ServeStep, ThreadStep, OutputStep, OwnStep DEF PrintfInv

\* Every descriptor in use is one, for any number of them: an error never hands on the
\* number 0 that a failed accept leaves.
THEOREM TypeCorrect == Spec => []TypeOK
  BY PrintfInduction, PTL DEF Spec

\* For any number of clients, no output goes to one when the threads of all have ended.
THEOREM OutputIsReturned == Spec => []OutputLeavesTheGone
  <1>1. PrintfInv => OutputLeavesTheGone
    <2> SUFFICES ASSUME PrintfInv, AllGone, NEW n \in {1, 2}, std[n] \in Clients PROVE FALSE
      BY DEF OutputLeavesTheGone
    <2> QED
      BY DEF PrintfInv, OutputInv, AllGone, None
  <1> QED
    BY <1>1, PrintfInduction, PTL DEF Spec

\* For any number of clients and other users of descriptors, a thread closes the
\* connection of its own client, as long as no thread has been late.
THEOREM ClosesOwn == Spec => ClosesOnlyItsOwn
  <1>1. PrintfInv => \A c \in Clients :
                       ThreadClose(c) /\ ~late => fds[th[c].fd] \in {c, None}
    BY DEF PrintfInv, OwnInv, ThreadClose
  <1> QED
    BY <1>1, PrintfInduction, PTL DEF Spec, ClosesOnlyItsOwn
=============================================================================
