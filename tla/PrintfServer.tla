---------------------------- MODULE PrintfServer ----------------------------
(* The debugging service that hands the program's output to a TCP client:  *)
(* prinf_read accepts, create_socket_recv puts the connection in the place *)
(* of descriptors 1 and 2, and a thread per client puts the console back   *)
(* when the client has gone.  Source: src/print_read.c.                    *)
(*                                                                         *)
(* Descriptors are numbers, and a number that was closed is given out      *)
(* again: to the next client or to Others, the rest of the process.        *)
(***************************************************************************)
EXTENDS Integers, FiniteSetsExt

CONSTANTS
  Clients,  \* connections to the listening port, each made once
  Others,   \* connections of the other threads of the process
  MaxFd     \* bound: the descriptors are 3..MaxFd

Console == "console"
None == "none"
Fds == 3..MaxFd

ASSUME PrintfAssumption ==
  /\ MaxFd \in Nat
  /\ Clients \cap Others = {}
  /\ Console \notin Clients \cup Others /\ None \notin Clients \cup Others

VARIABLES
  cli,               \* the clients
  fds,               \* what each descriptor is
  std,               \* what 1 and 2 are duplicates of
  accept_socket_fd,  \* the static the new thread is given the address of
  srv,               \* create_socket_recv: where it is, for whom, socket_fd
  th,                \* NM_net_recv_thread2 of each client, and its socket_rd
  oth,               \* the descriptor each of the others has, or 0
  late               \* history: a thread has not read its argument within sleep(1)

vars == <<cli, fds, std, accept_socket_fd, srv, th, oth, late>>

Conns == Clients \cup Others

TypeOK ==
  /\ cli \in [Clients -> {"away", "open", "gone"}]
  /\ fds \in [Fds -> Conns \cup {None}]
  /\ std \in [{1, 2} -> Conns \cup {Console}]
  /\ accept_socket_fd \in Fds \cup {0}
  /\ srv \in [pc : {"accept", "set", "create", "dup1", "dup2", "sleep", "err", "ended"},
              c : Clients \cup {None}, fd : Fds \cup {0}]
  /\ th \in [Clients -> [pc : {None, "start", "loop", "close", "dup1", "dup2", "done"},
                         fd : Fds \cup {0}]]
  /\ oth \in [Others -> Fds \cup {0}]
  /\ late \in BOOLEAN

Init ==
  /\ cli = [c \in Clients |-> "away"]
  /\ fds = [f \in Fds |-> None]
  /\ std = [n \in {1, 2} |-> Console]
  /\ accept_socket_fd = 0
  /\ srv = [pc |-> "accept", c |-> None, fd |-> 0]
  /\ th = [c \in Clients |-> [pc |-> None, fd |-> 0]]
  /\ oth = [o \in Others |-> 0]
  /\ late = FALSE

-----------------------------------------------------------------------------
(* The kernel's part.                                                      *)

Free == {f \in Fds : fds[f] = None}

Closed(f) == [fds EXCEPT ![f] = None]

\* Between two calls the kernel has got the connection, or the client leaves.
ClientConnect(c) ==
  /\ cli[c] = "away"
  /\ cli' = [cli EXCEPT ![c] = "open"]
  /\ UNCHANGED <<fds, std, accept_socket_fd, srv, th, oth, late>>

ClientGone(c) ==
  /\ cli[c] = "open"
  /\ cli' = [cli EXCEPT ![c] = "gone"]
  /\ UNCHANGED <<fds, std, accept_socket_fd, srv, th, oth, late>>

OtherOpen(o) ==
  /\ oth[o] = 0 /\ Free # {}
  /\ \A f \in Fds : fds[f] # o
  /\ oth' = [oth EXCEPT ![o] = Min(Free)]
  /\ fds' = [fds EXCEPT ![Min(Free)] = o]
  /\ UNCHANGED <<cli, std, accept_socket_fd, srv, th, late>>

OtherClose(o) ==
  /\ oth[o] # 0
  /\ fds' = IF fds[oth[o]] = o THEN Closed(oth[o]) ELSE fds
  /\ oth' = [oth EXCEPT ![o] = 0]
  /\ UNCHANGED <<cli, std, accept_socket_fd, srv, th, late>>

-----------------------------------------------------------------------------
(* The listening thread.                                                   *)

prinf_read(c) ==
  /\ srv.pc = "accept" /\ Free # {}
  /\ cli[c] # "away" /\ th[c].pc = None
  /\ \A f \in Fds : fds[f] # c
  /\ fds' = [fds EXCEPT ![Min(Free)] = c]
  /\ accept_socket_fd' = Min(Free)
  /\ srv' = [pc |-> "set", c |-> c, fd |-> Min(Free)]
  /\ UNCHANGED <<cli, std, th, oth, late>>

\* select() on the listening socket fails: the thread ends.
ListenError ==
  /\ srv.pc = "accept"
  /\ srv' = [srv EXCEPT !.pc = "ended"]
  /\ UNCHANGED <<cli, fds, std, accept_socket_fd, th, oth, late>>

\* The socket options.  Three of the failures close the socket already.
SetOptions ==
  /\ srv.pc = "set"
  /\ \/ srv' = [srv EXCEPT !.pc = "create"] /\ UNCHANGED <<fds, accept_socket_fd>>
     \/ srv' = [srv EXCEPT !.pc = "err"] /\ UNCHANGED <<fds, accept_socket_fd>>
     \/ /\ srv' = [srv EXCEPT !.pc = "err"]
        /\ fds' = Closed(srv.fd)
        /\ accept_socket_fd' = 0
  /\ UNCHANGED <<cli, std, th, oth, late>>

CreateThread ==
  /\ srv.pc = "create"
  /\ \/ /\ th' = [th EXCEPT ![srv.c].pc = "start"]
        /\ srv' = [srv EXCEPT !.pc = "dup1"]
     \/ /\ srv' = [srv EXCEPT !.pc = "err"]
        /\ UNCHANGED th
  /\ UNCHANGED <<cli, fds, std, accept_socket_fd, oth, late>>

\* Slip: the result of dup2 is not looked at.
DupUnchecked(n, next) ==
  /\ srv' = [srv EXCEPT !.pc = next]
  /\ std' = [std EXCEPT ![n] = fds[srv.fd]]
  /\ UNCHANGED <<cli, fds, accept_socket_fd, th, oth, late>>

\* dup2 of a number that is not open fails; of one that is another's it does not.
Dup(n, next) ==
  /\ IF fds[srv.fd] = None
     THEN srv' = [srv EXCEPT !.pc = "err"] /\ UNCHANGED std
     ELSE srv' = [srv EXCEPT !.pc = next] /\ std' = [std EXCEPT ![n] = fds[srv.fd]]
  /\ UNCHANGED <<cli, fds, accept_socket_fd, th, oth, late>>

DupOut == srv.pc = "dup1" /\ Dup(1, "dup2")

DupErr == srv.pc = "dup2" /\ Dup(2, "sleep")

\* Slip: the sleep is left out.
NoSleep ==
  /\ srv.pc = "sleep"
  /\ srv' = [srv EXCEPT !.pc = "accept"]
  /\ UNCHANGED <<cli, fds, std, accept_socket_fd, th, oth, late>>

Sleep ==
  /\ srv.pc = "sleep"
  /\ late' = (late \/ th[srv.c].pc = "start")
  /\ srv' = [srv EXCEPT !.pc = "accept"]
  /\ UNCHANGED <<cli, fds, std, accept_socket_fd, th, oth>>

Err ==
  /\ srv.pc = "err"
  /\ fds' = Closed(srv.fd)
  /\ srv' = [srv EXCEPT !.pc = "accept", !.fd = 0]
  \* a connection that was refused does not come back
  /\ cli' = [cli EXCEPT ![srv.c] = "gone"]
  /\ th' = [th EXCEPT ![srv.c].pc = IF @ = None THEN "done" ELSE @]
  /\ UNCHANGED <<std, accept_socket_fd, oth, late>>

create_socket_recv == SetOptions \/ CreateThread \/ DupOut \/ DupErr \/ Sleep \/ Err

-----------------------------------------------------------------------------
(* The thread of a client.                                                 *)

ThreadStart(c) ==
  /\ th[c].pc = "start"
  /\ th' = [th EXCEPT ![c] = [pc |-> "loop", fd |-> accept_socket_fd]]
  /\ UNCHANGED <<cli, fds, std, accept_socket_fd, srv, oth, late>>

\* select fails on a number that is not open; recv says when a client has gone.
Ends(f) ==
  f # 0 /\ \/ fds[f] = None
           \/ fds[f] \in Clients /\ cli[fds[f]] = "gone"

\* Slip: only a negative result of recv ends the loop.
ThreadLoopOnError(c) ==
  /\ th[c].pc = "loop" /\ th[c].fd # 0 /\ fds[th[c].fd] = None
  /\ th' = [th EXCEPT ![c].pc = "close"]
  /\ UNCHANGED <<cli, fds, std, accept_socket_fd, srv, oth, late>>

ThreadLoop(c) ==
  /\ th[c].pc = "loop" /\ Ends(th[c].fd)
  /\ th' = [th EXCEPT ![c].pc = "close"]
  /\ UNCHANGED <<cli, fds, std, accept_socket_fd, srv, oth, late>>

\* With a number that is another's, or descriptor 0, it waits there like on its own: the
\* loop ends when that connection does, or never.
ThreadLoopOfAnother(c) ==
  /\ th[c].pc = "loop"
  /\ th[c].fd # 0 => fds[th[c].fd] \in Others
  /\ th' = [th EXCEPT ![c].pc = "close"]
  /\ UNCHANGED <<cli, fds, std, accept_socket_fd, srv, oth, late>>

\* Slip: the descriptor is left open.
ThreadNoClose(c) ==
  /\ th[c].pc = "close"
  /\ th' = [th EXCEPT ![c].pc = "dup1"]
  /\ UNCHANGED <<cli, fds, std, accept_socket_fd, srv, oth, late>>

ThreadClose(c) ==
  /\ th[c].pc = "close"
  /\ fds' = IF th[c].fd = 0 THEN fds ELSE Closed(th[c].fd)
  /\ th' = [th EXCEPT ![c].pc = "dup1"]
  /\ UNCHANGED <<cli, std, accept_socket_fd, srv, oth, late>>

ThreadDupOut(c) ==
  /\ th[c].pc = "dup1"
  /\ std' = [std EXCEPT ![1] = Console]
  /\ th' = [th EXCEPT ![c].pc = "dup2"]
  /\ UNCHANGED <<cli, fds, accept_socket_fd, srv, oth, late>>

ThreadDupErr(c) ==
  /\ th[c].pc = "dup2"
  /\ std' = [std EXCEPT ![2] = Console]
  /\ th' = [th EXCEPT ![c].pc = "done"]
  /\ UNCHANGED <<cli, fds, accept_socket_fd, srv, oth, late>>

NM_net_recv_thread2(c) ==
  ThreadStart(c) \/ ThreadLoop(c) \/ ThreadClose(c) \/ ThreadDupOut(c) \/ ThreadDupErr(c)

-----------------------------------------------------------------------------

Next ==
  \/ create_socket_recv \/ ListenError
  \/ \E c \in Clients : \/ prinf_read(c) \/ NM_net_recv_thread2(c)
                        \/ ThreadLoopOfAnother(c)
                        \/ ClientConnect(c) \/ ClientGone(c)
  \/ \E o \in Others : OtherOpen(o) \/ OtherClose(o)

Spec == Init /\ [][Next]_vars

\* The threads of the process are scheduled; nothing makes a client, or a connection that
\* is not the service's, come or go.
Fairness ==
  /\ WF_vars(create_socket_recv)
  /\ \A c \in Clients : WF_vars(prinf_read(c)) /\ WF_vars(NM_net_recv_thread2(c))

FairSpec == Spec /\ Fairness

-----------------------------------------------------------------------------
(* Properties.                                                             *)

AllGone ==
  /\ srv.pc \in {"accept", "ended"}
  /\ \A c \in Clients : cli[c] # "open" /\ th[c].pc \in {None, "done"}

\* When the threads of all clients have ended, no output goes to a client that has
\* gone: a thread closes its descriptor before it puts the console back, so a dup2 of
\* create_socket_recv that comes after the console is back finds it closed.  True even
\* if a thread reads its descriptor too late.
OutputLeavesTheGone ==
  AllGone => \A n \in {1, 2} : std[n] \notin Clients

\* As long as every thread has read its descriptor within sleep(1), none closes a
\* connection of another client, or of another part of the process, whatever numbers
\* have been given out again.
ClosesOnlyItsOwn ==
  [][\A c \in Clients : ThreadClose(c) /\ ~late => fds[th[c].fd] \in {c, None}]_vars

\* A client that has been accepted and leaves is let go: neither a descriptor nor the
\* program's output holds its connection in the end, unless a thread was late.
GoneIsReleased ==
  \A c \in Clients :
    cli[c] = "gone" /\ th[c].pc # None
      ~> late \/ ((\A f \in Fds : fds[f] # c) /\ (\A n \in {1, 2} : std[n] # c))
=============================================================================
