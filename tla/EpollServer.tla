---------------------------- MODULE EpollServer ----------------------------
(***************************************************************************)
(* The echo server of 2.1/epoll.c, one thread over level-triggered epoll.      *)
(***************************************************************************)
EXTENDS EchoClients, Sequences, SequencesExt

VARIABLES
    watched,   \* the interest list
    batch      \* the events not handled yet; who is history

server == <<watched, batch>>
vars == <<world, server>>

Owner(f) == IF f = Listener THEN NULL ELSE sock[f]

Init == WorldInit /\ watched = {Listener} /\ batch = <<>>

\* Mutant: a descriptor added twice is reported twice.
WaitTwice == /\ alive /\ batch = <<>>
             /\ LET ready == {f \in watched : Readable(f)}
                IN /\ ready # {}
                   /\ \E order \in SetToSeqs(ready) : LET all == order \o order IN
                         batch' = [k \in DOMAIN all |-> [fd |-> all[k], who |-> Owner(all[k])]]
             /\ UNCHANGED <<world, watched>>

\* epoll_wait: the ready descriptors, in any order.
Wait == /\ alive /\ batch = <<>>
        /\ LET ready == {f \in watched : Readable(f)}
           IN /\ ready # {}
              /\ \E order \in SetToSeqs(ready) :
                    batch' = [k \in DOMAIN order |-> [fd |-> order[k], who |-> Owner(order[k])]]
        /\ UNCHANGED <<world, watched>>

Turn(f) == alive /\ batch # <<>> /\ Head(batch).fd = f /\ batch' = Tail(batch)

Accept == /\ Turn(Listener)
          /\ \E f \in ConnFds : AcceptAs(f) /\ watched' = watched \cup {f}

\* No descriptor is left, and -1 is not added to epoll.
AcceptFails == /\ Turn(Listener)
               /\ \A f \in ConnFds : sock[f] # NULL
               /\ UNCHANGED <<world, watched>>

Echo(f) == Turn(f) /\ EchoOn(f) /\ UNCHANGED watched

\* recv's error is not looked at.
EchoError(f) == Turn(f) /\ ErrorOn(f) /\ UNCHANGED watched

\* close, and EPOLL_CTL_DEL of what close has taken out already
End(f) == Turn(f) /\ HasEnd(f) /\ CloseOn(f) /\ watched' = watched \ {f}

Server == Wait \/ Accept \/ AcceptFails \/ \E f \in ConnFds : Echo(f) \/ EchoError(f) \/ End(f)

Next == \/ Server
        \/ \E c \in Clients : Peer(c) /\ UNCHANGED server

Spec == Init /\ [][Next]_vars

FairSpec == Spec /\ WF_vars(Server) /\ \A c \in Clients : WF_vars(Leave(c) /\ UNCHANGED server)

-----------------------------------------------------------------------------
(* Properties.                                                             *)

\* An event is handled for the connection it was about, although descriptors
\* closed in a batch may be accepted again in the same batch.
NoStaleDispatch == \A k \in DOMAIN batch : Owner(batch[k].fd) = batch[k].who

\* The server is ended only by a client that reset its connection or left before
\* its echo.
OnlyRudeKills == ~alive => \E c \in Rude : client[c] = "left"

\* With fewer descriptors than clients, as those answered leave in the end, the
\* requests of those who wait come back, unless another has ended the server.
Echoed == \A c \in Clients \ Rude : asked[c] > got[c] ~> got[c] = asked[c] \/ ~alive
=============================================================================
