--------------------------- MODULE SelectServer ----------------------------
(***************************************************************************)
(* The echo server of 2.1/select.c, one thread.  It waits on every descriptor  *)
(* up to maxfd but looks at those below maxfd, and closes a descriptor when     *)
(* send returns 0, which it never does for a buffer of 1024 bytes.             *)
(***************************************************************************)
EXTENDS EchoClients

VARIABLES
    rfds, rset,   \* the descriptors to watch, and those select found readable
    maxfd,
    pc, i         \* where the loop is

server == <<rfds, rset, maxfd, pc, i>>
vars == <<world, server>>

Init == /\ WorldInit
        /\ rfds = {Listener} /\ rset = {} /\ maxfd = Listener
        /\ pc = "select" /\ i = 0

Goto(a, b) == alive /\ pc = a /\ pc' = b

Select == /\ Goto("select", "accept")
          /\ rset' = {f \in rfds : f <= maxfd /\ Readable(f)}
          /\ rset' # {}
          /\ UNCHANGED <<world, rfds, maxfd, i>>

\* Mutant: the newest descriptor is not put into the set.
AcceptUnwatched == /\ Goto("accept", "loop") /\ Listener \in rset
                   /\ \E f \in ConnFds : /\ AcceptAs(f)
                                         /\ maxfd' = IF f > maxfd THEN f ELSE maxfd
                   /\ i' = Listener + 1
                   /\ UNCHANGED <<rfds, rset>>

Accept == /\ Goto("accept", "loop") /\ Listener \in rset
          /\ \E f \in ConnFds : /\ AcceptAs(f)
                                /\ rfds' = rfds \cup {f}
                                /\ maxfd' = IF f > maxfd THEN f ELSE maxfd
          /\ i' = Listener + 1
          /\ UNCHANGED rset

NoAccept == /\ Goto("accept", "loop") /\ Listener \notin rset
            /\ i' = Listener + 1
            /\ UNCHANGED <<world, rfds, rset, maxfd>>

InLoop == alive /\ pc = "loop" /\ i < maxfd

NextFd == i' = i + 1 /\ UNCHANGED <<rfds, rset, maxfd, pc>>

Skip == InLoop /\ i \notin rset /\ NextFd /\ UNCHANGED world

Echo == InLoop /\ i \in rset /\ EchoOn(i) /\ NextFd

EchoError == InLoop /\ i \in rset /\ ErrorOn(i) /\ NextFd

\* The end of the stream: recv's 0 is not looked at, and the zeros in the
\* buffer are sent.
EchoEnd == /\ InLoop /\ i \in rset /\ HasEnd(i)
           /\ SendOn(i, cut[sock[i]])
           /\ UNCHANGED <<sock, backlog, inq, clientVars>>
           /\ NextFd

Again == /\ Goto("loop", "select") /\ i >= maxfd
         /\ UNCHANGED <<world, rfds, rset, maxfd, i>>

Server == Select \/ Accept \/ NoAccept \/ Skip \/ Echo \/ EchoError \/ EchoEnd \/ Again

Next == \/ Server
        \/ \E c \in Clients : Peer(c) /\ UNCHANGED server

Spec == Init /\ [][Next]_vars

FairSpec == Spec /\ WF_vars(Server)

-----------------------------------------------------------------------------
(* Properties.                                                             *)

Newest(c) == maxfd \in ConnFds /\ sock[maxfd] = c

\* recv is called only where it does not block, although select's answer is as
\* old as the accept and the other descriptors handled since.
NeverBlocks == \A f \in rset \ {Listener} : pc = "loop" /\ f >= i => Readable(f)

\* The client accepted last cannot end the server, whatever it does; a client that
\* leaves before another is accepted after it is not even noticed.
KilledByOlder == ~alive => \E c \in Clients : client[c] = "left" /\ ~Newest(c)

\* If nobody leaves, a request comes back once its client is not the last one
\* accepted.
OlderEchoed == [](\A c \in Clients : client[c] # "left") =>
                 \A c \in Clients :
                    asked[c] > got[c] /\ ~Newest(c) ~> got[c] = asked[c] \/ Newest(c)
=============================================================================
