----------------------------- MODULE PollServer ----------------------------
(***************************************************************************)
(* The echo server of 2.1/poll.c, one thread.  fds is indexed by descriptor and *)
(* is not initialised; poll is told maxfd entries, the listener's not among     *)
(* them at first and the highest descriptor's never.  What the memory holds is  *)
(* chosen at the start: revents of each entry, and whether the entries below    *)
(* the listener's make poll return at once.                                   *)
(***************************************************************************)
EXTENDS EchoClients

Slots == ConnFds \cup {Listener}

VARIABLES
    revents,   \* POLLIN in revents, of each entry
    used,      \* the entries that name a descriptor
    maxfd,
    lowReady,  \* the entries below the listener's make poll return
    pc, i      \* where the loop is

server == <<revents, used, maxfd, lowReady, pc, i>>
vars == <<world, server>>

Init == /\ WorldInit
        /\ revents \in [Slots -> BOOLEAN] /\ lowReady \in BOOLEAN
        /\ used = {Listener} /\ maxfd = Listener /\ pc = "poll" /\ i = 0

Goto(a, b) == alive /\ pc = a /\ pc' = b

Seen(f) == f < maxfd /\ f \in used /\ Readable(f)

Poll == /\ Goto("poll", "accept")
        /\ lowReady \/ \E f \in Slots : Seen(f)
        /\ revents' = [f \in Slots |-> IF f < maxfd THEN Seen(f) ELSE revents[f]]
        /\ UNCHANGED <<world, used, maxfd, lowReady, i>>

\* accept waits for a client if revents was not poll's.
Accept == /\ Goto("accept", "loop") /\ revents[Listener]
          /\ \E f \in ConnFds : /\ AcceptAs(f)
                                /\ used' = used \cup {f}
                                /\ maxfd' = IF f > maxfd THEN f ELSE maxfd
          /\ i' = Listener + 1
          /\ UNCHANGED <<revents, lowReady>>

NoAccept == /\ Goto("accept", "loop") /\ ~revents[Listener]
            /\ i' = Listener + 1
            /\ UNCHANGED <<world, revents, used, maxfd, lowReady>>

InLoop == alive /\ pc = "loop" /\ i < maxfd

NextFd == i' = i + 1 /\ UNCHANGED <<revents, maxfd, lowReady, pc>>

Skip == InLoop /\ ~revents[i] /\ NextFd /\ UNCHANGED <<world, used>>

Echo == InLoop /\ revents[i] /\ EchoOn(i) /\ NextFd /\ UNCHANGED used

EchoError == InLoop /\ revents[i] /\ ErrorOn(i) /\ NextFd /\ UNCHANGED used

\* Mutant: the end of the stream is answered, and the descriptor kept.
EndSent == /\ InLoop /\ revents[i] /\ HasEnd(i) /\ SendOn(i, cut[sock[i]])
           /\ NextFd /\ UNCHANGED <<used, sock, backlog, inq, clientVars>>

End == InLoop /\ revents[i] /\ HasEnd(i) /\ CloseOn(i) /\ used' = used \ {i} /\ NextFd

Again == /\ Goto("loop", "poll") /\ i >= maxfd
         /\ UNCHANGED <<world, revents, used, maxfd, lowReady, i>>

Server == Poll \/ Accept \/ NoAccept \/ Skip \/ Echo \/ EchoError \/ End \/ Again

Next == \/ Server
        \/ \E c \in Clients : Peer(c) /\ UNCHANGED server

Spec == Init /\ [][Next]_vars

FairSpec == Spec /\ WF_vars(Server)

-----------------------------------------------------------------------------
(* Properties.                                                             *)

\* Whatever the memory held, the loop calls recv on no descriptor that is closed:
\* an entry's revents outlives its descriptor until poll next writes it.
OpenOnly == InLoop /\ revents[i] => sock[i] # NULL

\* recv fails only after a reset, so a server that is ended was ended by a client that
\* reset its connection or left before its echo.
OnlyRudeKills == ~alive => \E c \in Rude : client[c] = "left"
=============================================================================
