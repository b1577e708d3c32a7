------------------------------ MODULE MCServers ------------------------------
(* The five servers of 2.1 in one instance: program says which                 *)
(* of them runs.  They share the kernel's and the clients' variables; what only *)
(* another server has does not change.  The echo servers count answers and keep    *)
(* their backlog as a set, so both have variables of their own here.            *)
EXTENDS Reactor

CONSTANTS Programs,      \* the programs that a run is about
          MoreFds,       \* the descriptors of select.c, poll.c and io.c: enough for all
          EchoRequests,  \* bound: requests of a client of an echo server
          Few            \* bound: the clients that come to select.c and poll.c

VARIABLES program,
          waiting, came,                          \* backlog and got of EchoClients
          rfds, rset, revents, used, lowReady,    \* select.c, poll.c
          maxfd, pc, i,
          watched,                                \* epoll.c
          clientfd, created, fd, buffer, overwritten  \* io.c

S == INSTANCE SelectServer
       WITH backlog <- waiting, got <- came, ConnFds <- MoreFds, MaxRequests <- EchoRequests
P == INSTANCE PollServer
       WITH backlog <- waiting, got <- came, ConnFds <- MoreFds, MaxRequests <- EchoRequests
E == INSTANCE EpollServer
       WITH backlog <- waiting, got <- came, MaxRequests <- EchoRequests

Io == INSTANCE IoThreads
        WITH backlog <- waiting, got <- came, ConnFds <- MoreFds, MaxRequests <- EchoRequests

ASSUME ServersAssumption ==
    /\ Programs \subseteq {"select", "poll", "epoll", "reactor", "io"}
    /\ S!EchoAssumption /\ P!EchoAssumption /\ E!EchoAssumption /\ Io!IoAssumption

reactorOnly == <<callback, sate, watch, backlog, pipe, got>>
echoOnly == <<waiting, came>>
loopOnly == <<maxfd, i>>
selectOnly == <<rfds, rset>>
pollOnly == <<revents, used, lowReady>>
ioOnly == <<clientfd, created, fd, buffer, overwritten>>
all == <<program, vars, echoOnly, loopOnly, pc, selectOnly, pollOnly, watched, ioOnly>>

FewCome == \A c \in Clients \ Few : client'[c] = "away"

\* A step of a program, which leaves what only others have.
InSelect(A) == program = "select" /\ A /\ FewCome
               /\ UNCHANGED <<program, reactorOnly, pollOnly, watched, batch, ioOnly>>
InPoll(A) == program = "poll" /\ A /\ FewCome
             /\ UNCHANGED <<program, reactorOnly, selectOnly, watched, batch, ioOnly>>
InEpoll(A) == program = "epoll" /\ A
              /\ UNCHANGED <<program, reactorOnly, selectOnly, pollOnly, loopOnly, pc, ioOnly>>
InReactor(A) == program = "reactor" /\ A
                /\ UNCHANGED <<program, echoOnly, selectOnly, pollOnly, loopOnly, pc, watched, ioOnly>>
InIo(A) == program = "io" /\ A
           /\ UNCHANGED <<program, reactorOnly, selectOnly, pollOnly, loopOnly, watched, batch>>

NoReactor == /\ callback = NULL /\ sate = NULL /\ watch = NULL /\ backlog = NULL
             /\ pipe = NULL /\ got = [c \in Clients |-> <<>>]
NoEcho == waiting = NULL /\ came = [c \in Clients |-> 0]
NoLoop == maxfd = NULL /\ i = NULL
NoSelect == rfds = NULL /\ rset = NULL
NoPoll == revents = NULL /\ used = NULL /\ lowReady = NULL

NoIo == clientfd = NULL /\ created = NULL /\ fd = NULL /\ buffer = NULL /\ overwritten = NULL

MCInit ==
    /\ program \in Programs
    /\ \/ /\ program = "select" /\ S!Init
          /\ NoReactor /\ NoPoll /\ watched = NULL /\ batch = NULL /\ NoIo
       \/ /\ program = "poll" /\ P!Init
          /\ NoReactor /\ NoSelect /\ watched = NULL /\ batch = NULL /\ NoIo
       \/ /\ program = "epoll" /\ E!Init
          /\ NoReactor /\ NoSelect /\ NoPoll /\ NoLoop /\ pc = NULL /\ NoIo
       \/ /\ program = "reactor" /\ Init
          /\ NoEcho /\ NoSelect /\ NoPoll /\ NoLoop /\ pc = NULL /\ watched = NULL /\ NoIo
       \/ /\ program = "io" /\ Io!Init
          /\ NoReactor /\ NoSelect /\ NoPoll /\ NoLoop /\ watched = NULL /\ batch = NULL

MCNext == InSelect(S!Next) \/ InPoll(P!Next) \/ InEpoll(E!Next) \/ InReactor(Next) \/ InIo(Io!Next)

MCServer == InSelect(S!Server) \/ InPoll(P!Server) \/ InEpoll(E!Server) \/ InReactor(Server)
MCRead(c) == InReactor(Read(c))
MCLeave(c) == InReactor(Leave(c)) \/ InEpoll(E!Leave(c) /\ UNCHANGED <<watched, batch>>)

MCSpec == MCInit /\ [][MCNext]_all

\* Of each program the fairness its own module states.
MCFairness == /\ WF_all(MCServer)
              /\ \A c \in Clients : WF_all(MCRead(c)) /\ WF_all(MCLeave(c))
              /\ WF_all(InIo(Io!Main)) /\ \A t \in Clients : WF_all(InIo(Io!Thread(t)))

MCFairSpec == MCSpec /\ MCFairness

-----------------------------------------------------------------------------
(* Properties, each of the program that runs.                              *)

\* A descriptor is handled while it is what the wait said of it: select.c and
\* poll.c read none that would block or is closed, and the event loops call back for
\* the connection the event was about, although descriptors are closed and
\* accepted again between the wait and the turn.
HandledInTime == /\ program = "select" => S!NeverBlocks
                 /\ program = "poll" => P!OpenOnly
                 /\ program = "epoll" => E!NoStaleDispatch
                 /\ program = "reactor" => NoStaleDispatch

\* What can end a server: never a client that waited for its answers, and in
\* select.c never the client accepted last; in io.c, unless clientfd was overwritten.
DeathHasCause == /\ program = "select" => S!KilledByOlder
                 /\ program = "poll" => P!OnlyRudeKills
                 /\ program = "epoll" => E!OnlyRudeKills
                 /\ program = "reactor" => OnlyRudeKills
                 /\ program = "io" => Io!OnlyRudeKills

\* reactor.c sends each header with its file.
AnswersWhole == program = "reactor" => ResponseWhole

\* io.c: as long as clientfd is not written under a thread that has it to read, no
\* two threads have one descriptor, and none has one that is another client's.
OneThreadEach == program = "io" => Io!OneThreadEach

\* Likewise nobody gets bytes of another client, or its own twice.
EchoOwn == program = "io" => Io!EchoOwn

\* Every request is answered: in the event loops unless its client leaves or the
\* server is ended, in select.c if nobody leaves and it is not of the client
\* accepted last.
Served == /\ program = "select" => S!OlderEchoed
          /\ program = "epoll" => E!Echoed
          /\ program = "reactor" => Answered

\* io.c: a client that waits for its bytes gets them, if clientfd is never written
\* too early and no other client ends the server.
EchoedInTime == program = "io" => Io!EchoedInTime
=============================================================================
