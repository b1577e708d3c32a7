----------------------------- MODULE IoThreads -----------------------------
(***************************************************************************)
(* The server of 2.1/io.c: a thread for each connection.  main gives every     *)
(* thread the address of one variable, clientfd, and writes the next           *)
(* descriptor into it when the next connection is accepted.                    *)
(*                                                                         *)
(* A thread is named by the client whose acceptance made it.  Requests are     *)
(* whole; the buffer stands for the client whose bytes it holds.  There are    *)
(* descriptors and threads enough.  SIGPIPE is not handled.                   *)
(***************************************************************************)
EXTENDS Integers, FiniteSets

CONSTANTS
    Clients,
    Rude,         \* the clients that may leave before they are answered
    ConnFds,      \* descriptors, taken lowest first
    MaxRequests,  \* bound: requests of a client
    NULL

\* What the constants are assumed to be.
IoAssumption == /\ Rude \subseteq Clients /\ NULL \notin Clients
                /\ ConnFds \subseteq Nat /\ MaxRequests \in Nat

VARIABLES
    alive,      \* no signal has ended the server
    clientfd,   \* main's variable
    created,    \* the client whose thread main is to create, or NULL
    pc, fd, buffer,   \* of each thread
    sock,       \* kernel: the client behind each open descriptor
    backlog,    \* kernel: the clients not accepted yet
    inq, cut,   \* kernel: requests to read, and the client's end
    asked, got, \* of each client: requests made, and whose bytes came back
    client,     \* where the client is
    overwritten \* history: clientfd was written while a thread had it to read

threadVars == <<pc, fd, buffer>>
clientVars == <<asked, got, client>>
vars == <<alive, clientfd, created, threadVars, sock, backlog, inq, cut, clientVars, overwritten>>

Init == /\ alive = TRUE /\ clientfd = NULL /\ created = NULL
        /\ pc = [c \in Clients |-> "none"] /\ fd = [c \in Clients |-> NULL]
        /\ buffer = [c \in Clients |-> NULL]
        /\ sock = [f \in ConnFds |-> NULL] /\ backlog = {}
        /\ inq = [c \in Clients |-> 0] /\ cut = [c \in Clients |-> "no"]
        /\ asked = [c \in Clients |-> 0]
        /\ got = [c \in Clients |-> [d \in Clients \cup {NULL} |-> 0]]
        /\ client = [c \in Clients |-> "away"] /\ overwritten = FALSE

-----------------------------------------------------------------------------
(* The clients and the network.                                            *)

Connect(c) == /\ alive /\ client[c] = "away"
              /\ client' = [client EXCEPT ![c] = "here"]
              /\ backlog' = backlog \cup {c}
              /\ UNCHANGED <<alive, clientfd, created, threadVars, sock, inq, cut, asked, got, overwritten>>

Ask(c) == /\ client[c] = "here" /\ asked[c] < MaxRequests /\ got[c][c] = asked[c]
          /\ asked' = [asked EXCEPT ![c] = @ + 1]
          /\ inq' = [inq EXCEPT ![c] = @ + 1]
          /\ UNCHANGED <<alive, clientfd, created, threadVars, sock, backlog, cut, got, client, overwritten>>

Leave(c) == /\ client[c] = "here"
            /\ (c \in Rude \/ got[c][c] = asked[c])
            /\ client' = [client EXCEPT ![c] = "left"]
            /\ \E how \in {"fin"} \cup (IF c \in Rude THEN {"reset"} ELSE {}) : cut' = [cut EXCEPT ![c] = how]
            /\ UNCHANGED <<alive, clientfd, created, threadVars, sock, backlog, inq, asked, got, overwritten>>

\* The reset that answers what came after the client's FIN.
LateReset(c) == /\ cut[c] = "crossing"
                /\ cut' = [cut EXCEPT ![c] = "broken"]
                /\ UNCHANGED <<alive, clientfd, created, threadVars, sock, backlog, inq, clientVars, overwritten>>

-----------------------------------------------------------------------------
(* main                                                                    *)

\* The next connection is accepted, whether or not the last thread has started.
Accept(c) == /\ alive /\ created = NULL /\ c \in backlog
             /\ \E f \in ConnFds :
                   /\ sock[f] = NULL /\ \A g \in ConnFds : sock[g] = NULL => f <= g
                   /\ sock' = [sock EXCEPT ![f] = c]
                   /\ clientfd' = f
             /\ created' = c
             /\ backlog' = backlog \ {c}
             /\ overwritten' = (overwritten \/ \E t \in Clients : pc[t] = "start")
             /\ UNCHANGED <<alive, threadVars, inq, cut, clientVars>>

Create == /\ alive /\ created # NULL
          /\ pc' = [pc EXCEPT ![created] = "start"]
          /\ created' = NULL
          /\ UNCHANGED <<alive, clientfd, fd, buffer, sock, backlog, inq, cut, clientVars, overwritten>>

-----------------------------------------------------------------------------
(* thread_func                                                             *)

At(t, label) == alive /\ pc[t] = label

Goto(t, label) == pc' = [pc EXCEPT ![t] = label]

\* Mutant: the threads read clientfd through the pointer at every call.
StartUnkept(t) == /\ At(t, "start") /\ Goto(t, "recv")
                  /\ fd' = [u \in Clients |-> clientfd]
                  /\ UNCHANGED <<alive, clientfd, created, buffer, sock, backlog, inq, cut, clientVars, overwritten>>

Start(t) == /\ At(t, "start") /\ Goto(t, "recv")
            /\ fd' = [fd EXCEPT ![t] = clientfd]
            /\ UNCHANGED <<alive, clientfd, created, buffer, sock, backlog, inq, cut, clientVars, overwritten>>

\* Mutant: the thread keeps what it read for a later turn.
RecvDataKeep(t) == /\ At(t, "recv") /\ sock[fd[t]] # NULL /\ inq[sock[fd[t]]] > 0
                   /\ Goto(t, "recv")
                   /\ buffer' = [buffer EXCEPT ![t] = sock[fd[t]]]
                   /\ inq' = [inq EXCEPT ![sock[fd[t]]] = 0]
                   /\ UNCHANGED <<alive, clientfd, created, fd, sock, backlog, cut, clientVars, overwritten>>

\* Bytes, an error (a closed descriptor, a reset), or the end of the stream:
\* only the last is looked at.
RecvData(t) == /\ At(t, "recv") /\ sock[fd[t]] # NULL /\ inq[sock[fd[t]]] > 0
               /\ Goto(t, "send")
               /\ buffer' = [buffer EXCEPT ![t] = sock[fd[t]]]
               /\ inq' = [inq EXCEPT ![sock[fd[t]]] = 0]
               /\ UNCHANGED <<alive, clientfd, created, fd, sock, backlog, cut, clientVars, overwritten>>

RecvError(t) == /\ At(t, "recv")
                /\ sock[fd[t]] # NULL => inq[sock[fd[t]]] = 0 /\ cut[sock[fd[t]]] \in {"reset", "broken"}
                /\ Goto(t, "send")
                /\ cut' = IF sock[fd[t]] = NULL THEN cut ELSE [cut EXCEPT ![sock[fd[t]]] = "broken"]
                /\ UNCHANGED <<alive, clientfd, created, fd, buffer, sock, backlog, inq, clientVars, overwritten>>

\* Mutant: the end of the stream is taken for bytes.
RecvEndData(t) == /\ At(t, "recv") /\ sock[fd[t]] # NULL
                  /\ inq[sock[fd[t]]] = 0 /\ cut[sock[fd[t]]] \in {"fin", "crossing", "broken"}
                  /\ Goto(t, "send")
                  /\ UNCHANGED <<alive, clientfd, created, fd, buffer, sock, backlog, inq, cut, clientVars, overwritten>>

RecvEnd(t) == /\ At(t, "recv") /\ sock[fd[t]] # NULL
              /\ inq[sock[fd[t]]] = 0 /\ cut[sock[fd[t]]] \in {"fin", "crossing", "broken"}
              /\ Goto(t, "close")
              /\ UNCHANGED <<alive, clientfd, created, fd, buffer, sock, backlog, inq, cut, clientVars, overwritten>>

\* The whole buffer goes to whoever is behind the descriptor now.
Send(t) == /\ At(t, "send") /\ Goto(t, "recv")
           /\ LET c == sock[fd[t]]
              IN IF c = NULL THEN UNCHANGED <<alive, got, cut>>
                 ELSE /\ got' = IF cut[c] = "no" THEN [got EXCEPT ![c][buffer[t]] = @ + 1] ELSE got
                      /\ cut' = [cut EXCEPT ![c] = CASE @ = "fin" -> "crossing"
                                                    [] @ = "reset" -> "broken"
                                                    [] OTHER -> @]
                      /\ alive' = (cut[c] # "broken")            \* SIGPIPE
           /\ UNCHANGED <<clientfd, created, fd, buffer, sock, backlog, inq, asked, client, overwritten>>

\* Mutant: the thread closes and goes on.
CloseGoOn(t) == /\ At(t, "close") /\ Goto(t, "recv")
                /\ sock' = [sock EXCEPT ![fd[t]] = NULL]
                /\ UNCHANGED <<alive, clientfd, created, fd, buffer, backlog, inq, cut, clientVars, overwritten>>

Close(t) == /\ At(t, "close") /\ Goto(t, "done")
            /\ sock' = [sock EXCEPT ![fd[t]] = NULL]
            /\ UNCHANGED <<alive, clientfd, created, fd, buffer, backlog, inq, cut, clientVars, overwritten>>

Thread(t) == Start(t) \/ RecvData(t) \/ RecvError(t) \/ RecvEnd(t) \/ Send(t) \/ Close(t)

Main == Create \/ \E c \in Clients : Accept(c)

Next == \/ Main
        \/ \E c \in Clients : Thread(c) \/ Connect(c) \/ Ask(c) \/ Leave(c) \/ LateReset(c)

Spec == Init /\ [][Next]_vars

Fairness == WF_vars(Main) /\ \A t \in Clients : WF_vars(Thread(t))

FairSpec == Spec /\ Fairness

-----------------------------------------------------------------------------
(* Properties.                                                             *)

\* Types of the state.
TypeOK == /\ alive \in BOOLEAN /\ clientfd \in ConnFds \cup {NULL} /\ created \in Clients \cup {NULL}
          /\ pc \in [Clients -> {"none", "start", "recv", "send", "close", "done"}]
          /\ fd \in [Clients -> ConnFds \cup {NULL}] /\ buffer \in [Clients -> Clients \cup {NULL}]
          /\ sock \in [ConnFds -> Clients \cup {NULL}] /\ backlog \subseteq Clients
          /\ inq \in [Clients -> 0..MaxRequests] /\ asked \in [Clients -> 0..MaxRequests]
          /\ cut \in [Clients -> {"no", "fin", "crossing", "reset", "broken"}]
          /\ got \in [Clients -> [Clients \cup {NULL} -> Nat]]
          /\ client \in [Clients -> {"away", "here", "left"}] /\ overwritten \in BOOLEAN

Running == {t \in Clients : pc[t] \in {"recv", "send", "close"}}

\* Unless clientfd was written under a thread that had it to read, no two threads
\* hold one descriptor, and none holds a descriptor that is closed or has
\* become another's: close in one thread never pulls it from another.
OneThreadEach == ~overwritten => \A t \in Running : sock[fd[t]] = t

\* Likewise nobody gets bytes of another client, or its own twice, although
\* descriptors are reused and the buffer is sent whole after an error.
EchoOwn == ~overwritten => \A c \in Clients : /\ \A d \in Clients \ {c} : got[c][d] = 0
                                             /\ got[c][c] <= asked[c]

\* Likewise the server is ended only by a client that reset its connection or left
\* before its echo: recv's error is not looked at, and the send after it kills.
OnlyRudeKills == ~alive => overwritten \/ \E c \in Rude : client[c] = "left"

\* A client that waits for its bytes gets them, if clientfd is never written too
\* early and no other client ends the server.
EchoedInTime == []~overwritten =>
    \A c \in Clients \ Rude : asked[c] > got[c][c] ~> got[c][c] >= asked[c] \/ ~alive
=============================================================================
