---------------------------- MODULE EchoClients ----------------------------
(***************************************************************************)
(* What the echo servers of 2.1 (select.c, poll.c, epoll.c) run against: the   *)
(* clients, and the kernel's side of their connections.  A client asks, waits  *)
(* for its bytes to come back, and may leave; each connects once.  A server    *)
(* module adds the program's own variables.                                   *)
(***************************************************************************)
EXTENDS Integers, FiniteSets

CONSTANTS
    Clients,
    Rude,         \* the clients that may leave before they are answered
    Listener,     \* the listening descriptor
    ConnFds,      \* the descriptors after it, taken lowest first
    MaxRequests,  \* bound: requests of a client
    NULL

\* What the constants are assumed to be: the kernel gives out descriptors without
\* gaps, and not without end.
EchoAssumption ==
    /\ Rude \subseteq Clients /\ NULL \notin Clients /\ MaxRequests \in Nat
    /\ Listener \in Nat /\ ConnFds \subseteq Nat /\ IsFiniteSet(ConnFds)
    /\ \A f \in ConnFds : f > Listener /\ Listener + 1 .. f \subseteq ConnFds

VARIABLES
    alive,      \* no signal has ended the server
    sock,       \* the client behind each open descriptor
    backlog,    \* the clients not accepted yet
    inq,        \* requests received and not read, of each client
    cut,        \* how the client's end of the connection stands
    asked, got, \* of each client: requests made, requests come back
    client      \* where the client is

clientVars == <<asked, got, client>>
world == <<alive, sock, backlog, inq, cut, clientVars>>

WorldInit == /\ alive = TRUE /\ sock = [f \in ConnFds |-> NULL] /\ backlog = {}
             /\ inq = [c \in Clients |-> 0] /\ cut = [c \in Clients |-> "no"]
             /\ asked = [c \in Clients |-> 0] /\ got = [c \in Clients |-> 0]
             /\ client = [c \in Clients |-> "away"]

Connect(c) == /\ alive /\ client[c] = "away"
              /\ client' = [client EXCEPT ![c] = "here"]
              /\ backlog' = backlog \cup {c}
              /\ UNCHANGED <<alive, sock, inq, cut, asked, got>>

Ask(c) == /\ client[c] = "here" /\ asked[c] < MaxRequests /\ got[c] = asked[c]
          /\ asked' = [asked EXCEPT ![c] = @ + 1]
          /\ inq' = [inq EXCEPT ![c] = @ + 1]
          /\ UNCHANGED <<alive, sock, backlog, cut, got, client>>

Leave(c) == /\ client[c] = "here"
            /\ (c \in Rude \/ got[c] = asked[c])
            /\ client' = [client EXCEPT ![c] = "left"]
            /\ \E how \in {"fin"} \cup (IF c \in Rude THEN {"reset"} ELSE {}) : cut' = [cut EXCEPT ![c] = how]
            /\ UNCHANGED <<alive, sock, backlog, inq, asked, got>>

\* The reset that answers what came after the client's FIN.
LateReset(c) == /\ cut[c] = "crossing"
                /\ cut' = [cut EXCEPT ![c] = "broken"]
                /\ UNCHANGED <<alive, sock, backlog, inq, clientVars>>

Peer(c) == Connect(c) \/ Ask(c) \/ Leave(c) \/ LateReset(c)

Readable(f) == IF f = Listener THEN backlog # {}
               ELSE sock[f] # NULL /\ (inq[sock[f]] > 0 \/ cut[sock[f]] # "no")

\* accept, of any client that waits
AcceptAs(f) == /\ sock[f] = NULL /\ \A g \in ConnFds : sock[g] = NULL => f <= g
               /\ \E c \in backlog : sock' = [sock EXCEPT ![f] = c] /\ backlog' = backlog \ {c}
               /\ UNCHANGED <<alive, inq, cut, clientVars>>

HasData(f) == sock[f] # NULL /\ inq[sock[f]] > 0
HasError(f) == ~HasData(f) /\ sock[f] # NULL /\ cut[sock[f]] \in {"reset", "broken"}
HasEnd(f) == ~HasData(f) /\ sock[f] # NULL /\ cut[sock[f]] \in {"fin", "crossing", "broken"}

\* A send on f: the first after a FIN brings a reset, the first after a reset
\* fails, and one after that ends the server with SIGPIPE.
SendOn(f, state) ==
    LET c == sock[f]
    IN /\ cut' = [cut EXCEPT ![c] = CASE state = "fin" -> "crossing" [] state = "reset" -> "broken"
                                     [] OTHER -> state]
       /\ alive' = (state # "broken")

\* recv of a request, and send of the same
EchoOn(f) == /\ HasData(f) /\ SendOn(f, cut[sock[f]])
             /\ inq' = [inq EXCEPT ![sock[f]] = 0]
             /\ got' = IF cut[sock[f]] = "no" THEN [got EXCEPT ![sock[f]] = @ + 1] ELSE got
             /\ UNCHANGED <<sock, backlog, asked, client>>

\* recv fails, which takes the error, and the send that follows all the same
ErrorOn(f) == /\ HasError(f) /\ SendOn(f, "broken")
              /\ UNCHANGED <<sock, backlog, inq, clientVars>>

CloseOn(f) == /\ sock' = [sock EXCEPT ![f] = NULL]
              /\ UNCHANGED <<alive, backlog, inq, cut, clientVars>>
=============================================================================
