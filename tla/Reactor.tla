------------------------------ MODULE Reactor ------------------------------
(***************************************************************************)
(* The event-driven HTTP server of 2.1 (reactor.c, webserver.c, server.h): one *)
(* thread that waits for ready descriptors and calls back, for each, what      *)
(* conn_list keeps for it.  A request is answered in two calls of send_cb, the  *)
(* header and then the file, and sate says which comes next.                  *)
(*                                                                         *)
(* The kernel and the clients are modelled around it: the backlog, the lowest  *)
(* free descriptor, level-triggered epoll, the end of a connection and its     *)
(* errors.  The sockets block: the file goes out only when the client has      *)
(* taken what came before.  SIGPIPE is not handled, so it ends the server.     *)
(* A request fits in one segment and in rbuffer; several may be received by    *)
(* one recv.  index.html exists and does not change.                          *)
(***************************************************************************)
EXTENDS Integers, Sequences, FiniteSets, SequencesExt

CONSTANTS
    Clients,
    Rude,         \* the clients that may leave with answers due
    Eager,        \* bound: the clients that ask more than once, even before an answer
    Listener,     \* the listening descriptor
    ConnFds,      \* the descriptors left for connections
    MaxRequests,  \* bound: requests of a client
    NULL

ASSUME ReactorAssumption ==
    /\ Rude \subseteq Clients /\ Eager \subseteq Clients /\ NULL \notin Clients
    /\ ConnFds \subseteq Nat /\ IsFiniteSet(ConnFds) /\ Listener \in Nat \ ConnFds
    /\ MaxRequests \in Nat

Fds == ConnFds \cup {Listener}

VARIABLES
    alive,     \* no signal has ended the server
    batch,     \* the events of epoll_wait not handled yet; who is history
    callback,  \* r_action of conn_list
    sate,      \* sate of conn_list
    watch,     \* the interest list of epoll
    sock,      \* kernel: the client behind each open descriptor
    backlog,   \* kernel: connections not accepted yet
    inq,       \* kernel: requests received and not read, of each client
    cut,       \* kernel: how the client's end of the connection stands
    pipe,      \* what the client has not read yet
    got,       \* what the client has read
    asked,     \* requests the client made
    client     \* where the client is
    
server == <<batch, callback, sate, watch>>
kernel == <<sock, backlog, inq, cut>>
clientVars == <<got, asked, client>>
vars == <<alive, server, kernel, pipe, clientVars>>

Init == /\ alive = TRUE /\ batch = <<>>
        /\ callback = [f \in Fds |-> IF f = Listener THEN "accept" ELSE "none"]
        /\ sate = [f \in ConnFds |-> 0]
        /\ watch = [f \in Fds |-> IF f = Listener THEN {"IN"} ELSE {}]
        /\ sock = [f \in ConnFds |-> NULL] /\ backlog = <<>>
        /\ inq = [c \in Clients |-> 0] /\ cut = [c \in Clients |-> "no"]
        /\ pipe = [c \in Clients |-> <<>>] /\ got = [c \in Clients |-> <<>>]
        /\ asked = [c \in Clients |-> 0] /\ client = [c \in Clients |-> "away"]

-----------------------------------------------------------------------------
(* The clients and the network.                                            *)

Answers(c) == Cardinality({k \in DOMAIN got[c] : got[c][k] = "body"})

Connect(c) == /\ alive /\ client[c] = "away"
              /\ client' = [client EXCEPT ![c] = "here"]
              /\ backlog' = Append(backlog, c)
              /\ UNCHANGED <<alive, server, sock, inq, cut, pipe, got, asked>>

Ask(c) == /\ client[c] = "here" /\ asked[c] < MaxRequests
          /\ (asked[c] > 0 => c \in Eager)
          /\ asked' = [asked EXCEPT ![c] = @ + 1]
          /\ inq' = [inq EXCEPT ![c] = @ + 1]
          /\ UNCHANGED <<alive, server, sock, backlog, cut, pipe, got, client>>

Read(c) == /\ client[c] = "here" /\ pipe[c] # <<>>
           /\ got' = [got EXCEPT ![c] = Append(@, Head(pipe[c]))]
           /\ pipe' = [pipe EXCEPT ![c] = Tail(@)]
           /\ UNCHANGED <<alive, server, kernel, asked, client>>

\* A client that leaves with something unread resets the connection.
Leave(c) == /\ client[c] = "here"
            /\ \/ c \in Rude
               \/ Answers(c) = asked[c] /\ pipe[c] = <<>>
            /\ client' = [client EXCEPT ![c] = "left"]
            /\ cut' = [cut EXCEPT ![c] = IF pipe[c] = <<>> THEN "fin" ELSE "reset"]
            /\ pipe' = [pipe EXCEPT ![c] = <<>>]
            /\ UNCHANGED <<alive, server, sock, backlog, inq, got, asked>>

\* The reset that answers what came after the client's FIN.
LateReset(c) == /\ cut[c] = "crossing"
                /\ cut' = [cut EXCEPT ![c] = "broken"]
                /\ UNCHANGED <<alive, server, sock, backlog, inq, pipe, clientVars>>

-----------------------------------------------------------------------------
(* The loop.                                                               *)

Readable(f) == IF f = Listener THEN backlog # <<>>
               ELSE inq[sock[f]] > 0 \/ cut[sock[f]] # "no"

\* One part at least fits in the send buffer.
Writable(f) == f # Listener /\ Len(pipe[sock[f]]) < 2

Ready(f) == {e \in watch[f] : IF e = "IN" THEN Readable(f) ELSE Writable(f)}

Owner(f) == IF f = Listener THEN NULL ELSE sock[f]

\* epoll_wait: each ready descriptor once, in any order.
Wait == /\ alive /\ batch = <<>>
        /\ LET ready == {f \in Fds : Ready(f) # {}}
           IN /\ ready # {}
              /\ \E order \in SetToSeqs(ready) :
                    batch' = [i \in DOMAIN order |->
                                [fd |-> order[i], ev |-> Ready(order[i]), who |-> Owner(order[i])]]
        /\ UNCHANGED <<alive, callback, sate, watch, kernel, pipe, clientVars>>

\* The loop's two tests: EPOLLIN, then EPOLLOUT of the same event.
Handled(e) == LET left == Head(batch).ev \ {e}
              IN IF left = {} THEN Tail(batch) ELSE <<[Head(batch) EXCEPT !.ev = left]>> \o Tail(batch)

OnIn(f, what) == /\ alive /\ batch # <<>>
                 /\ Head(batch).fd = f /\ "IN" \in Head(batch).ev /\ callback[f] = what
                 /\ batch' = Handled("IN")

OnOut(f) == /\ alive /\ batch # <<>>
            /\ Head(batch).fd = f /\ Head(batch).ev = {"OUT"}
            /\ batch' = Handled("OUT")

\* set_event
Watch(f, e) == [watch EXCEPT ![f] = {e}]

-----------------------------------------------------------------------------
(* accept_cb *)

Accept == /\ OnIn(Listener, "accept")
          /\ \E f \in ConnFds :
                /\ sock[f] = NULL /\ \A g \in ConnFds : sock[g] = NULL => f <= g
                /\ sock' = [sock EXCEPT ![f] = Head(backlog)]
                /\ callback' = [callback EXCEPT ![f] = "recv"]
                /\ watch' = Watch(f, "IN")
          /\ backlog' = Tail(backlog)
          /\ UNCHANGED <<alive, sate, inq, cut, pipe, clientVars>>

\* No descriptor is left: accept fails, and the connection stays where it is.
AcceptFails == /\ OnIn(Listener, "accept")
               /\ \A f \in ConnFds : sock[f] # NULL
               /\ UNCHANGED <<alive, callback, sate, watch, kernel, pipe, clientVars>>

-----------------------------------------------------------------------------
(* recv_cb *)

\* http_request
http_request(f) == [sate EXCEPT ![f] = 0]

Recv(f) == /\ OnIn(f, "recv") /\ inq[sock[f]] > 0
           /\ inq' = [inq EXCEPT ![sock[f]] = 0]
           /\ watch' = Watch(f, "OUT")
           /\ sate' = http_request(f)
           /\ UNCHANGED <<alive, callback, sock, backlog, cut, pipe, clientVars>>

\* The end of the stream or an error: close, which also takes the descriptor
\* out of epoll, so that EPOLL_CTL_DEL finds nothing.
HangUp(f) == /\ OnIn(f, "recv") /\ inq[sock[f]] = 0
             /\ sock' = [sock EXCEPT ![f] = NULL]
             /\ watch' = [watch EXCEPT ![f] = {}]
             /\ UNCHANGED <<alive, callback, sate, backlog, inq, cut, pipe, clientVars>>

-----------------------------------------------------------------------------
(* send_cb *)

\* What a write to the connection of c comes to.
Write(c, part) ==
    /\ pipe' = [pipe EXCEPT ![c] = IF cut[c] = "no" THEN Append(@, part) ELSE @]
    /\ cut' = [cut EXCEPT ![c] = CASE @ = "fin" -> "crossing"
                                  [] @ = "reset" -> "broken"      \* ECONNRESET, once
                                  [] OTHER -> @]
    /\ alive' = (cut[c] # "broken")                               \* SIGPIPE

\* sate 0: http_response makes the header, and send_cb sends it.
SendHeader(f) == /\ OnOut(f) /\ sate[f] = 0
                 /\ Write(sock[f], "header")
                 /\ sate' = [sate EXCEPT ![f] = 1]
                 /\ watch' = Watch(f, "OUT")
                 /\ UNCHANGED <<callback, sock, backlog, inq, clientVars>>

\* Mutant: sate is not moved on, and the file is sent for ever.
SendFileAgain(f) == /\ OnOut(f) /\ sate[f] = 1
                    /\ cut[sock[f]] = "no" => pipe[sock[f]] = <<>>
                    /\ Write(sock[f], "body")
                    /\ watch' = Watch(f, "OUT")
                    /\ UNCHANGED <<callback, sate, sock, backlog, inq, clientVars>>

\* sate 1: http_response sends the file itself and ends in 2; so send_cb is
\* never entered in 2.
SendFile(f) == /\ OnOut(f) /\ sate[f] = 1
               /\ cut[sock[f]] = "no" => pipe[sock[f]] = <<>>
               /\ Write(sock[f], "body")
               /\ sate' = [sate EXCEPT ![f] = 2]
               /\ watch' = Watch(f, "IN")
               /\ UNCHANGED <<callback, sock, backlog, inq, clientVars>>

-----------------------------------------------------------------------------
Server == \/ Wait \/ Accept \/ AcceptFails
          \/ \E f \in ConnFds : Recv(f) \/ HangUp(f) \/ SendHeader(f) \/ SendFile(f)

Next == \/ Server
        \/ \E c \in Clients : Connect(c) \/ Ask(c) \/ Read(c) \/ Leave(c) \/ LateReset(c)

Spec == Init /\ [][Next]_vars

\* The server's thread runs; clients read what is sent and leave in the end.
Fairness == /\ WF_vars(Server)
            /\ \A c \in Clients : WF_vars(Read(c)) /\ WF_vars(Leave(c))

FairSpec == Spec /\ Fairness

-----------------------------------------------------------------------------
(* Properties.                                                             *)

\* A callback is called for the connection the event was about, although a
\* descriptor closed while a batch is handled may be accepted again before
\* the batch ends, and recv_cb may close it before the same event's EPOLLOUT.
NoStaleDispatch == \A i \in DOMAIN batch : Owner(batch[i].fd) = batch[i].who

\* The state that http_response goes by is reset by each request and not by a
\* new connection; still what a client gets is headers each with its file.
Whole(s) == \A i \in DOMAIN s : s[i] = IF i % 2 = 1 THEN "header" ELSE "body"
ResponseWhole == \A c \in Clients : Whole(got[c] \o pipe[c])

\* The server is ended only by a client that left before its answers came.
OnlyRudeKills == ~alive => \E c \in Clients : client[c] = "left" /\ Answers(c) < asked[c]

\* A client that waits for its answer gets it, unless another has ended the server.
Answered == \A c \in Clients \ (Eager \cup Rude) :
               asked[c] > Answers(c) ~> Answers(c) = asked[c] \/ ~alive
=============================================================================
