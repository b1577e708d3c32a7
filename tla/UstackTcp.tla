------------------------------ MODULE UstackTcp ------------------------------
(***************************************************************************)
(* The TCP half of the user-space stack, 2.4_ustack/tcp_from_king.c: the   *)
(* table of streams, the socket calls of the echo server's lcore           *)
(* (tcp_server_entry) and the packet lcore (pkt_process), which share the  *)
(* table with no lock.  The remote hosts and the wire are an environment.  *)
(*                                                                         *)
(* The initial state is the one after nsocket, nbind and nlisten.          *)
(*                                                                         *)
(* One port is listened on, so a client stands for the rest of a 4-tuple.  *)
(* Payload is counted in units, numbered in the order the client sends     *)
(* them.  Sequence numbers start at 0; the code only adds to and copies    *)
(* them, so nothing depends on their width.                                *)
(***************************************************************************)
EXTENDS LinkedList, Integers, FiniteSets

CONSTANTS Clients,     \* remote (address, port) pairs
          Streams,     \* addresses rte_malloc can return for a stream
          Listener,    \* the listening stream
          NULL,        \* no stream; also the (0, 0, 0) peer of the listener
          Fds,         \* descriptors the bitmap can give to connections
          ListenFd,    \* the descriptor of the listening stream
          BufLen,      \* the length of the buffer given to nrecv
          MaxSeg,      \* the longest payload of a segment
          MaxUnits,    \* bound: payload a client sends on a connection
          MaxConns,    \* bound: connections a client opens
          MaxFaults,   \* bound: segments the wire loses or duplicates
          Polite,      \* clients send or close only once all is echoed
          EpollReady   \* epoll reports only descriptors with work to do

ASSUME UstackAssumption ==
    /\ Listener \in Streams /\ IsFiniteSet(Streams)
    /\ NULL \notin Streams \cup Clients
    /\ Fds \subseteq Nat /\ IsFiniteSet(Fds) /\ 0 \notin Fds
    /\ ListenFd \in Nat \ Fds /\ ListenFd # 0
    /\ BufLen \in Nat \ {0} /\ MaxSeg \in 1 .. (2 * BufLen)
    /\ MaxUnits \in Nat /\ MaxConns \in Nat /\ MaxFaults \in Nat
    /\ Polite \in BOOLEAN /\ EpollReady \in BOOLEAN

VARIABLES
    tcb_set,             \* the table, head first
    status, fd, peer,    \* fields of each stream; peer is (sip, sport)
    snd_nxt, rcv_nxt,
    skipped,             \* history: units that came without PSH, and were dropped
    sndbuf, rcvbuf,      \* rings of segments, and of received payloads
    taken,               \* history: payload nrecv has given the application
    fd_table,            \* the bits set in the descriptor bitmap
    epoll,               \* descriptors registered with epoll
    apc, acall, afd,     \* the application lcore: place, call, its sockfd,
    acur, ahost,         \*   traversal cursor, stream found,
    abuf, afrag,         \*   payload received, fragment being sent
    cut,                 \* history: the traversal met a removed stream
    stray,               \* history: a lookup found a stream already closed
    ppc, pstream, pseg,  \* the packet lcore: place, stream, segment
    cst, csent, crcv,    \* a client: state, units sent, next sequence wanted,
    cgot, conns,         \*   payload received, connections opened,
    cmore,               \*   and whether it is in the middle of a write
    to_stack, to_client, \* the two directions of the wire, per client
    faults               \* losses and duplications so far

tableVars == <<tcb_set, status, fd, peer, fd_table>>
seqVars == <<snd_nxt, rcv_nxt, skipped>>
bufVars == <<sndbuf, rcvbuf, taken>>
callVars == <<acall, afd>>
cursorVars == <<acur, cut>>
hostVars == <<ahost, stray>>
localVars == <<hostVars, abuf, afrag>>
appVars == <<epoll, apc, callVars, cursorVars, localVars>>
pktVars == <<ppc, pstream, pseg>>
clientVars == <<cst, csent, crcv, cgot, conns, cmore>>
wireVars == <<to_stack, to_client, faults>>
envVars == <<clientVars, wireVars>>
stackVars == <<tableVars, seqVars, bufVars, appVars, pktVars>>
vars == <<stackVars, clientVars, wireVars>>

Statuses == {"FREE", "LISTEN", "SYN_RCVD", "ESTABLISHED", "CLOSE_WAIT",
             "LAST_ACK", "CLOSED"}

Flags == {"SYN", "ACK", "PSH", "FIN"}
Segments == [flags : SUBSET Flags, seq : Nat, ack : Nat, data : Seq(Nat)]
Segment(flags, seq, ack, data) ==
    [flags |-> flags, seq |-> seq, ack |-> ack, data |-> data]
NoSegment == Segment({}, 0, 0, <<>>)

Init ==
    /\ tcb_set = <<Listener>>
    /\ status = [s \in Streams |-> IF s = Listener THEN "LISTEN" ELSE "FREE"]
    /\ fd = [s \in Streams |-> IF s = Listener THEN ListenFd ELSE 0]
    /\ peer = [s \in Streams |-> NULL]
    /\ snd_nxt = [s \in Streams |-> 0] /\ rcv_nxt = [s \in Streams |-> 0]
    /\ skipped = [s \in Streams |-> 0]
    /\ sndbuf = [s \in Streams |-> <<>>] /\ rcvbuf = [s \in Streams |-> <<>>]
    /\ taken = [s \in Streams |-> <<>>]
    /\ fd_table = {ListenFd} /\ epoll = {ListenFd}
    /\ apc = "idle" /\ acall = "accept" /\ afd = ListenFd
    /\ acur = NULL /\ ahost = NULL /\ abuf = <<>> /\ afrag = NoSegment
    /\ cut = FALSE /\ stray = FALSE
    /\ ppc = "idle" /\ pstream = NULL /\ pseg = NoSegment
    /\ cst = [c \in Clients |-> "closed"]
    /\ csent = [c \in Clients |-> 0] /\ crcv = [c \in Clients |-> 0]
    /\ cgot = [c \in Clients |-> <<>>] /\ conns = [c \in Clients |-> 0]
    /\ cmore = [c \in Clients |-> FALSE]
    /\ to_stack = [c \in Clients |-> <<>>] /\ to_client = [c \in Clients |-> <<>>]
    /\ faults = 0

-----------------------------------------------------------------------------
(* Mutex, condition variable and rings of a stream.                        *)

\* pthread_mutex_lock by the application, held until it waits or unlocks
AppHolds(s) == ahost = s /\ apc \in {"accept-scan", "recv-take", "recv-sleep"}

\* Where a signal of stream s leaves the application.
Woken(s) == CASE ahost = s /\ apc = "accept-wait" -> "accept-lock"
              [] ahost = s /\ apc = "recv-wait" -> "recv-lock"
              [] OTHER -> apc

\* Mutant: the signal is sent without the mutex.
SignalUnlocked(s) == /\ apc' = Woken(s)
                     /\ UNCHANGED <<epoll, callVars, cursorVars, localVars>>

\* The packet lcore's lock; signal; unlock on stream s.
Signal(s) == /\ ~AppHolds(s)
             /\ apc' = Woken(s)
             /\ UNCHANGED <<epoll, callVars, cursorVars, localVars>>

\* A fragment of stream s, with the numbers that the stream has now
Fragment(s, flags, data) == Segment(flags, snd_nxt[s], rcv_nxt[s], data)
Enqueue(s, seg) == sndbuf' = [sndbuf EXCEPT ![s] = Append(@, seg)]

-----------------------------------------------------------------------------
(* The application lcore.                                                  *)

\* Mutant: the traversal skips the head of the table.
CallPastHead(call, f) ==
    /\ apc' = "find" /\ acall' = call /\ afd' = f /\ cut' = FALSE
    /\ acur' = Successor(First(tcb_set, NULL), tcb_set, NULL)

\* get_hostinfo_fromfd starts at the head of the table
Call(call, f) == /\ apc' = "find" /\ acall' = call /\ afd' = f
                 /\ acur' = First(tcb_set, NULL) /\ cut' = FALSE

\* What epoll_wait may report of f: external, see the README.
Reported(f) ==
    \/ ~EpollReady
    \/ f = ListenFd /\ \E s \in Members(tcb_set) :
                          fd[s] = -1 /\ status[s] \in {"ESTABLISHED", "CLOSE_WAIT"}
    \/ \E s \in Members(tcb_set) : fd[s] = f /\ rcvbuf[s] # <<>>

AppEvent(f) == /\ apc = "idle"
               /\ f \in epoll /\ Reported(f)
               /\ Call(IF f = ListenFd THEN "accept" ELSE "recv", f)
               /\ UNCHANGED <<tableVars, seqVars, bufVars, pktVars, envVars,
                              epoll, localVars>>

\* One step of a traversal of the table, not found at acur: go to its next
Advance == /\ acur' = Successor(acur, tcb_set, NULL)
           /\ cut' = (cut \/ acur \notin Members(tcb_set))

AppFindNext == /\ apc = "find" /\ acur # NULL /\ fd[acur] # afd
               /\ Advance
               /\ UNCHANGED <<tableVars, seqVars, bufVars, pktVars, envVars,
                              epoll, apc, callVars, localVars>>

AppFound == /\ apc = "find" /\ acur # NULL /\ fd[acur] = afd
            /\ ahost' = acur
            /\ stray' = (stray \/ status[acur] \in {"LAST_ACK", "CLOSED"})
            /\ apc' = CASE acall = "accept" -> "accept-lock"
                        [] acall = "recv" -> "recv-lock"
                        [] acall = "send" -> "send-build"
                        [] acall = "close" -> "close-build"
            /\ UNCHANGED <<tableVars, seqVars, bufVars, pktVars, envVars, epoll,
                           callVars, cursorVars, abuf, afrag>>

\* The call returns -1.  The loop takes a closed descriptor out of epoll even
\* so; after nrecv it calls nsend with the length -1, for which rte_malloc gives
\* no memory, so that nothing is sent whatever that lookup finds.
AppNotFound == /\ apc = "find" /\ acur = NULL
               /\ apc' = "idle"
               /\ epoll' = IF acall = "close" THEN epoll \ {afd} ELSE epoll
               /\ abuf' = <<>>
               /\ UNCHANGED <<tableVars, seqVars, bufVars, pktVars, envVars,
                              callVars, cursorVars, hostVars, afrag>>

\* Memory that was given back is not used: what follows is undefined.
Live(s) == s # NULL /\ status[s] # "FREE"

(* naccept *)

AcceptLock == /\ apc = "accept-lock" /\ Live(ahost)
              /\ apc' = "accept-scan"
              /\ acur' = First(tcb_set, NULL) /\ cut' = FALSE
              /\ UNCHANGED <<tableVars, seqVars, bufVars, pktVars, envVars, epoll,
                             callVars, localVars>>

\* get_accept_tcb: a stream of the port with no descriptor, in any state
AcceptScan == /\ apc = "accept-scan"
              /\ \/ /\ acur # NULL /\ fd[acur] # -1
                    /\ Advance
                    /\ UNCHANGED apc
                 \/ /\ acur # NULL /\ fd[acur] = -1
                    /\ apc' = "accept-assign"
                    /\ UNCHANGED cursorVars
                 \/ /\ acur = NULL
                    /\ apc' = "accept-wait"
                    /\ UNCHANGED cursorVars
              /\ UNCHANGED <<tableVars, seqVars, bufVars, pktVars, envVars, epoll,
                             callVars, localVars>>

\* Mutants: get_fd_frombitmap does not look at the bits; it starts at 0.
AnyFds == Fds
FdZero == 0

\* get_fd_frombitmap returns the lowest free descriptor, or -1
FreeFds == Fds \ fd_table
LowestFd == CHOOSE f \in FreeFds : \A g \in FreeFds : f <= g

AcceptAssign ==
    /\ apc = "accept-assign" /\ Live(acur)
    /\ IF FreeFds = {}
         THEN UNCHANGED <<fd, fd_table, epoll>>
         ELSE /\ fd' = [fd EXCEPT ![acur] = LowestFd]
              /\ fd_table' = fd_table \cup {LowestFd}
              /\ epoll' = epoll \cup {LowestFd}
    /\ apc' = "idle"
    /\ UNCHANGED <<tcb_set, status, peer, seqVars, bufVars, pktVars, envVars,
                   callVars, cursorVars, localVars>>

(* nrecv *)

RecvLock == /\ apc = "recv-lock" /\ Live(ahost)
            /\ apc' = "recv-take"
            /\ UNCHANGED <<tableVars, seqVars, bufVars, pktVars, envVars, epoll,
                           callVars, cursorVars, localVars>>

\* The ring is empty.  The packet lcore may fill it before the wait begins, but
\* cannot signal: the mutex is held until then.
RecvEmpty == /\ apc = "recv-take" /\ rcvbuf[ahost] = <<>>
             /\ apc' = "recv-sleep"
             /\ UNCHANGED <<tableVars, seqVars, bufVars, pktVars, envVars, epoll,
                            callVars, cursorVars, localVars>>

RecvWait == /\ apc = "recv-sleep"
            /\ apc' = "recv-wait"
            /\ UNCHANGED <<tableVars, seqVars, bufVars, pktVars, envVars, epoll,
                           callVars, cursorVars, localVars>>

\* Mutant: a payload that just fits is taken for one that does not.
ReturnedNone(data) == IF Len(data) >= BufLen THEN SubSeq(data, 1, Len(data) - BufLen)
                                             ELSE data

\* A payload longer than the buffer: the length returned is what remains of
\* it, so that many units of the buffer are what the caller sees.
Returned(data) == IF Len(data) > BufLen THEN SubSeq(data, 1, Len(data) - BufLen)
                                        ELSE data
Remainder(data) == SubSeq(data, BufLen + 1, Len(data))

RecvTake == /\ apc = "recv-take" /\ rcvbuf[ahost] # <<>>
            /\ LET data == Head(rcvbuf[ahost])
               IN  /\ abuf' = data
                   /\ taken' = [taken EXCEPT ![ahost] = @ \o Returned(data)]
                   /\ apc' = IF Len(data) > BufLen THEN "recv-requeue" ELSE "recv-done"
            /\ rcvbuf' = [rcvbuf EXCEPT ![ahost] = Tail(@)]
            /\ UNCHANGED <<tableVars, seqVars, sndbuf, pktVars, envVars, epoll,
                           callVars, cursorVars, hostVars, afrag>>

\* The remainder goes to the tail of the ring, after the mutex is released.
RecvRequeue == /\ apc = "recv-requeue" /\ Live(ahost)
               /\ rcvbuf' = [rcvbuf EXCEPT ![ahost] = Append(@, Remainder(abuf))]
               /\ apc' = "recv-done"
               /\ UNCHANGED <<tableVars, seqVars, sndbuf, taken, pktVars, envVars,
                              epoll, callVars, cursorVars, localVars>>

\* The loop echoes what nrecv returned; a return of 0 is a disconnection.
RecvDone == /\ apc = "recv-done"
            /\ Call(IF abuf = <<>> THEN "close" ELSE "send", afd)
            /\ abuf' = Returned(abuf)
            /\ UNCHANGED <<tableVars, seqVars, bufVars, pktVars, envVars, epoll,
                           hostVars, afrag>>

(* nsend: the numbers are read into the fragment, which is then enqueued.  *)

SendBuild ==
    /\ apc = "send-build" /\ Live(ahost)
    /\ afrag' = Fragment(ahost, {"ACK", "PSH"}, abuf)
    /\ apc' = "send-enqueue"
    /\ UNCHANGED <<tableVars, seqVars, bufVars, pktVars, envVars, epoll, callVars,
                   cursorVars, hostVars, abuf>>

SendEnqueue ==
    /\ apc = "send-enqueue" /\ Live(ahost)
    /\ Enqueue(ahost, afrag)
    /\ apc' = "idle" /\ afrag' = NoSegment /\ abuf' = <<>>
    /\ UNCHANGED <<tableVars, seqVars, rcvbuf, taken, pktVars, envVars, epoll,
                   callVars, cursorVars, hostVars>>

(* nclose, of a connection.  Its branch for a stream in LISTEN is left out: *)
(* ImplementsLifecycle shows that it is not taken before a stray lookup.   *)

CloseBuild ==
    /\ apc = "close-build" /\ Live(ahost)
    /\ afrag' = Fragment(ahost, {"ACK", "FIN"}, <<>>)
    /\ apc' = "close-fin"
    /\ UNCHANGED <<tableVars, seqVars, bufVars, pktVars, envVars, epoll, callVars,
                   cursorVars, hostVars, abuf>>

\* Mutant: the status is set first, and the stream used after it.
CloseFinLate == /\ apc = "close-fin" /\ Live(ahost)
                /\ status' = [status EXCEPT ![ahost] = "LAST_ACK"]
                /\ apc' = "close-status"
                /\ UNCHANGED <<tcb_set, fd, peer, fd_table, seqVars, bufVars, pktVars,
                               envVars, epoll, callVars, cursorVars, localVars>>

CloseFin == /\ apc = "close-fin" /\ Live(ahost)
            /\ Enqueue(ahost, afrag)
            /\ apc' = "close-status" /\ afrag' = NoSegment
            /\ UNCHANGED <<tableVars, seqVars, rcvbuf, taken, pktVars, envVars,
                           epoll, callVars, cursorVars, hostVars, abuf>>

CloseStatus == /\ apc = "close-status" /\ Live(ahost)
               /\ status' = [status EXCEPT ![ahost] = "LAST_ACK"]
               /\ apc' = "close-fd"
               /\ UNCHANGED <<tcb_set, fd, peer, fd_table, seqVars, bufVars,
                              pktVars, envVars, epoll, callVars, cursorVars,
                              localVars>>

\* set_fd_frombitmap, then EPOLL_CTL_DEL by the loop
CloseFd == /\ apc = "close-fd"
           /\ fd_table' = fd_table \ {afd}
           /\ epoll' = epoll \ {afd}
           /\ apc' = "idle"
           /\ UNCHANGED <<tcb_set, status, fd, peer, seqVars, bufVars, pktVars,
                          envVars, callVars, cursorVars, localVars>>

App == \/ \E f \in Fds \cup {ListenFd} : AppEvent(f)
       \/ AppFindNext \/ AppFound \/ AppNotFound
       \/ AcceptLock \/ AcceptScan \/ AcceptAssign
       \/ RecvLock \/ RecvEmpty \/ RecvWait \/ RecvTake \/ RecvRequeue \/ RecvDone
       \/ SendBuild \/ SendEnqueue
       \/ CloseBuild \/ CloseFin \/ CloseStatus \/ CloseFd

-----------------------------------------------------------------------------
(* The packet lcore.                                                       *)

\* Mutant: only listening streams are looked for.
SearchListening(c) ==
    FirstIn({s \in Members(tcb_set) : status[s] = "LISTEN"}, tcb_set, NULL)

\* ng_tcp_stream_search: the exact 4-tuple first, then a listening stream
Search(c) ==
    LET exact == {s \in Members(tcb_set) : peer[s] = c}
        listening == {s \in Members(tcb_set) : status[s] = "LISTEN"}
    IN  FirstIn(IF exact # {} THEN exact ELSE listening, tcb_set, NULL)

\* ng_tcp_process takes the next segment of client c; s is the stream found
Process(c, s) == /\ ppc = "idle" /\ to_stack[c] # <<>>
                 /\ s = Search(c)
                 /\ pseg' = Head(to_stack[c])
                 /\ to_stack' = [to_stack EXCEPT ![c] = Tail(@)]
                 /\ UNCHANGED <<appVars, clientVars, to_client, faults>>

Has(flag, c) == flag \in Head(to_stack[c]).flags

\* No stream is found, or the handler of its status ignores the segment.
Ignored(c, s) ==
    \/ s = NULL
    \/ /\ s # NULL
       /\ CASE status[s] = "LISTEN" -> ~Has("SYN", c)
            [] status[s] = "ESTABLISHED" -> ~Has("PSH", c) /\ ~Has("FIN", c)
            [] status[s] \in {"SYN_RCVD", "LAST_ACK"} -> ~Has("ACK", c)
            [] OTHER -> TRUE

\* The payload of a segment without PSH is neither taken, counted nor acked.
PktIgnore(c, s) ==
    /\ Process(c, s) /\ Ignored(c, s)
    /\ skipped' = IF s # NULL /\ status[s] = "ESTABLISHED"
                    THEN [skipped EXCEPT ![s] = @ + Len(pseg'.data)] ELSE skipped
    /\ UNCHANGED <<tableVars, snd_nxt, rcv_nxt, bufVars, ppc, pstream>>

\* ng_tcp_handle_listen: ng_tcp_stream_create and LL_ADD make a stream that the
\* application can see, still in LISTEN; then the SYN|ACK and SYN_RCVD
PktListen(c, s) ==
    /\ Process(c, s) /\ ~Ignored(c, s)
    /\ status[s] = "LISTEN"
    /\ \E syn \in {x \in Streams : status[x] = "FREE"} :
         /\ tcb_set' = Insert(syn, tcb_set)
         /\ status' = [status EXCEPT ![syn] = "LISTEN"]
         /\ fd' = [fd EXCEPT ![syn] = -1]
         /\ peer' = [peer EXCEPT ![syn] = c]
         /\ snd_nxt' = [snd_nxt EXCEPT ![syn] = 0]
         /\ taken' = [taken EXCEPT ![syn] = <<>>]
         /\ skipped' = [skipped EXCEPT ![syn] = 0]
         /\ pstream' = syn
    /\ ppc' = "synack"
    /\ UNCHANGED <<fd_table, rcv_nxt, sndbuf, rcvbuf>>

PktSynAck ==
    /\ ppc = "synack"
    /\ LET ack == pseg.seq + 1
       IN  /\ rcv_nxt' = [rcv_nxt EXCEPT ![pstream] = ack]
           /\ sndbuf' = [sndbuf EXCEPT ![pstream] =
                           Append(@, Segment({"SYN", "ACK"}, snd_nxt[pstream], ack, <<>>))]
    /\ status' = [status EXCEPT ![pstream] = "SYN_RCVD"]
    /\ ppc' = "idle"
    /\ UNCHANGED <<tcb_set, fd, peer, fd_table, snd_nxt, skipped, rcvbuf, taken, appVars,
                   pstream, pseg, envVars>>

\* ng_tcp_handle_syn_rcvd: any ACK establishes; then the listener is signalled
PktSynRcvd(c, s) ==
    /\ Process(c, s) /\ ~Ignored(c, s)
    /\ status[s] = "SYN_RCVD"
    /\ status' = [status EXCEPT ![s] = "ESTABLISHED"]
    /\ pstream' = s /\ ppc' = "accept"
    /\ UNCHANGED <<tcb_set, fd, peer, fd_table, seqVars, bufVars>>

PktAccept ==
    /\ ppc = "accept"
    /\ Search(NULL) # NULL
    /\ Signal(Search(NULL))
    /\ ppc' = "idle"
    /\ UNCHANGED <<tableVars, seqVars, bufVars, pstream, pseg, envVars>>

\* ng_tcp_handle_established: data is queued, signalled, counted and acked, and
\* the same for a FIN, which sets CLOSE_WAIT first
PktEstablished(c, s) ==
    /\ Process(c, s) /\ ~Ignored(c, s)
    /\ status[s] = "ESTABLISHED"
    /\ pstream' = s
    /\ ppc' = IF Has("PSH", c) THEN "enqueue" ELSE "fin"
    /\ UNCHANGED <<tableVars, seqVars, bufVars>>

\* Mutant: the status is not set before the application is told.
PktFinLate == /\ ppc = "fin"
              /\ ppc' = "fin-enqueue"
              /\ UNCHANGED <<tableVars, seqVars, bufVars, appVars, pstream, pseg,
                             envVars>>

PktFin == /\ ppc = "fin"
          /\ status' = [status EXCEPT ![pstream] = "CLOSE_WAIT"]
          /\ ppc' = "fin-enqueue"
          /\ UNCHANGED <<tcb_set, fd, peer, fd_table, seqVars, bufVars, appVars,
                         pstream, pseg, envVars>>

\* Mutant: a fragment without payload is not queued.
PktEnqueueData ==
    /\ ppc \in {"enqueue", "fin-enqueue"}
    /\ rcvbuf' = [rcvbuf EXCEPT ![pstream] =
                    IF ppc = "enqueue" THEN Append(@, pseg.data) ELSE @]
    /\ ppc' = IF ppc = "enqueue" THEN "signal" ELSE "fin-signal"
    /\ UNCHANGED <<tableVars, seqVars, sndbuf, taken, appVars, pstream, pseg,
                   envVars>>

PktEnqueue ==
    /\ ppc \in {"enqueue", "fin-enqueue"}
    /\ rcvbuf' = [rcvbuf EXCEPT ![pstream] =
                    Append(@, IF ppc = "enqueue" THEN pseg.data ELSE <<>>)]
    /\ ppc' = IF ppc = "enqueue" THEN "signal" ELSE "fin-signal"
    /\ UNCHANGED <<tableVars, seqVars, sndbuf, taken, appVars, pstream, pseg,
                   envVars>>

PktSignal == /\ ppc \in {"signal", "fin-signal"}
             /\ Signal(pstream)
             /\ ppc' = IF ppc = "signal" THEN "count" ELSE "fin-count"
             /\ UNCHANGED <<tableVars, seqVars, bufVars, pstream, pseg, envVars>>

\* Mutant: one too many is counted, as for a segment that carries a SYN.
PktCountOneMore ==
    /\ ppc \in {"count", "fin-count"}
    /\ rcv_nxt' = [rcv_nxt EXCEPT ![pstream] = @ + Len(pseg.data) + 1]
    /\ snd_nxt' = [snd_nxt EXCEPT ![pstream] = pseg.ack]
    /\ ppc' = IF ppc = "count" THEN "ack" ELSE "fin-ack"
    /\ UNCHANGED <<tableVars, skipped, bufVars, appVars, pstream, pseg, envVars>>

PktCount ==
    /\ ppc \in {"count", "fin-count"}
    /\ rcv_nxt' = [rcv_nxt EXCEPT ![pstream] =
                     @ + IF ppc = "count" THEN Len(pseg.data) ELSE 1]
    /\ snd_nxt' = [snd_nxt EXCEPT ![pstream] = pseg.ack]
    /\ ppc' = IF ppc = "count" THEN "ack" ELSE "fin-ack"
    /\ UNCHANGED <<tableVars, skipped, bufVars, appVars, pstream, pseg, envVars>>

PktAck == /\ ppc \in {"ack", "fin-ack"}
          /\ Enqueue(pstream, Fragment(pstream, {"ACK"}, <<>>))
          /\ ppc' = IF ppc = "ack" /\ "FIN" \in pseg.flags THEN "fin" ELSE "idle"
          /\ UNCHANGED <<tableVars, seqVars, rcvbuf, taken, appVars, pstream,
                         pseg, envVars>>

\* ng_tcp_handle_last_ack: any ACK; the stream leaves the table and is freed
PktLastAck(c, s) ==
    /\ Process(c, s) /\ ~Ignored(c, s)
    /\ status[s] = "LAST_ACK"
    /\ status' = [status EXCEPT ![s] = "CLOSED"]
    /\ tcb_set' = Delete(s, tcb_set)
    /\ pstream' = s /\ ppc' = "free"
    /\ UNCHANGED <<fd, peer, fd_table, seqVars, bufVars>>

\* rte_free clears what it is given
PktFree == /\ ppc = "free"
           /\ status' = [status EXCEPT ![pstream] = "FREE"]
           /\ fd' = [fd EXCEPT ![pstream] = 0]
           /\ peer' = [peer EXCEPT ![pstream] = NULL]
           /\ sndbuf' = [sndbuf EXCEPT ![pstream] = <<>>]
           /\ rcvbuf' = [rcvbuf EXCEPT ![pstream] = <<>>]
           /\ ppc' = "idle"
           /\ UNCHANGED <<tcb_set, fd_table, seqVars, taken, appVars, pstream,
                          pseg, envVars>>

\* ng_tcp_out: one fragment of each stream with something to send
Sending == {s \in Members(tcb_set) : sndbuf[s] # <<>>}

PktOut ==
    /\ ppc = "idle" /\ Sending # {}
    /\ sndbuf' = [s \in Streams |-> IF s \in Sending THEN Tail(sndbuf[s]) ELSE sndbuf[s]]
    /\ to_client' = [c \in Clients |->
          IF \E s \in Sending : peer[s] = c
            THEN Append(to_client[c], Head(sndbuf[CHOOSE s \in Sending : peer[s] = c]))
            ELSE to_client[c]]
    /\ UNCHANGED <<tableVars, seqVars, rcvbuf, taken, appVars, pktVars,
                   clientVars, to_stack, faults>>

PktRecv(c) == \E s \in Streams \cup {NULL} :
                 \/ PktIgnore(c, s) \/ PktListen(c, s) \/ PktSynRcvd(c, s)
                 \/ PktEstablished(c, s) \/ PktLastAck(c, s)

PktContinue == \/ PktSynAck \/ PktAccept \/ PktFin \/ PktEnqueue \/ PktSignal
               \/ PktCount \/ PktAck \/ PktFree

-----------------------------------------------------------------------------
(* The remote hosts: a standard TCP client, and the wire.                  *)

Transmit(c, flags, seq, data) ==
    to_stack' = [to_stack EXCEPT ![c] =
                   Append(@, Segment(flags, seq, crcv'[c], data))]

Echoed(c) == Len(cgot[c]) = csent[c]

ClientConnect(c) ==
    /\ cst[c] = "closed" /\ conns[c] < MaxConns
    /\ conns' = [conns EXCEPT ![c] = @ + 1]
    /\ cst' = [cst EXCEPT ![c] = "syn_sent"]
    /\ csent' = [csent EXCEPT ![c] = 0]
    /\ crcv' = [crcv EXCEPT ![c] = 0]
    /\ cgot' = [cgot EXCEPT ![c] = <<>>]
    /\ cmore' = [cmore EXCEPT ![c] = FALSE]
    /\ Transmit(c, {"SYN"}, 0, <<>>)
    /\ UNCHANGED <<stackVars, to_client, faults>>

\* The client writes one segment or more: TCP sets PSH on the last segment of a
\* write only (on all of them where each is a write).
ClientSend(c) ==
    /\ cst[c] = "estab" /\ (cmore[c] \/ (Polite => Echoed(c)))
    /\ \E n \in 1 .. MaxSeg, push \in BOOLEAN :
         /\ csent[c] + n <= MaxUnits - (IF push THEN 0 ELSE 1)
         /\ csent' = [csent EXCEPT ![c] = @ + n]
         /\ cmore' = [cmore EXCEPT ![c] = ~push]
         /\ UNCHANGED <<cst, crcv, cgot, conns>>
         /\ Transmit(c, IF push THEN {"ACK", "PSH"} ELSE {"ACK"}, csent[c] + 1,
                     [i \in 1 .. n |-> csent[c] + i])
    /\ UNCHANGED <<stackVars, to_client, faults>>

\* The FIN is a segment of its own.
ClientClose(c) ==
    /\ cst[c] = "estab" /\ ~cmore[c] /\ (Polite => Echoed(c))
    /\ cst' = [cst EXCEPT ![c] = "fin_wait"]
    /\ UNCHANGED <<csent, crcv, cgot, conns, cmore>>
    /\ Transmit(c, {"ACK", "FIN"}, csent[c] + 1, <<>>)
    /\ UNCHANGED <<stackVars, to_client, faults>>

\* A segment arrives at the client: SYN|ACK opens, payload that continues what
\* it has is taken, a FIN in sequence ends the connection, and whatever occupies
\* sequence numbers is acked.
ClientRecv(c) ==
    /\ to_client[c] # <<>>
    /\ to_client' = [to_client EXCEPT ![c] = Tail(@)]
    /\ LET seg == Head(to_client[c])
           past == crcv[c] - seg.seq
           new == IF past \in 0 .. Len(seg.data)
                    THEN SubSeq(seg.data, past + 1, Len(seg.data)) ELSE <<>>
           fin == "FIN" \in seg.flags /\ past = Len(seg.data)
       IN  \/ /\ cst[c] = "syn_sent" /\ "SYN" \in seg.flags
              /\ cst' = [cst EXCEPT ![c] = "estab"]
              /\ crcv' = [crcv EXCEPT ![c] = seg.seq + 1]
              /\ Transmit(c, {"ACK"}, 1, <<>>)
              /\ UNCHANGED <<csent, cgot, conns, cmore>>
           \/ /\ cst[c] \in {"estab", "fin_wait"} /\ seg.flags # {"ACK"}
              /\ cst' = [cst EXCEPT ![c] = IF fin THEN "closed" ELSE @]
              /\ crcv' = [crcv EXCEPT ![c] = @ + Len(new) + IF fin THEN 1 ELSE 0]
              /\ cgot' = [cgot EXCEPT ![c] = @ \o new]
              /\ Transmit(c, {"ACK"}, csent[c] + IF cst[c] = "estab" THEN 1 ELSE 2, <<>>)
              /\ UNCHANGED <<csent, conns, cmore>>
           \/ /\ \/ cst[c] = "closed"
                 \/ cst[c] = "syn_sent" /\ "SYN" \notin seg.flags
                 \/ cst[c] \in {"estab", "fin_wait"} /\ seg.flags = {"ACK"}
              /\ UNCHANGED <<clientVars, to_stack>>
    /\ UNCHANGED <<stackVars, faults>>

Client(c) == ClientConnect(c) \/ ClientSend(c) \/ ClientClose(c) \/ ClientRecv(c)

\* A segment is lost (or fails ng_tcp_process's checksum), or arrives again
\* behind those already under way, as a retransmission does.
WireLose(c) == /\ faults < MaxFaults /\ faults' = faults + 1
               /\ \/ /\ to_stack[c] # <<>>
                     /\ to_stack' = [to_stack EXCEPT ![c] = Tail(@)]
                     /\ UNCHANGED to_client
                  \/ /\ to_client[c] # <<>>
                     /\ to_client' = [to_client EXCEPT ![c] = Tail(@)]
                     /\ UNCHANGED to_stack
               /\ UNCHANGED <<stackVars, clientVars>>

WireDuplicate(c) == /\ faults < MaxFaults /\ faults' = faults + 1
                    /\ to_stack[c] # <<>>
                    /\ to_stack' = [to_stack EXCEPT ![c] = Append(@, Head(@))]
                    /\ UNCHANGED <<stackVars, clientVars, to_client>>

-----------------------------------------------------------------------------
Next == \/ App
        \/ PktContinue \/ PktOut
        \/ \E c \in Clients : \/ PktRecv(c) \/ Client(c)
                              \/ WireLose(c) \/ WireDuplicate(c)

Spec == Init /\ [][Next]_vars

\* The lcores run for ever: pkt_process alternates bursts of packets from a FIFO
\* ring with a pass over the send rings, so it neglects neither; a client's TCP
\* answers what it receives.  Nobody has to connect, send or close.
Fairness == /\ WF_vars(App) /\ WF_vars(PktContinue) /\ SF_vars(PktOut)
            /\ \A c \in Clients : SF_vars(PktRecv(c)) /\ WF_vars(ClientRecv(c))

FairSpec == Spec /\ Fairness

-----------------------------------------------------------------------------
(* Properties.                                                             *)

AppPlaces == {"idle", "find", "accept-lock", "accept-scan", "accept-wait",
              "accept-assign", "recv-lock", "recv-take", "recv-sleep",
              "recv-wait", "recv-requeue", "recv-done", "send-build", "send-enqueue",
              "close-build", "close-fin", "close-status", "close-fd"}
PktPlaces == {"idle", "synack", "accept", "enqueue", "signal", "count", "ack", "fin",
              "fin-enqueue", "fin-signal", "fin-count", "fin-ack", "free"}

TableOK ==
    /\ tcb_set \in Seq(Streams)
    /\ status \in [Streams -> Statuses]
    /\ fd \in [Streams -> Fds \cup {ListenFd, -1, 0}]
    /\ peer \in [Streams -> Clients \cup {NULL}]
    /\ fd_table \subseteq Fds \cup {ListenFd}
BuffersOK ==
    /\ snd_nxt \in [Streams -> Nat] /\ rcv_nxt \in [Streams -> Nat]
    /\ skipped \in [Streams -> Nat]
    /\ sndbuf \in [Streams -> Seq(Segments)]
    /\ rcvbuf \in [Streams -> Seq(Seq(Nat))] /\ taken \in [Streams -> Seq(Nat)]
AppOK ==
    /\ epoll \subseteq Fds \cup {ListenFd}
    /\ apc \in AppPlaces /\ acall \in {"accept", "recv", "send", "close"}
    /\ afd \in Fds \cup {ListenFd}
    /\ acur \in Streams \cup {NULL} /\ ahost \in Streams \cup {NULL}
    /\ abuf \in Seq(Nat) /\ afrag \in Segments
    /\ cut \in BOOLEAN /\ stray \in BOOLEAN
PktOK == ppc \in PktPlaces /\ pstream \in Streams \cup {NULL} /\ pseg \in Segments
ClientOK ==
    /\ cst \in [Clients -> {"closed", "syn_sent", "estab", "fin_wait"}]
    /\ csent \in [Clients -> 0 .. MaxUnits] /\ crcv \in [Clients -> Nat]
    /\ cgot \in [Clients -> Seq(Nat)] /\ conns \in [Clients -> 0 .. MaxConns]
    /\ cmore \in [Clients -> BOOLEAN]
WireOK ==
    /\ to_stack \in [Clients -> Seq(Segments)]
    /\ to_client \in [Clients -> Seq(Segments)]
    /\ faults \in 0 .. MaxFaults

\* Types of the table, of the two lcores, of the clients and of the wire.
TypeOK == TableOK /\ BuffersOK /\ AppOK /\ PktOK /\ ClientOK /\ WireOK

Table == Members(tcb_set)

\* ng_tcp_stream_search sends a repeated SYN to the stream it already made, so
\* whatever the wire repeats there is one stream for a 4-tuple, and every stream
\* the application can reach is in memory it may use.
OneStreamPerPeer ==
    /\ \A s, t \in Table : peer[s] = peer[t] => s = t
    /\ \A s \in Table : status[s] \notin {"FREE", "CLOSED"}

\* naccept looks for a stream under the listener's mutex and the packet lcore
\* signals under it, so the application does not sleep while an established
\* connection has no descriptor, unless a stream was removed under its
\* traversal, which then ended early.
AcceptNotMissed ==
    apc = "accept-wait" /\ ~cut /\ ppc # "accept" =>
        \A s \in Table : ~(fd[s] = -1 /\ status[s] \in {"ESTABLISHED", "CLOSE_WAIT"})

\* nrecv sleeps on an empty ring, and whoever fills the ring then signals.
RecvNotMissed ==
    apc = "recv-wait" /\ rcvbuf[ahost] # <<>> =>
        pstream = ahost /\ ppc \in {"signal", "fin-signal"}

\* A descriptor names one stream that is not being closed, and its bit is set:
\* get_fd_frombitmap does not hand out a descriptor somebody still uses.  (Until
\* a lookup goes astray: see FoundStreamLive.)
FdNamesOne ==
    ~stray =>
        /\ \A s, t \in Table :
              /\ fd[s] = fd[t] /\ fd[s] # -1
              /\ "LAST_ACK" \notin {status[s], status[t]}
              => s = t
        /\ \A s \in Table :
              fd[s] # -1 /\ status[s] # "LAST_ACK" => fd[s] \in fd_table

\* The stream that a lookup or get_accept_tcb has found is not given back while the
\* call works on it.  (The walks that look for it are not meant: they take no
\* lock, so the stream under the cursor may be freed, and its fd and next read
\* once more; AcceptNotMissed and LookupFindsOpen say what such a walk misses.)
\* nclose clears the bit of a descriptor but not the fd of its stream, so once
\* naccept has given the descriptor to another stream a lookup may find the
\* closed one: the promise ends at the first such lookup.
FoundStreamLive ==
    ~stray =>
        /\ apc \in {"recv-lock", "recv-take", "recv-sleep", "recv-wait", "recv-requeue",
                    "send-build", "send-enqueue", "close-build", "close-fin",
                    "close-status"} =>
              status[ahost] # "FREE"
        /\ apc = "accept-assign" => status[acur] # "FREE"

\* A lookup of a descriptor in use fails only if a stream was removed under it.
LookupFindsOpen ==
    apc = "find" /\ acur = NULL /\ ~cut => \A s \in Table : fd[s] # afd

\* The stream of a client, while the table holds one.
StreamOf(c) == CHOOSE s \in Table : peer[s] = c
HasStream(c) == \E s \in Table : peer[s] = c

ConnState(c) ==
    IF ~HasStream(c) THEN "none"
    ELSE CASE status[StreamOf(c)] \in {"LISTEN", "SYN_RCVD"} -> "half"
           [] status[StreamOf(c)] = "ESTABLISHED" -> "open"
           [] status[StreamOf(c)] = "CLOSE_WAIT" -> "peer_closed"
           [] OTHER -> "closing"

\* The statuses of ng_tcp_process: whatever the application's nclose and the
\* packet lcore's handlers interleave, each connection goes through the passive
\* side of TCP's states, and only an accepted one is closed.  (Until a lookup
\* goes astray: nclose on a stream that is closed already, or is used again for
\* another connection, does not look at the status it sets to LAST_ACK.)
Lifecycle == INSTANCE StreamLifecycle WITH
                conn <- [c \in Clients |-> ConnState(c)],
                held <- {c \in Clients : HasStream(c) /\ fd[StreamOf(c)] # -1}
ImplementsLifecycle ==
    Lifecycle!Init /\ [][~stray => [Lifecycle!Next]_(Lifecycle!vars)]_vars

\* What the application has taken from stream s, and the payloads in its ring.
\* The client's units are numbered, so this is their order: each after those
\* before it, and each payload a run.
InOrder(got, ring) ==
    /\ \A i, j \in 1 .. Len(got) : i < j => got[i] < got[j]
    /\ \A k \in 1 .. Len(ring) : \A i \in 1 .. Len(ring[k]) :
          /\ ring[k][i] = ring[k][1] + (i - 1)
          /\ \A j \in 1 .. Len(got) : got[j] < ring[k][i]
    /\ \A k, m \in 1 .. Len(ring) : k < m =>
          \A i \in 1 .. Len(ring[k]), j \in 1 .. Len(ring[m]) : ring[k][i] < ring[m][j]

\* Every unit of them is one of the first n that the client sent.
OfFirst(n, got, ring) ==
    /\ \A i \in 1 .. Len(got) : got[i] \in 1 .. n
    /\ \A k \in 1 .. Len(ring) : \A i \in 1 .. Len(ring[k]) : ring[k][i] \in 1 .. n

\* count[k] is how many units there are up to the k-th payload of the ring.
Counts(count, got, ring) ==
    /\ count[0] = Len(got)
    /\ \A k \in 1 .. Len(ring) : count[k] = count[k - 1] + Len(ring[k])

\* What nrecv returns and what waits in the ring is in the order of sending and
\* has nothing twice; rcv_nxt counts it, the SYN and the FIN; and it is all of what
\* has arrived but the units that came without PSH, of which the application is
\* told nothing.  (For a wire that neither loses nor repeats, and payloads that
\* fit the buffer of nrecv.)
DeliveredInOrder ==
    \A s \in Table \ {Listener} :
        /\ InOrder(taken[s], rcvbuf[s])
        /\ \E count \in [0 .. Len(rcvbuf[s]) -> 0 .. MaxUnits] :
              LET n == count[Len(rcvbuf[s])]
              IN  /\ Counts(count, taken[s], rcvbuf[s])
                  /\ OfFirst(n + skipped[s], taken[s], rcvbuf[s])
                  /\ (status[s] # "LISTEN" /\ ~(pstream = s /\ ppc \in {"signal", "count"})) =>
                        rcv_nxt[s] - n \in
                          IF status[s] \in {"SYN_RCVD", "ESTABLISHED"} THEN {1} ELSE {1, 2}

\* No segment on its way to a client acks something the client has not sent.
AckedWasSent ==
    \A c \in Clients : cst[c] \in {"estab", "fin_wait"} =>
        \A i \in 1 .. Len(to_client[c]) :
            to_client[c][i].ack <= csent[c] + IF cst[c] = "estab" THEN 1 ELSE 2

\* What a client has sent with PSH on its connection reaches the application:
\* nrecv is woken for every payload, and no payload is lost but those without PSH.
\* (EpollReady is assumed: the kernel's epoll gives it for no descriptor of the
\* stack.)
PayloadTaken == \A c \in Clients, n \in 1 .. MaxUnits :
    (cst[c] = "estab" /\ csent[c] = n)
        ~> (HasStream(c) /\ Len(taken[StreamOf(c)]) + skipped[StreamOf(c)] >= n)

\* The zero length fragment of a FIN wakes the application (count == 0 in
\* tcp_server_entry, "disconnect"), which then closes its side.  (EpollReady is
\* assumed, as for PayloadTaken.)
CloseAnswered == \A c \in Clients :
    (HasStream(c) /\ status[StreamOf(c)] = "CLOSE_WAIT")
        ~> (~HasStream(c) \/ status[StreamOf(c)] = "LAST_ACK")

\* nclose announces "enter last ack" (tcp_from_king.c:1525), the state whose
\* handler removes the stream when the client acks the FIN: so a stream that was
\* closed is forgotten.
CloseCompletes == \A c \in Clients :
    (HasStream(c) /\ status[StreamOf(c)] = "LAST_ACK") ~> ~HasStream(c)
=============================================================================
