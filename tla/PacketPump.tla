----------------------------- MODULE PacketPump -----------------------------
(***************************************************************************)
(* Who owns a packet buffer in 2.4_ustack/tcp_from_king.c: the main loop     *)
(* (rx_burst to the in ring, out ring to tx_burst, the ARP timer), the        *)
(* packet lcore (pkt_process: a packet goes to a handler, which frees it, or  *)
(* its burst goes to the kernel through the KNI; then udp_out and ng_tcp_out  *)
(* send what is pending), and the two queues the KNI shares with the kernel.  *)
(* Rings behave as BoundedFifo.  A buffer freed twice is twice in the pool.   *)
(*                                                                         *)
(* Nothing takes packets from the kernel: rte_kni_rx_burst is never called.   *)
(***************************************************************************)
EXTENDS Integers, FiniteSets, Sequences, SequencesExt

CONSTANTS Bufs,         \* the buffers of the pool
          Traffic,      \* what arrives: "stack" (TCP, UDP), "kernel" (the rest)
          BURST,        \* BURST_SIZE
          RING,         \* the capacity of the in and out rings
          FIFO,         \* the capacity of the queues of the KNI
          MaxPending,   \* bound: replies waiting to be sent
          MaxRequests   \* bound: ARP requests of the timer

ASSUME PumpAssumption ==
    /\ IsFiniteSet(Bufs) /\ Traffic \subseteq {"stack", "kernel"}
    /\ {BURST, RING, FIFO} \subseteq Nat \ {0}
    /\ {MaxPending, MaxRequests} \subseteq Nat

VARIABLES
    pool,        \* how many times a buffer is free
    kind,        \* what a buffer holds
    in, out,     \* the two rings
    mbufs, i,    \* the burst of pkt_process, and its place in it
    pending,     \* replies the sockets have for udp_out and ng_tcp_out
    tx,          \* buffers the main loop has yet to free
    nic,         \* buffers whose transmission is not yet completed
    rx_q, free_q,   \* the queues of the KNI: to the kernel, and back
    leaked,      \* how many times a buffer was forgotten
    requests,    \* ARP requests made so far
    running,     \* FALSE after rte_exit: an allocation failed
    spoiled      \* history: buffers given to rte_eth_tx_burst, and those of a burst
                 \*   of several with a packet for the kernel

pktVars == <<mbufs, i>>
kniVars == <<rx_q, free_q>>
mainVars == <<tx, requests>>
vars == <<pool, kind, in, out, pktVars, pending, mainVars, nic, kniVars, leaked, running, spoiled>>

Init == /\ pool = [b \in Bufs |-> 1] /\ kind = [b \in Bufs |-> "stack"]
        /\ in = <<>> /\ out = <<>>
        /\ mbufs = <<>> /\ i = 1
        /\ pending = 0
        /\ tx = <<>> /\ nic = <<>>
        /\ rx_q = <<>> /\ free_q = <<>>
        /\ leaked = [b \in Bufs |-> 0]
        /\ requests = 0
        /\ running = TRUE
        /\ spoiled = {}

-----------------------------------------------------------------------------
Occurrences(s, b) == Cardinality({j \in DOMAIN s : s[j] = b})

\* f, and what s holds of each buffer.
Plus(f, s) == [b \in Bufs |-> f[b] + Occurrences(s, b)]

Free == {b \in Bufs : pool[b] > 0}
Take(B) == [b \in Bufs |-> IF b \in B THEN pool[b] - 1 ELSE pool[b]]

\* The first n of s, and the rest.
First(s, n) == SubSeq(s, 1, n)
Rest(s, n) == SubSeq(s, n + 1, Len(s))
Least(m, n) == IF m < n THEN m ELSE n

\* A burst is enqueued as far as there is room; nobody frees the others.
Room(ring) == RING - Len(ring)

\* Holders of a buffer.
Owners(b) ==
    pool[b] + leaked[b] + Occurrences(in, b) + Occurrences(out, b)
    + Occurrences(SubSeq(mbufs, i, Len(mbufs)), b) + Occurrences(tx, b)
    + Occurrences(nic, b) + Occurrences(rx_q, b) + Occurrences(free_q, b)

-----------------------------------------------------------------------------
(* The main loop.                                                          *)

MainIdle == running /\ tx = <<>>

\* Bound: a buffer with two owners is neither received into nor sent.
OwnedOnce(s) == \A b \in Bufs : Occurrences(s, b) > 0 => Owners(b) = 1

MainRx ==
    /\ MainIdle
    /\ \E n \in 1 .. BURST : \E s \in [1 .. n -> Free] :
          /\ IsInjective(s) /\ OwnedOnce(s)
          /\ pool' = Take(ToSet(s))
          /\ \E k \in [ToSet(s) -> Traffic] :
                kind' = [b \in Bufs |-> IF b \in ToSet(s) THEN k[b] ELSE kind[b]]
          /\ in' = in \o First(s, Least(n, Room(in)))
          /\ leaked' = Plus(leaked, Rest(s, Least(n, Room(in))))
    /\ UNCHANGED <<out, pktVars, pending, mainVars, nic, kniVars, running, spoiled>>

\* The driver takes a first part of the burst.
MainTx ==
    /\ MainIdle /\ out # <<>>
    /\ LET s == First(out, Least(BURST, Len(out))) IN
          /\ OwnedOnce(s)
          /\ \E n \in 0 .. Len(s) : /\ nic' = nic \o First(s, n)
                                    /\ spoiled' = spoiled \cup ToSet(First(s, n))
          /\ tx' = s
          /\ out' = Rest(out, Len(s))
    /\ UNCHANGED <<pool, kind, in, pktVars, pending, requests, kniVars, leaked, running>>

MainFree ==
    /\ running /\ tx # <<>>
    /\ pool' = Plus(pool, <<Head(tx)>>)
    /\ tx' = Tail(tx)
    /\ UNCHANGED <<kind, in, out, pktVars, pending, requests, nic, kniVars, leaked, running, spoiled>>

\* A new buffer goes to the out ring; the program ends when there is none.
Emit ==
    \/ \E b \in Free :
          /\ pool' = Take({b})
          /\ out' = out \o First(<<b>>, Least(1, Room(out)))
          /\ leaked' = Plus(leaked, Rest(<<b>>, Least(1, Room(out))))
          /\ UNCHANGED running
    \/ /\ Free = {} /\ running' = FALSE
       /\ UNCHANGED <<pool, out, leaked>>

\* arp_request_timer_cb, one of its requests
MainTimer ==
    /\ MainIdle /\ requests < MaxRequests
    /\ requests' = requests + 1
    /\ Emit
    /\ UNCHANGED <<kind, in, pktVars, pending, tx, nic, kniVars, spoiled>>

Main == MainRx \/ MainTx \/ MainFree \/ MainTimer

-----------------------------------------------------------------------------
(* The packet lcore.                                                       *)

\* Mutant: the next burst is taken before the last one is done.
PktBurstEarly ==
    /\ running /\ in # <<>>
    /\ mbufs' = First(in, Least(BURST, Len(in))) /\ i' = 1
    /\ in' = Rest(in, Least(BURST, Len(in)))
    /\ UNCHANGED <<pool, kind, out, pending, mainVars, nic, kniVars, leaked, running, spoiled>>

PktBurst ==
    /\ running /\ i > Len(mbufs) /\ in # <<>>
    /\ mbufs' = First(in, Least(BURST, Len(in))) /\ i' = 1
    /\ in' = Rest(in, Least(BURST, Len(in)))
    /\ UNCHANGED <<pool, kind, out, pending, mainVars, nic, kniVars, leaked, running, spoiled>>

\* Mutant: a handler returns early and forgets the buffer.
FreedMaybe(b) == {pool, Plus(pool, <<b>>)}

\* Every return of udp_process and ng_tcp_process frees the packet.
Freed(b) == {Plus(pool, <<b>>)}

PktHandle ==
    /\ running /\ i <= Len(mbufs) /\ kind[mbufs[i]] = "stack"
    /\ pool' \in Freed(mbufs[i])
    /\ pending' \in {pending, Least(MaxPending, pending + 1)}
    /\ i' = i + 1
    /\ UNCHANGED <<kind, in, out, mbufs, mainVars, nic, kniVars, leaked, running, spoiled>>

\* kni_free_mbufs
Drain == /\ pool' = Plus(pool, free_q)
         /\ free_q' = <<>>

\* rte_kni_tx_burst of the whole burst, whatever i is.
PktKni ==
    /\ running /\ i <= Len(mbufs) /\ kind[mbufs[i]] = "kernel"
    /\ LET n == Least(Len(mbufs), FIFO - Len(rx_q)) IN
          /\ rx_q' = rx_q \o First(mbufs, n)
          /\ leaked' = IF i > n THEN Plus(leaked, <<mbufs[i]>>) ELSE leaked
          /\ spoiled' = IF Len(mbufs) > 1 THEN spoiled \cup ToSet(mbufs) ELSE spoiled
    /\ Drain
    /\ i' = i + 1
    /\ UNCHANGED <<kind, in, out, mbufs, pending, mainVars, nic, running>>

\* udp_out and ng_tcp_out, once the burst is done.  For an address that is not known
\* udp_out sends an ARP request and keeps the reply.
PktOut ==
    /\ running /\ i > Len(mbufs) /\ pending > 0
    /\ pending' \in {pending - 1, pending}
    /\ Emit
    /\ UNCHANGED <<kind, in, pktVars, mainVars, nic, kniVars, spoiled>>

Pkt == PktBurst \/ PktHandle \/ PktKni \/ PktOut

-----------------------------------------------------------------------------
\* The driver frees what it has sent, on a later call of rte_eth_tx_burst.
NicDone == /\ running /\ nic # <<>>
           /\ pool' = Plus(pool, <<Head(nic)>>) /\ nic' = Tail(nic)
           /\ UNCHANGED <<kind, in, out, pktVars, pending, mainVars, kniVars, leaked, running, spoiled>>

\* The kernel gives back what it has read.
KernelDone == /\ rx_q # <<>> /\ Len(free_q) < FIFO
              /\ free_q' = Append(free_q, Head(rx_q)) /\ rx_q' = Tail(rx_q)
              /\ UNCHANGED <<pool, kind, in, out, pktVars, pending, mainVars, nic, leaked, running, spoiled>>

Next == Main \/ Pkt \/ NicDone \/ KernelDone

Spec == Init /\ [][Next]_vars

\* The packet lcore loops for ever.
Fairness == WF_vars(PktBurst) /\ WF_vars(PktHandle \/ PktKni)

FairSpec == Spec /\ Fairness

-----------------------------------------------------------------------------
(* Properties.                                                             *)

\* The lcores, the rings, the kernel and the pool never hold a buffer twice, nor does
\* it vanish but at a full ring or queue, until the driver takes it for transmission
\* (the main loop then frees it at once) or a burst of several has a packet for the
\* kernel (the burst then goes to it whole, with what the handlers free).
OneOwner == \A b \in Bufs \ spoiled : Owners(b) = 1

\* A packet that reached the in ring, in an unspoiled buffer, leaves it for
\* the pool, the kernel or, at a full queue, for good.
Consumed == \A b \in Bufs :
    Occurrences(in, b) > 0 /\ b \notin spoiled ~> \/ pool[b] + leaked[b] > 0 \/ ~running
                              \/ Occurrences(rx_q \o free_q, b) > 0
=============================================================================
