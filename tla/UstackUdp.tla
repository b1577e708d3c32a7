----------------------------- MODULE UstackUdp -----------------------------
(***************************************************************************)
(* The UDP half of the user-space stack, 2.4_ustack/tcp_from_king.c: the     *)
(* echo server's lcore (udp_server_entry, nrecvfrom, nsendto), the packet    *)
(* lcore (udp_process, udp_out) and the ARP table it fills.  The state       *)
(* starts after nsocket and nbind of the one UDP host; the two rings behave  *)
(* as BoundedFifo, which RteRing implements.                                *)
(*                                                                         *)
(* Payload is counted in units, each named by its peer, its datagram and its *)
(* place.  ol->length counts the UDP header as well, so nrecvfrom reads H    *)
(* units more than ol->data was given: the slack of rte_malloc, which is     *)
(* zero, and then the header of the next element of the heap, whose last     *)
(* bytes (the top of a pointer) are zero too.  The echo is cut at the first  *)
(* zero of a buffer that is never cleared.                                  *)
(*                                                                         *)
(* Left out: a failed rte_malloc of a remainder (nrecvfrom writes to NULL).   *)
(***************************************************************************)
EXTENDS Integers, FiniteSets, Sequences

CONSTANTS Peers,       \* remote (address, port) pairs, each at its own address
          Lengths,     \* payloads the peers send, in units
          H,           \* units of the UDP header
          ALIGN,       \* rte_malloc rounds up to a multiple of it
          BUF,         \* UDP_APP_RECV_BUFFER_SIZE, a multiple of ALIGN
          RING,        \* the capacity of a ring
          MaxSent,     \* bound: datagrams of a peer
          Once,        \* bound: the peers that send one at most
          MaxFails,    \* bound: failures of rte_malloc
          FailAt       \* where it may fail: some of "arp", "offload", "reply"

ASSUME UdpAssumption ==
    /\ IsFiniteSet(Peers) /\ Lengths \subseteq Nat
    /\ H \in Nat \ {0} /\ H < ALIGN /\ ALIGN \in Nat
    /\ BUF \in Nat \ {0} /\ BUF % ALIGN = 0
    /\ RING \in Nat \ {0} /\ MaxSent \in Nat /\ MaxFails \in Nat

VARIABLES
    sent,             \* history: the lengths of a peer's datagrams
    in,               \* the in ring, as a sequence of datagrams
    entries,          \* the addresses in the ARP table
    rcvbuf, sndbuf,   \* the rings of offloads of the host
    mutex, asleep,    \* host->mutex, and whether the server waits on host->cond
    apc, from, buffer, rest,   \* the server: place, clientaddr, buffer, the
                               \*   offload whose remainder goes back
    ppc,              \* the packet lcore: place
    echoed,           \* history: what each peer got, unit by unit
    lost,             \* datagrams or parts dropped, at a full ring or for want of memory
    fails             \* failures of rte_malloc so far

ringVars == <<rcvbuf, sndbuf, lost>>
appVars == <<apc, from, buffer, rest>>
netVars == <<sent, in, echoed>>
vars == <<netVars, entries, ringVars, mutex, asleep, appVars, ppc, fails>>

Unit(p, k, i) == [peer |-> p, dgram |-> k, pos |-> i]
NOBODY == "nobody"
ZERO == Unit(NOBODY, 0, 0)
JUNK == Unit(NOBODY, 0, 1)

Payload(p, k) == [i \in 1 .. sent[p][k] |-> Unit(p, k, i)]
Units == [peer : Peers, dgram : 1 .. MaxSent, pos : Nat]
NoOffload == [peer |-> NOBODY, data |-> <<>>]

Init == /\ sent = [p \in Peers |-> <<>>] /\ in = <<>>
        /\ echoed = [p \in Peers |-> <<>>]
        /\ entries = {}
        /\ rcvbuf = <<>> /\ sndbuf = <<>> /\ lost = 0
        /\ mutex = "free" /\ asleep = FALSE
        /\ apc = "lock" /\ from = NOBODY /\ rest = NoOffload
        /\ buffer = [i \in 1 .. BUF |-> ZERO]
        /\ ppc = "burst"
        /\ fails = 0

AppGoto(a, b) == apc = a /\ apc' = b

\* rte_ring_mp_enqueue, whose result nobody reads
Put(ring, ol) == IF Len(ring) < RING THEN Append(ring, ol) ELSE ring
Dropped(ring) == IF Len(ring) < RING THEN 0 ELSE 1

MayFail(place) == /\ fails < MaxFails /\ place \in FailAt
                  /\ fails' = fails + 1

-----------------------------------------------------------------------------
(* The peers.                                                              *)

PeerSend(p) == /\ Len(sent[p]) < MaxSent /\ (p \in Once => sent[p] = <<>>)
               /\ \E n \in Lengths : sent' = [sent EXCEPT ![p] = Append(@, n)]
               /\ in' = Append(in, [peer |-> p, dgram |-> Len(sent[p]) + 1])
               /\ UNCHANGED <<echoed, entries, ringVars, mutex, asleep, appVars, ppc, fails>>

-----------------------------------------------------------------------------
(* The packet lcore.                                                       *)

RoundUp(n) == ((n + ALIGN - 1) \div ALIGN) * ALIGN

\* What nrecvfrom can find behind a payload of n units.
Behind(n) == {b \in [1 .. H -> {ZERO, JUNK}] :
                \A i \in 1 .. H : n + i <= RoundUp(n) \/ i = RoundUp(n) - n + H => b[i] = ZERO}

\* Mutant: the offload counts its payload only.
OffloadsExact(d) == {Payload(d.peer, d.dgram)}

\* The ol->length units that nrecvfrom will read.
Offloads(d) == {Payload(d.peer, d.dgram) \o b : b \in Behind(sent[d.peer][d.dgram])}

\* ng_arp_entry_insert, before the packet is looked at
ArpInsert(p) == \/ /\ entries' = entries \cup {p}
                   /\ UNCHANGED fails
                \/ /\ p \notin entries /\ MayFail("arp")
                   /\ UNCHANGED entries

\* A datagram of no bytes is dropped: rte_malloc(0) returns NULL.
PktDrop == /\ ppc = "burst" /\ in # <<>>
           /\ \/ /\ sent[Head(in).peer][Head(in).dgram] = 0
                 /\ ArpInsert(Head(in).peer)
                 /\ UNCHANGED lost
              \/ /\ MayFail("offload")
                 /\ entries' = entries \cup {Head(in).peer}
                 /\ lost' = lost + 1
           /\ in' = Tail(in)
           /\ UNCHANGED <<sent, echoed, rcvbuf, sndbuf, mutex, asleep, appVars, ppc>>

PktReceive == /\ ppc = "burst" /\ in # <<>>
              /\ sent[Head(in).peer][Head(in).dgram] > 0
              /\ ArpInsert(Head(in).peer)
              /\ \E data \in Offloads(Head(in)) :
                    rcvbuf' = Put(rcvbuf, [peer |-> Head(in).peer, data |-> data])
              /\ lost' = lost + Dropped(rcvbuf)
              /\ in' = Tail(in)
              /\ ppc' = "signal"
              /\ UNCHANGED <<sent, echoed, sndbuf, mutex, asleep, appVars>>

\* Mutant: the condition is signalled without the mutex, and before the server waits.
SignalUnlocked == /\ ppc = "signal"
                  /\ asleep' = FALSE
                  /\ ppc' = "burst"
                  /\ UNCHANGED <<netVars, entries, ringVars, mutex, appVars, fails>>

PktSignal == /\ ppc = "signal" /\ mutex = "free"
             /\ asleep' = FALSE
             /\ ppc' = "burst"
             /\ UNCHANGED <<netVars, entries, ringVars, mutex, appVars, fails>>

\* Mutant: an echo to an unknown address is forgotten.
ResolveForget(ol) == <<>>

\* An echo to an unknown address goes back to the tail; an ARP request is sent.
Resolve(ol) == IF ol.peer \in entries THEN <<>> ELSE <<ol>>

\* The second disjunct: the server, about to send, takes the place in a full ring before
\* the echo is back.
PktOut == /\ ppc = "burst" /\ sndbuf # <<>>
          /\ LET ol == Head(sndbuf) IN
                \/ /\ sndbuf' = Tail(sndbuf) \o Resolve(ol)
                   /\ echoed' = IF ol.peer \in entries
                                THEN [echoed EXCEPT ![ol.peer] = @ \o ol.data] ELSE echoed
                   /\ UNCHANGED lost
                \/ /\ ol.peer \notin entries /\ Len(sndbuf) = RING /\ apc = "reply"
                   /\ sndbuf' = Tail(sndbuf) /\ lost' = lost + 1
                   /\ UNCHANGED echoed
          /\ UNCHANGED <<sent, in, entries, rcvbuf, mutex, asleep, appVars, ppc, fails>>

Pkt == PktDrop \/ PktReceive \/ PktSignal \/ PktOut

-----------------------------------------------------------------------------
(* The server: nrecvfrom, then nsendto.                                    *)

AppLock == /\ AppGoto("lock", "test")
           /\ mutex = "free" /\ mutex' = "app"
           /\ UNCHANGED <<netVars, entries, ringVars, asleep, from, buffer, rest, ppc, fails>>

AppEmpty == /\ AppGoto("test", "sleep")
            /\ rcvbuf = <<>>
            /\ UNCHANGED <<netVars, entries, ringVars, mutex, asleep, from, buffer, rest, ppc, fails>>

AppSleep == /\ AppGoto("sleep", "wait")
            /\ mutex' = "free" /\ asleep' = TRUE
            /\ UNCHANGED <<netVars, entries, ringVars, from, buffer, rest, ppc, fails>>

\* pthread_cond_wait may return without a signal.
SpuriousWake == /\ asleep
                /\ asleep' = FALSE
                /\ UNCHANGED <<netVars, entries, ringVars, mutex, appVars, ppc, fails>>

AppWake == /\ AppGoto("wait", "test")
           /\ ~asleep /\ mutex = "free"
           /\ mutex' = "app"
           /\ UNCHANGED <<netVars, entries, ringVars, asleep, from, buffer, rest, ppc, fails>>

\* The dequeue and the copy of at most BUF units over the buffer.
AppTake == /\ apc = "test" /\ rcvbuf # <<>>
           /\ mutex' = "free"
           /\ LET ol == Head(rcvbuf)
                  n == IF BUF < Len(ol.data) THEN BUF ELSE Len(ol.data) IN
                /\ from' = ol.peer
                /\ buffer' = [i \in 1 .. BUF |-> IF i <= n THEN ol.data[i] ELSE buffer[i]]
                /\ rest' = IF n < Len(ol.data)
                           THEN [ol EXCEPT !.data = SubSeq(ol.data, n + 1, Len(ol.data))]
                           ELSE NoOffload
                /\ apc' = IF n < Len(ol.data) THEN "rest" ELSE "reply"
           /\ rcvbuf' = Tail(rcvbuf)
           /\ UNCHANGED <<netVars, entries, sndbuf, lost, asleep, ppc, fails>>

\* Mutant: the remainder is put back whole.
RestWhole(ol) == [ol EXCEPT !.data = SubSeq(buffer, 1, BUF) \o ol.data]

\* what is put back of a long datagram
Rest(ol) == ol

\* The remainder goes back to the tail of the ring, outside the mutex.
AppPutBack == /\ AppGoto("rest", "reply")
              /\ rcvbuf' = Put(rcvbuf, Rest(rest)) /\ lost' = lost + Dropped(rcvbuf)
              /\ rest' = NoOffload
              /\ UNCHANGED <<netVars, entries, sndbuf, mutex, asleep, from, buffer, ppc, fails>>

\* strlen(buffer): what lies behind the buffer is read when it holds no zero.
Text == LET z == {i \in 1 .. BUF : buffer[i] = ZERO} IN
        IF z = {} THEN {buffer, buffer \o <<JUNK>>}
        ELSE {SubSeq(buffer, 1, i - 1) : i \in {k \in z : \A j \in z : k <= j}}

\* An empty text is not sent: rte_malloc(0) returns NULL.
AppReply == /\ AppGoto("reply", "lock")
            /\ \/ /\ \E text \in Text :
                        IF text = <<>>
                        THEN UNCHANGED <<sndbuf, lost>>
                        ELSE /\ sndbuf' = Put(sndbuf, [peer |-> from, data |-> text])
                             /\ lost' = lost + Dropped(sndbuf)
                  /\ UNCHANGED fails
               \/ /\ MayFail("reply") /\ lost' = lost + 1
                  /\ UNCHANGED sndbuf
            /\ from' = NOBODY
            /\ UNCHANGED <<netVars, entries, rcvbuf, mutex, asleep, buffer, rest, ppc>>

App == AppLock \/ AppEmpty \/ AppSleep \/ AppWake \/ AppTake \/ AppPutBack \/ AppReply

-----------------------------------------------------------------------------
Next == (\E p \in Peers : PeerSend(p)) \/ Pkt \/ App \/ SpuriousWake

Spec == Init /\ [][Next]_vars

\* Each lcore loops for ever; udp_out runs once after every burst, and a thread
\* that locks the mutex gets it once it is free often enough.
Fairness == /\ WF_vars(App) /\ SF_vars(PktSignal)
            /\ SF_vars(PktReceive \/ PktDrop) /\ SF_vars(PktOut)

FairSpec == Spec /\ Fairness

-----------------------------------------------------------------------------
(* Properties.                                                             *)

Cells == Units \cup {ZERO, JUNK}
Offload == [peer : Peers, data : Seq(Cells)]

\* Types of the state.
TypeOK ==
    /\ sent \in [Peers -> Seq(Lengths)]
    /\ in \in Seq([peer : Peers, dgram : 1 .. MaxSent])
    /\ echoed \in [Peers -> Seq(Cells)]
    /\ entries \subseteq Peers
    /\ rcvbuf \in Seq(Offload) /\ Len(rcvbuf) <= RING
    /\ sndbuf \in Seq(Offload) /\ Len(sndbuf) <= RING
    /\ lost \in Nat /\ fails \in 0 .. MaxFails
    /\ mutex \in {"free", "app"} /\ asleep \in BOOLEAN
    /\ apc \in {"lock", "test", "sleep", "wait", "rest", "reply"}
    /\ from \in Peers \cup {NOBODY} /\ rest \in Offload \cup {NoOffload}
    /\ buffer \in [1 .. BUF -> Cells]
    /\ ppc \in {"burst", "signal"}

\* nrecvfrom does not sleep on a ring that holds an offload, but for the moment
\* before udp_process signals it.
RecvNotMissed == asleep /\ rcvbuf # <<>> => ppc = "signal"

\* Such a length leaves a remainder with no zero in it, after which the text goes
\* on with an older one.
Unterminated(n) == (n + H) % BUF \in 1 .. H - 1
Terminated == \A p \in Peers : \A k \in DOMAIN sent[p] : ~Unterminated(sent[p][k])

\* The buffer is shared by all peers and never cleared; still, as long as no
\* datagram has an unterminated length, no peer is sent a unit of another.
EchoStaysWithPeer ==
    Terminated => \A p \in Peers : \A i \in DOMAIN echoed[p] :
                      echoed[p][i] \in Units => echoed[p][i].peer = p

\* The places of the units of datagram k among the first n units that peer p got.
EchoedOf(p, k, n) == {echoed[p][i].pos :
                        i \in {j \in 1 .. n : echoed[p][j] \in Units /\ echoed[p][j].dgram = k}}

\* A long datagram is echoed in parts, which may mix with other datagrams; while
\* every allocation succeeds and no ring overflows, the parts of a datagram
\* are neither repeated, nor reordered, nor left out: before a unit came exactly
\* the units before it in its datagram.
EchoInOrder ==
    Terminated /\ fails = 0 /\ lost = 0 =>
        \A p \in Peers : \A i \in DOMAIN echoed[p] :
            LET u == echoed[p][i] IN
            u \in Units => /\ u.peer = p /\ u.dgram \in DOMAIN sent[p]
                           /\ u.pos \in 1 .. sent[p][u.dgram]
                           /\ EchoedOf(p, u.dgram, i - 1) = 1 .. u.pos - 1

\* Whatever fails, no unit comes back twice.
EchoOnce ==
    Terminated => \A p \in Peers : \A i, j \in DOMAIN echoed[p] :
                      echoed[p][i] = echoed[p][j] /\ echoed[p][i] \in Units => i = j

EchoOf(p, k) == SelectSeq(echoed[p], LAMBDA u : u \in Units /\ u.dgram = k)

\* With memory and room in the rings, every datagram of a known address is echoed
\* whole, even when its entry came late and the echo went round the ring.
EchoComplete ==
    \A p \in Peers : \A k \in 1 .. MaxSent :
        k <= Len(sent[p]) /\ p \in entries ~>
            \/ ~Terminated \/ lost > 0
            \/ k <= Len(sent[p]) /\ Len(EchoOf(p, k)) >= sent[p][k]
=============================================================================
