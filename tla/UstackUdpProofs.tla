-------------------------- MODULE UstackUdpProofs --------------------------
(***************************************************************************)
(* Of UstackUdp, for any peers, payloads, buffer and ring sizes and        *)
(* failures: no wake-up of nrecvfrom is missed; and while every datagram   *)
(* leaves its terminator in the last part, no peer is sent what another    *)
(* sent, nothing is sent twice, and, where nothing is lost, the parts of a *)
(* datagram come in their order.                                           *)
(***************************************************************************)
EXTENDS UstackUdp, SequenceTheorems, TLAPS

\* The server holds the mutex from its lock until it has found an offload or sleeps.
MutexInv == mutex = (IF apc \in {"test", "sleep"} THEN "app" ELSE "free")

SleepInv == asleep => apc = "wait"

\* The promise begins before the server sleeps: since it found the ring empty with
\* the mutex in hand, what came after is yet to be signalled.
WakeInv == (apc = "sleep" \/ asleep) /\ rcvbuf # <<>> => ppc = "signal"

SignalInv == MutexInv /\ SleepInv /\ WakeInv

\* The start has no wake-up to miss.
LEMMA InitSignal == Init => SignalInv
BY DEF Init, SignalInv, MutexInv, SleepInv, WakeInv

\* Each step of nrecvfrom and of udp_process keeps the signalling right.
LEMMA StepSignal == SignalInv /\ [Next]_vars => SignalInv'
<1>. SUFFICES ASSUME SignalInv, [Next]_vars PROVE SignalInv'
  OBVIOUS
<1>. USE DEF SignalInv, MutexInv, SleepInv, WakeInv, netVars, ringVars, appVars
<1>1. ASSUME NEW p \in Peers, PeerSend(p) PROVE SignalInv'
  BY <1>1 DEF PeerSend
\* The packet lcore: what it enqueues it will signal, and a signal needs the mutex,
\* which the server keeps until it sleeps.
<1>2. CASE Pkt
  <2>1. CASE PktDrop
    BY <2>1 DEF PktDrop
  <2>2. CASE PktReceive
    BY <2>2 DEF PktReceive
  <2>3. CASE PktSignal
    BY <2>3 DEF PktSignal
  <2>4. CASE PktOut
    BY <2>4 DEF PktOut
  <2>. QED
    BY <1>2, <2>1, <2>2, <2>3, <2>4 DEF Pkt
<1>3. CASE App
  <2>. USE DEF AppGoto
  <2>1. CASE AppLock
    BY <2>1 DEF AppLock
  <2>2. CASE AppEmpty
    BY <2>2 DEF AppEmpty
  <2>3. CASE AppSleep
    BY <2>3 DEF AppSleep
  <2>4. CASE AppWake
    BY <2>4 DEF AppWake
  <2>5. CASE AppTake
    BY <2>5 DEF AppTake
  <2>6. CASE AppPutBack
    BY <2>6 DEF AppPutBack
  <2>7. CASE AppReply
    BY <2>7 DEF AppReply
  <2>. QED
    BY <1>3, <2>1, <2>2, <2>3, <2>4, <2>5, <2>6, <2>7 DEF App
<1>4. CASE SpuriousWake
  BY <1>4 DEF SpuriousWake
<1>5. CASE UNCHANGED vars
  BY <1>5 DEF vars
<1>. QED
  BY <1>1, <1>2, <1>3, <1>4, <1>5 DEF Next

\* nrecvfrom never sleeps on a ring that holds an offload, but for the moment before
\* udp_process signals it: it tests the ring and goes to sleep under one hold of the
\* mutex (1415-1422), and the signal, which comes after the enqueue, takes it too.
THEOREM WakeUpIsNotMissed == Spec => []RecvNotMissed
<1>1. SignalInv => RecvNotMissed
  BY DEF SignalInv, WakeInv, RecvNotMissed
<1>. QED
  BY InitSignal, StepSignal, <1>1, PTL DEF Spec

-----------------------------------------------------------------------------
(* Types.                                                                  *)

\* What the packet lcore will index, and what the server holds between two steps.
PlaceInv == /\ \A i \in 1 .. Len(in) : in[i].dgram \in 1 .. Len(sent[in[i].peer])
            /\ apc \in {"rest", "reply"} => from \in Peers
            /\ apc = "rest" => rest \in Offload

TypeInv == TypeOK /\ PlaceInv

\* The result of an enqueue that may have been refused.
LEMMA PutMembers ==
    ASSUME NEW S, NEW ring \in Seq(S), Len(ring) <= RING, NEW ol \in S
    PROVE  /\ Put(ring, ol) \in Seq(S) /\ Len(Put(ring, ol)) <= RING
           /\ Dropped(ring) \in Nat
           /\ \A i \in 1 .. Len(Put(ring, ol)) :
                 \/ Put(ring, ol)[i] = ol
                 \/ \E j \in 1 .. Len(ring) : Put(ring, ol)[i] = ring[j]
  BY UdpAssumption DEF Put, Dropped

\* The first item of a ring, and the others.
LEMMA HeadTail ==
    ASSUME NEW S, NEW s \in Seq(S), s # <<>>
    PROVE  /\ Head(s) \in S /\ Head(s) = s[1] /\ 1 \in 1 .. Len(s)
           /\ Tail(s) \in Seq(S) /\ Len(Tail(s)) = Len(s) - 1
           /\ \A i \in 1 .. Len(Tail(s)) : i + 1 \in 1 .. Len(s) /\ Tail(s)[i] = s[i + 1]
  OBVIOUS

\* What nrecvfrom is given to read: the payload, and the H units behind it.
LEMMA OffloadCells ==
    ASSUME TypeOK, NEW p \in Peers, NEW k \in 1 .. Len(sent[p]), k \in 1 .. MaxSent,
           NEW data \in Offloads([peer |-> p, dgram |-> k])
    PROVE  /\ data \in Seq(Cells) /\ Len(data) = sent[p][k] + H /\ sent[p][k] \in Nat
           /\ \A i \in 1 .. sent[p][k] : data[i] = Unit(p, k, i)
           /\ \A i \in 1 .. sent[p][k] : data[i] \in Units /\ data[i].peer = p
           /\ \A i \in 1 .. Len(data) : i > sent[p][k] => data[i] \in {ZERO, JUNK}
           /\ \E i \in 1 .. Len(data) : i > sent[p][k] /\ data[i] = ZERO
<1>0. sent[p] \in Seq(Lengths) /\ sent[p][k] \in Lengths
  BY ElementOfSeq DEF TypeOK
<1>1. PICK n \in Nat : n = sent[p][k]
  BY <1>0, UdpAssumption
<1>2. PICK b \in Behind(n) : data = Payload(p, k) \o b
  BY <1>1 DEF Offloads
<1>3. Payload(p, k) \in Seq(Cells) /\ Len(Payload(p, k)) = n
      /\ \A i \in 1 .. n : Payload(p, k)[i] \in Units /\ Payload(p, k)[i].peer = p
  BY <1>1 DEF Payload, Units, Unit, Cells
<1>4. b \in Seq(Cells) /\ Len(b) = H /\ \A i \in 1 .. H : b[i] \in {ZERO, JUNK}
  BY UdpAssumption DEF Behind, Cells
<1>5. \E i \in 1 .. H : b[i] = ZERO
  <2>1. RoundUp(n) \in Nat /\ RoundUp(n) >= n
    <3>1. PICK t \in Nat : t = n + ALIGN - 1
      BY <1>1, UdpAssumption
    <3>2. PICK r \in 0 .. (ALIGN - 1), m \in Int :
             /\ RoundUp(n) = m /\ m = t - r
      <4>1. ALIGN \in Nat \ {0}
        BY UdpAssumption
      <4>2. (t % ALIGN) \in 0 .. (ALIGN - 1) /\ (t \div ALIGN) \in Int
            /\ t = (ALIGN * (t \div ALIGN)) + (t % ALIGN)
        BY <3>1, <4>1
      <4>3. (t \div ALIGN) * ALIGN = ALIGN * (t \div ALIGN)
        BY <4>1, <4>2
      <4>. QED
        BY <3>1, <4>1, <4>2, <4>3 DEF RoundUp
    <3>. QED
      BY <3>1, <3>2, <1>1, UdpAssumption
  <2>2. CASE RoundUp(n) = n
    BY <2>2, <1>1, UdpAssumption DEF Behind
  <2>3. CASE RoundUp(n) > n
    BY <2>3, <2>1, <1>1, UdpAssumption DEF Behind
  <2>. QED
    BY <2>1, <2>2, <2>3, <1>1
<1>6. /\ data \in Seq(Cells) /\ Len(data) = n + H
      /\ \A i \in 1 .. n + H : data[i] = IF i <= n THEN Payload(p, k)[i] ELSE b[i - n]
  BY <1>2, <1>3, <1>4, UdpAssumption, ConcatProperties
<1>7. \A i \in 1 .. H : n + i \in 1 .. Len(data) /\ n + i > n /\ data[n + i] = b[i]
  <2>. TAKE i \in 1 .. H
  <2>1. PICK j \in Int : j = n + i
    BY <1>1
  <2>2. j \in 1 .. n + H /\ ~(j <= n) /\ j - n = i
    BY <1>1, <2>1, UdpAssumption
  <2>3. data[j] = b[i]
    BY <1>6, <2>2
  <2>. QED
    BY <1>1, <1>6, <2>1, <2>2, <2>3
<1>8. \A i \in 1 .. Len(data) : i > n => i - n \in 1 .. H /\ data[i] = b[i - n]
  <2>1. n \in Nat /\ H \in Nat
    BY <1>1, UdpAssumption
  <2>. QED
    BY <1>6, <2>1
<1>9. \A i \in 1 .. n : data[i] = Payload(p, k)[i]
  BY <1>1, <1>6, UdpAssumption
<1>10. /\ \A i \in 1 .. n : data[i] \in Units /\ data[i].peer = p
       /\ \A i \in 1 .. Len(data) : i > n => data[i] \in {ZERO, JUNK}
       /\ \E i \in 1 .. Len(data) : i > n /\ data[i] = ZERO
  <2>1. PICK i \in 1 .. H : b[i] = ZERO
    BY <1>5
  <2>2. n + i \in 1 .. Len(data) /\ n + i > n /\ data[n + i] = ZERO
    BY <1>7, <2>1
  <2>3. \A j \in 1 .. n : data[j] \in Units /\ data[j].peer = p
    BY <1>1, <1>3, <1>9
  <2>4. \A j \in 1 .. Len(data) : j > n => data[j] \in {ZERO, JUNK}
    BY <1>4, <1>8
  <2>. QED
    BY <2>2, <2>3, <2>4
<1>11. \A i \in 1 .. n : data[i] = Unit(p, k, i)
  BY <1>1, <1>9 DEF Payload
<1>. QED
  BY <1>1, <1>6, <1>10, <1>11

\* What may be sent: the cells before the first zero of the buffer, or all of it.
LEMMA TextCells ==
    ASSUME TypeOK, NEW text \in Text
    PROVE  /\ text \in Seq(Cells)
           /\ \A i \in 1 .. Len(text) :
                 \/ /\ i \in 1 .. BUF /\ text[i] = buffer[i]
                    /\ \A j \in 1 .. i : buffer[j] # ZERO
                 \/ text[i] = JUNK
<1>. DEFINE z == {i \in 1 .. BUF : buffer[i] = ZERO}
<1>1. BUF \in Nat /\ buffer \in Seq(Cells) /\ Len(buffer) = BUF
      /\ \A i \in 1 .. BUF : buffer[i] \in Cells
  BY UdpAssumption DEF TypeOK
<1>2. JUNK \in Cells
  BY DEF Cells
<1>3. CASE z = {} /\ text = buffer
  BY <1>1, <1>3
<1>4. CASE z = {} /\ text = buffer \o <<JUNK>>
  <2>1. <<JUNK>> \in Seq(Cells) /\ Len(<<JUNK>>) = 1 /\ <<JUNK>>[1] = JUNK
    BY <1>2
  <2>2. /\ text \in Seq(Cells) /\ Len(text) = BUF + 1
        /\ \A i \in 1 .. BUF + 1 : text[i] = IF i <= BUF THEN buffer[i] ELSE <<JUNK>>[i - BUF]
    BY <1>1, <1>4, <2>1, ConcatProperties
  <2>3. \A i \in 1 .. BUF : buffer[i] # ZERO
    BY <1>4
  <2>4. ASSUME NEW i \in 1 .. Len(text)
        PROVE  (i \in 1 .. BUF /\ text[i] = buffer[i]) \/ text[i] = JUNK
    <3>1. CASE i <= BUF
      BY <1>1, <2>2, <3>1
    <3>2. CASE i = BUF + 1
      <4>1. ~(i <= BUF) /\ i - BUF = 1 /\ i \in 1 .. BUF + 1
        BY <1>1, <3>2
      <4>. QED
        BY <2>1, <2>2, <4>1
    <3>. QED
      BY <1>1, <2>2, <3>1, <3>2
  <2>5. \A i \in 1 .. BUF : \A j \in 1 .. i : buffer[j] # ZERO
    BY <1>1, <2>3
  <2>. QED
    BY <2>2, <2>4, <2>5
<1>5. CASE z # {}
  <2>1. PICK i \in z : text = SubSeq(buffer, 1, i - 1) /\ \A j \in z : i <= j
    BY <1>5 DEF Text
  <2>2. i \in 1 .. BUF /\ i - 1 \in Int /\ \A j \in 1 .. i - 1 : buffer[j] \in Cells
    BY <1>1, <2>1
  <2>3. /\ text \in Seq(Cells) /\ Len(text) = i - 1
        /\ \A j \in 1 .. i - 1 : text[j] = buffer[j]
    BY <2>1, <2>2, SubSeqProperties
  <2>4. \A j \in 1 .. i - 1 : j \in 1 .. BUF /\ buffer[j] # ZERO
    BY <1>1, <2>1, <2>2
  <2>. QED
    BY <2>2, <2>3, <2>4
<1>. QED
  BY <1>3, <1>4, <1>5 DEF Text

\* The types at the start.
LEMMA InitType == Init => TypeInv
<1>. SUFFICES ASSUME Init PROVE TypeInv
  OBVIOUS
<1>1. buffer \in [1 .. BUF -> Cells]
  BY DEF Init, Cells
<1>2. /\ sent \in [Peers -> Seq(Lengths)] /\ echoed \in [Peers -> Seq(Cells)]
      /\ in \in Seq([peer : Peers, dgram : 1 .. MaxSent]) /\ Len(in) = 0
      /\ rcvbuf \in Seq(Offload) /\ Len(rcvbuf) <= RING
      /\ sndbuf \in Seq(Offload) /\ Len(sndbuf) <= RING
  BY UdpAssumption DEF Init
<1>3. lost \in Nat /\ fails \in 0 .. MaxFails
  BY UdpAssumption DEF Init
<1>4. TypeOK
  BY <1>1, <1>2, <1>3 DEF Init, TypeOK
<1>5. PlaceInv
  <2>1. 1 .. Len(in) = {}
    BY <1>2
  <2>. QED
    BY <2>1 DEF Init, PlaceInv
<1>. QED
  BY <1>4, <1>5 DEF TypeInv

\* An allocation that may fail counts its failures within the bound.
LEMMA FailTypes ==
    ASSUME TypeOK, NEW place, MayFail(place)
    PROVE  fails' \in 0 .. MaxFails
<1>1. fails \in 0 .. MaxFails /\ MaxFails \in Nat
  BY UdpAssumption DEF TypeOK
<1>2. fails < MaxFails /\ fails' = fails + 1
  BY DEF MayFail
<1>. QED
  BY <1>1, <1>2

\* The ARP table grows by a peer or, if the allocation fails, not at all.
LEMMA ArpTypes ==
    ASSUME TypeOK, NEW p \in Peers, ArpInsert(p)
    PROVE  entries' \subseteq Peers /\ fails' \in 0 .. MaxFails
<1>1. entries \subseteq Peers /\ fails \in 0 .. MaxFails
  BY DEF TypeOK
<1>2. \/ entries' = entries \cup {p} /\ fails' = fails
      \/ entries' = entries /\ MayFail("arp")
  BY DEF ArpInsert
<1>. QED
  BY <1>1, <1>2, FailTypes

\* udp_out loses at most the one echo it dequeued, and allocates nothing that can fail.
LEMMA OutCounts == PktOut => lost' \in {lost, lost + 1} /\ fails' = fails
<1>1. SUFFICES ASSUME PktOut PROVE lost' = lost \/ lost' = lost + 1
  BY DEF PktOut
<1>2. PktOut => UNCHANGED lost \/ lost' = lost + 1
  BY Zenon DEF PktOut
<1>. QED
  BY <1>1, <1>2

\* Each step keeps the types.
LEMMA StepType == TypeInv /\ [Next]_vars => TypeInv'
<1>. SUFFICES ASSUME TypeInv, [Next]_vars PROVE TypeInv'
  OBVIOUS
<1>. USE DEF TypeInv, netVars, ringVars, appVars
<1>1. ASSUME NEW p \in Peers, PeerSend(p) PROVE TypeInv'
  <2>1. PICK n \in Lengths : sent' = [sent EXCEPT ![p] = Append(@, n)]
    BY <1>1 DEF PeerSend
  <2>2. /\ sent[p] \in Seq(Lengths) /\ Len(sent[p]) \in Nat /\ Len(sent[p]) < MaxSent
        /\ MaxSent \in Nat
    BY <1>1, UdpAssumption DEF PeerSend, TypeOK
  <2>3. sent' \in [Peers -> Seq(Lengths)] /\ Len(sent'[p]) = Len(sent[p]) + 1
        /\ \A q \in Peers : q # p => sent'[q] = sent[q]
    BY <2>1, <2>2 DEF TypeOK
  <2>4. PICK d \in [peer : Peers, dgram : 1 .. MaxSent] :
           /\ d = [peer |-> p, dgram |-> Len(sent[p]) + 1]
           /\ in' = Append(in, d)
    BY <1>1, <2>2 DEF PeerSend
  <2>5. /\ in' \in Seq([peer : Peers, dgram : 1 .. MaxSent])
        /\ \A i \in 1 .. Len(in') : in'[i] = d \/ (i \in 1 .. Len(in) /\ in'[i] = in[i])
    BY <2>4 DEF TypeOK
  <2>6. \A i \in 1 .. Len(in) : in[i] \in [peer : Peers, dgram : 1 .. MaxSent]
    BY ElementOfSeq DEF TypeOK
  <2>7. \A i \in 1 .. Len(in) : in[i].dgram \in 1 .. Len(sent'[in[i].peer])
    <3>. TAKE i \in 1 .. Len(in)
    <3>1. in[i].peer \in Peers /\ in[i].dgram \in 1 .. Len(sent[in[i].peer])
      BY <2>6 DEF PlaceInv
    <3>2. CASE in[i].peer = p
      BY <2>2, <2>3, <3>1, <3>2
    <3>3. CASE in[i].peer # p
      BY <2>3, <3>1, <3>3
    <3>. QED
      BY <3>2, <3>3
  <2>8. d.dgram \in 1 .. Len(sent'[d.peer])
    BY <2>2, <2>3, <2>4
  <2>9. \A i \in 1 .. Len(in') : in'[i].dgram \in 1 .. Len(sent'[in'[i].peer])
    BY <2>5, <2>7, <2>8
  <2>10. UNCHANGED <<echoed, entries, ringVars, mutex, asleep, appVars, ppc, fails>>
    BY <1>1 DEF PeerSend
  <2>. QED
    BY <2>3, <2>5, <2>9, <2>10 DEF TypeOK, PlaceInv
<1>2. CASE Pkt
  \* A packet leaves the ring in front, and its sender may enter the table.
  <2>0. ASSUME in # <<>>, in' = Tail(in), UNCHANGED sent
        PROVE  /\ in' \in Seq([peer : Peers, dgram : 1 .. MaxSent])
               /\ \A i \in 1 .. Len(in') : in'[i].dgram \in 1 .. Len(sent'[in'[i].peer])
               /\ Head(in) \in [peer : Peers, dgram : 1 .. MaxSent]
               /\ Head(in).dgram \in 1 .. Len(sent[Head(in).peer])
    <3>1. in \in Seq([peer : Peers, dgram : 1 .. MaxSent])
      BY DEF TypeOK
    <3>2. /\ Head(in) \in [peer : Peers, dgram : 1 .. MaxSent]
          /\ Head(in) = in[1] /\ 1 \in 1 .. Len(in)
          /\ in' \in Seq([peer : Peers, dgram : 1 .. MaxSent])
          /\ \A i \in 1 .. Len(in') : i + 1 \in 1 .. Len(in) /\ in'[i] = in[i + 1]
      BY <2>0, <3>1, HeadTail
    <3>3. \A i \in 1 .. Len(in) : in[i].dgram \in 1 .. Len(sent[in[i].peer])
      BY DEF PlaceInv
    <3>4. \A i \in 1 .. Len(in') : in'[i].dgram \in 1 .. Len(sent[in'[i].peer])
      BY <3>2, <3>3
    <3>. QED
      BY <2>0, <3>2, <3>3, <3>4
  <2>1. CASE PktDrop
    <3>1. in # <<>> /\ in' = Tail(in)
      BY <2>1 DEF PktDrop
    <3>2. UNCHANGED <<sent, echoed, rcvbuf, sndbuf, mutex, asleep, apc, from, buffer,
                      rest, ppc>> /\ lost' \in {lost, lost + 1}
      BY <2>1 DEF PktDrop
    <3>3. /\ in' \in Seq([peer : Peers, dgram : 1 .. MaxSent])
          /\ \A i \in 1 .. Len(in') : in'[i].dgram \in 1 .. Len(sent'[in'[i].peer])
          /\ Head(in).peer \in Peers
      BY <2>0, <3>1, <3>2
    <3>4. entries' \subseteq Peers /\ fails' \in 0 .. MaxFails
      <4>1. CASE ArpInsert(Head(in).peer)
        BY <3>3, <4>1, ArpTypes
      <4>2. CASE MayFail("offload") /\ entries' = entries \cup {Head(in).peer}
        BY <3>3, <4>2, FailTypes DEF TypeOK
      <4>. QED
        BY <2>1, <4>1, <4>2 DEF PktDrop
    <3>5. TypeOK'
      BY <3>2, <3>3, <3>4 DEF TypeOK
    <3>6. PlaceInv'
      BY <3>2, <3>3 DEF PlaceInv
    <3>. QED
      BY <3>5, <3>6
  <2>2. CASE PktReceive
    <3>0. PICK d \in [peer : Peers, dgram : 1 .. MaxSent] :
             d = Head(in) /\ d.dgram \in 1 .. Len(sent[d.peer])
      BY <2>0, <2>2 DEF PktReceive
    <3>1. PICK data \in Offloads(d) : rcvbuf' = Put(rcvbuf, [peer |-> d.peer, data |-> data])
      BY <2>2, <3>0 DEF PktReceive
    <3>2. d = [peer |-> d.peer, dgram |-> d.dgram]
      OBVIOUS
    <3>3. data \in Seq(Cells)
      BY <3>0, <3>1, <3>2, OffloadCells
    <3>4. rcvbuf' \in Seq(Offload) /\ Len(rcvbuf') <= RING /\ lost' \in Nat
      <4>1. [peer |-> d.peer, data |-> data] \in Offload
        BY <3>3 DEF Offload
      <4>2. rcvbuf' \in Seq(Offload) /\ Len(rcvbuf') <= RING /\ Dropped(rcvbuf) \in Nat
        BY <3>1, <4>1, PutMembers DEF TypeOK
      <4>. QED
        <5>1. lost \in Nat /\ lost' = lost + Dropped(rcvbuf)
          BY <2>2 DEF PktReceive, TypeOK
        <5>. QED
          BY <4>2, <5>1
    <3>5. in # <<>> /\ in' = Tail(in)
      BY <2>2 DEF PktReceive
    <3>6. UNCHANGED <<sent, echoed, sndbuf, mutex, asleep, apc, from, buffer, rest>>
          /\ ppc' = "signal"
      BY <2>2 DEF PktReceive
    <3>7. /\ in' \in Seq([peer : Peers, dgram : 1 .. MaxSent])
          /\ \A i \in 1 .. Len(in') : in'[i].dgram \in 1 .. Len(sent'[in'[i].peer])
      BY <2>0, <3>5, <3>6
    <3>8. entries' \subseteq Peers /\ fails' \in 0 .. MaxFails
      BY <2>2, <3>0, ArpTypes DEF PktReceive
    <3>9. TypeOK'
      BY <3>4, <3>6, <3>7, <3>8 DEF TypeOK
    <3>10. PlaceInv'
      BY <3>6, <3>7 DEF PlaceInv
    <3>. QED
      BY <3>9, <3>10
  <2>3. CASE PktSignal
    BY <2>3 DEF PktSignal, TypeOK, PlaceInv
  <2>4. CASE PktOut
    <3>1. PICK ol \in Offload : /\ ol = Head(sndbuf) /\ Tail(sndbuf) \in Seq(Offload)
                                /\ Len(Tail(sndbuf)) + 1 <= RING
                                /\ sndbuf' \in {Tail(sndbuf) \o Resolve(ol), Tail(sndbuf)}
                                /\ echoed' \in {IF ol.peer \in entries
                                                THEN [echoed EXCEPT ![ol.peer] = @ \o ol.data]
                                                ELSE echoed, echoed}
      <4>1. sndbuf # <<>> /\ sndbuf \in Seq(Offload) /\ Len(sndbuf) <= RING
        BY <2>4 DEF PktOut, TypeOK
      <4>2. /\ Head(sndbuf) \in Offload /\ Tail(sndbuf) \in Seq(Offload)
            /\ Len(Tail(sndbuf)) + 1 <= RING
        BY <4>1, HeadTail, UdpAssumption
      <4>. QED
        BY <2>4, <4>2 DEF PktOut
    <3>2. Resolve(ol) \in Seq(Offload) /\ Len(Resolve(ol)) <= 1
      BY DEF Resolve
    <3>3. sndbuf' \in Seq(Offload) /\ Len(sndbuf') <= RING
      <4>1. /\ Tail(sndbuf) \o Resolve(ol) \in Seq(Offload)
            /\ Len(Tail(sndbuf) \o Resolve(ol)) <= Len(Tail(sndbuf)) + 1
        BY <3>1, <3>2, ConcatProperties
      <4>2. Len(Tail(sndbuf)) \in Nat /\ RING \in Nat
        BY <3>1, UdpAssumption
      <4>3. Len(Tail(sndbuf) \o Resolve(ol)) \in Nat
        BY <4>1
      <4>4. Len(Tail(sndbuf) \o Resolve(ol)) <= RING /\ Len(Tail(sndbuf)) <= RING
        BY <3>1, <4>1, <4>2, <4>3
      <4>5. CASE sndbuf' = Tail(sndbuf) \o Resolve(ol)
        BY <4>1, <4>4, <4>5, Zenon
      <4>6. CASE sndbuf' = Tail(sndbuf)
        BY <3>1, <4>4, <4>6, Zenon
      <4>. QED
        BY <3>1, <4>5, <4>6, Zenon
    <3>4. echoed' \in [Peers -> Seq(Cells)]
      <4>1. ol.peer \in Peers /\ ol.data \in Seq(Cells) /\ echoed[ol.peer] \in Seq(Cells)
        BY DEF Offload, TypeOK
      <4>2. echoed[ol.peer] \o ol.data \in Seq(Cells)
        BY <4>1, ConcatProperties
      <4>3. [echoed EXCEPT ![ol.peer] = @ \o ol.data] \in [Peers -> Seq(Cells)]
        BY <4>1, <4>2 DEF TypeOK
      <4>4. echoed \in [Peers -> Seq(Cells)]
        BY DEF TypeOK
      <4>. QED
        BY <3>1, <4>3, <4>4
    <3>5. lost' \in Nat
      BY <2>4, OutCounts DEF TypeOK
    <3>. QED
      BY <2>4, <3>3, <3>4, <3>5 DEF PktOut, TypeOK, PlaceInv
  <2>. QED
    BY <1>2, <2>1, <2>2, <2>3, <2>4 DEF Pkt
<1>3. CASE App
  <2>. USE DEF AppGoto
  <2>1. CASE AppLock
    BY <2>1 DEF AppLock, TypeOK, PlaceInv
  <2>2. CASE AppEmpty
    BY <2>2 DEF AppEmpty, TypeOK, PlaceInv
  <2>3. CASE AppSleep
    BY <2>3 DEF AppSleep, TypeOK, PlaceInv
  <2>4. CASE AppWake
    BY <2>4 DEF AppWake, TypeOK, PlaceInv
  <2>5. CASE AppTake
    <3>1. PICK ol \in Offload : /\ ol = Head(rcvbuf) /\ Tail(rcvbuf) \in Seq(Offload)
                                /\ Len(Tail(rcvbuf)) <= RING
      BY <2>5, HeadTail, UdpAssumption DEF AppTake, TypeOK
    <3>2. PICK n \in Nat : n = (IF BUF < Len(ol.data) THEN BUF ELSE Len(ol.data))
      BY <3>1, UdpAssumption DEF Offload
    <3>3. ol.peer \in Peers /\ ol.data \in Seq(Cells) /\ n <= Len(ol.data)
      BY <3>2, UdpAssumption DEF Offload
    <3>4. buffer' \in [1 .. BUF -> Cells]
      <4>1. buffer' = [i \in 1 .. BUF |-> IF i <= n THEN ol.data[i] ELSE buffer[i]]
        BY <2>5, <3>1, <3>2 DEF AppTake
      <4>2. \A i \in 1 .. BUF : i <= n => ol.data[i] \in Cells
        BY <3>3
      <4>. QED
        BY <4>1, <4>2 DEF TypeOK
    <3>5. n < Len(ol.data) => [ol EXCEPT !.data = SubSeq(ol.data, n + 1, Len(ol.data))] \in Offload
      <4>1. SubSeq(ol.data, n + 1, Len(ol.data)) \in Seq(Cells)
        BY <3>3, SubSeqProperties
      <4>. QED
        BY <4>1 DEF Offload
    <3>6. /\ from' \in Peers /\ apc' \in {"rest", "reply"}
          /\ apc' = "rest" => rest' \in Offload
          /\ rest' \in Offload \cup {NoOffload}
      BY <2>5, <3>1, <3>2, <3>3, <3>5 DEF AppTake
    <3>. QED
      BY <2>5, <3>1, <3>4, <3>6 DEF AppTake, TypeOK, PlaceInv
  <2>6. CASE AppPutBack
    <3>1. rest \in Offload
      BY <2>6 DEF AppPutBack, PlaceInv
    <3>2. rcvbuf' \in Seq(Offload) /\ Len(rcvbuf') <= RING /\ lost' \in Nat
      <4>1. Put(rcvbuf, rest) \in Seq(Offload) /\ Len(Put(rcvbuf, rest)) <= RING
            /\ Dropped(rcvbuf) \in Nat
        BY <3>1, PutMembers DEF TypeOK
      <4>. QED
        BY <2>6, <4>1 DEF AppPutBack, Rest, TypeOK
    <3>. QED
      BY <2>6, <3>2 DEF AppPutBack, TypeOK, PlaceInv
  <2>7. CASE AppReply
    <3>1. sndbuf' \in Seq(Offload) /\ Len(sndbuf') <= RING /\ lost' \in Nat
      <4>1. CASE UNCHANGED <<sndbuf, lost>>
        BY <4>1 DEF TypeOK
      <4>2. ASSUME NEW text \in Text,
                   sndbuf' = Put(sndbuf, [peer |-> from, data |-> text]),
                   lost' = lost + Dropped(sndbuf)
            PROVE  sndbuf' \in Seq(Offload) /\ Len(sndbuf') <= RING /\ lost' \in Nat
        <5>1. [peer |-> from, data |-> text] \in Offload
          BY <2>7, TextCells DEF AppReply, PlaceInv, Offload
        <5>2. Put(sndbuf, [peer |-> from, data |-> text]) \in Seq(Offload)
              /\ Len(Put(sndbuf, [peer |-> from, data |-> text])) <= RING
              /\ Dropped(sndbuf) \in Nat
          BY <5>1, PutMembers DEF TypeOK
        <5>. QED
          BY <4>2, <5>2 DEF TypeOK
      <4>3. CASE lost' = lost + 1 /\ UNCHANGED sndbuf
        BY <4>3 DEF TypeOK
      <4>. QED
        BY <2>7, <4>1, <4>2, <4>3 DEF AppReply
    <3>2. apc' = "lock" /\ from' = NOBODY /\ fails' \in 0 .. MaxFails
      BY <2>7, FailTypes DEF AppReply, TypeOK
    <3>3. UNCHANGED <<sent, in, echoed, entries, rcvbuf, mutex, asleep, buffer, rest, ppc>>
      BY <2>7 DEF AppReply
    <3>. QED
      BY <3>1, <3>2, <3>3 DEF TypeOK, PlaceInv
  <2>. QED
    BY <1>3, <2>1, <2>2, <2>3, <2>4, <2>5, <2>6, <2>7 DEF App
<1>4. CASE SpuriousWake
  BY <1>4 DEF SpuriousWake, TypeOK, PlaceInv
<1>5. CASE UNCHANGED vars
  BY <1>5 DEF vars, TypeOK, PlaceInv
<1>. QED
  BY <1>1, <1>2, <1>3, <1>4, <1>5 DEF Next

\* Types of the state, for any peers, lengths and sizes.
THEOREM TypeCorrect == Spec => []TypeOK
<1>1. TypeInv => TypeOK
  BY DEF TypeInv
<1>. QED
  BY InitType, StepType, <1>1, PTL DEF Spec

-----------------------------------------------------------------------------
(* Whose units the echo carries.                                           *)

Own(p, data) == \A i \in 1 .. Len(data) : data[i] \in Units => data[i].peer = p

\* Cut into parts of BUF units, n units leave no last part shorter than the header.
Ends(n) == \A q \in Nat : \A s \in 1 .. H - 1 : n # (q * BUF) + s

\* A datagram, or what is left of one: its own units, and a zero among the last H.
Whole(ol) == /\ Own(ol.peer, ol.data)
             /\ Ends(Len(ol.data))
             /\ \E i \in 1 .. Len(ol.data) : i > Len(ol.data) - H /\ ol.data[i] = ZERO

\* The cells of a buffer before its first zero are of one peer.
TextOwn(buf, p) == \A i \in 1 .. BUF :
                      (\A j \in 1 .. i : buf[j] # ZERO) /\ buf[i] \in Units => buf[i].peer = p

OwnInv == Terminated =>
            /\ \A i \in 1 .. Len(rcvbuf) : Whole(rcvbuf[i])
            /\ apc = "rest" => Whole(rest)
            /\ apc \in {"rest", "reply"} => TextOwn(buffer, from)
            /\ \A i \in 1 .. Len(sndbuf) : Own(sndbuf[i].peer, sndbuf[i].data)
            /\ \A p \in Peers : Own(p, echoed[p])

\* A header is not empty and is smaller than the server's buffer.
LEMMA Sizes == H \in Nat \ {0} /\ BUF \in Nat \ {0} /\ H < BUF
<1>1. /\ H \in Nat \ {0} /\ ALIGN \in Nat /\ H < ALIGN
      /\ BUF \in Nat \ {0} /\ BUF % ALIGN = 0
  BY UdpAssumption
<1>2. BUF < ALIGN => BUF % ALIGN = BUF
  BY <1>1
<1>. QED
  BY <1>1, <1>2

\* The terminator and what lies past it are no units of a datagram.
LEMMA NotUnits == ZERO \notin Units /\ JUNK \notin Units
  BY UdpAssumption DEF ZERO, JUNK, Unit, Units

\* A length whose last part holds its terminator is one whose text ends.
LEMMA TerminatedEnds ==
    ASSUME NEW n \in Nat, ~Unterminated(n)
    PROVE  Ends(n + H)
<1>. SUFFICES ASSUME NEW q \in Nat, NEW s \in 1 .. H - 1, n + H = (q * BUF) + s
              PROVE  FALSE
  BY DEF Ends
<1>1. s \in 0 .. (BUF - 1)
  BY Sizes
<1>2. ((BUF * q) + s) % BUF = s
  BY <1>1, Sizes
<1>3. q * BUF = BUF * q
  BY Sizes
<1>. QED
  BY <1>2, <1>3 DEF Unterminated

\* A last part is not shorter than the header.
LEMMA EndsMinus ==
    ASSUME NEW n \in Nat, Ends(n), n > BUF
    PROVE  Ends(n - BUF) /\ n - BUF >= H
<1>1. Ends(n - BUF)
  <2>. SUFFICES ASSUME NEW q \in Nat, NEW s \in 1 .. H - 1, n - BUF = (q * BUF) + s
                PROVE  FALSE
    BY DEF Ends
  <2>1. q + 1 \in Nat /\ (q + 1) * BUF = (q * BUF) + BUF
    BY Sizes
  <2>2. n = ((q * BUF) + BUF) + s
    <3>1. PICK m \in Int : m = q * BUF
      BY Sizes
    <3>. QED
      BY <3>1, Sizes
  <2>. QED
    BY <2>1, <2>2 DEF Ends
<1>2. n - BUF >= H
  <2>. SUFFICES ASSUME n - BUF < H PROVE FALSE
    BY Sizes
  <2>1. n - BUF \in 1 .. H - 1
    BY Sizes
  <2>2. n = (1 * BUF) + (n - BUF)
    BY Sizes
  <2>. QED
    BY <2>1, <2>2 DEF Ends
<1>. QED
  BY <1>1, <1>2

\* A datagram as udp_process puts it in the ring.
LEMMA OffloadWhole ==
    ASSUME TypeOK, Terminated, NEW p \in Peers, NEW k \in 1 .. Len(sent[p]),
           k \in 1 .. MaxSent, NEW data \in Offloads([peer |-> p, dgram |-> k])
    PROVE  Whole([peer |-> p, data |-> data])
<1>1. PICK n \in Nat : n = sent[p][k]
  BY OffloadCells
<1>2. /\ Len(data) = n + H
      /\ \A i \in 1 .. n : data[i] \in Units /\ data[i].peer = p
      /\ \A i \in 1 .. Len(data) : i > n => data[i] \in {ZERO, JUNK}
      /\ \E i \in 1 .. Len(data) : i > n /\ data[i] = ZERO
  BY <1>1, OffloadCells
<1>3. ~Unterminated(n)
  <2>1. sent[p] \in Seq(Lengths)
    BY DEF TypeOK
  <2>2. k \in DOMAIN sent[p]
    BY <2>1
  <2>. QED
    BY <1>1, <2>2 DEF Terminated
<1>4. Own(p, data)
  <2>. SUFFICES ASSUME NEW i \in 1 .. Len(data), data[i] \in Units
                PROVE  data[i].peer = p
    BY DEF Own
  <2>1. CASE i > n
    BY <1>2, <2>1, NotUnits
  <2>2. CASE i <= n
    <3>1. i \in 1 .. n
      BY <1>1, <1>2, <2>2, Sizes
    <3>. QED
      BY <1>2, <3>1
  <2>. QED
    BY <1>1, <2>1, <2>2
<1>5. \E i \in 1 .. Len(data) : i > Len(data) - H /\ data[i] = ZERO
  BY <1>1, <1>2, Sizes
<1>6. Ends(Len(data))
  BY <1>1, <1>2, <1>3, TerminatedEnds
<1>. QED
  BY <1>4, <1>5, <1>6 DEF Whole

\* Of a long datagram the server takes BUF units and keeps a whole remainder.
LEMMA RemainderWhole ==
    ASSUME NEW ol \in Offload, Whole(ol), BUF < Len(ol.data)
    PROVE  Whole([ol EXCEPT !.data = SubSeq(ol.data, BUF + 1, Len(ol.data))])
<1>1. PICK n \in Nat : n = Len(ol.data)
  BY DEF Offload
<1>2. ol.data \in Seq(Cells) /\ ol.peer \in Peers
  BY DEF Offload
<1>3. PICK t \in Seq(Cells) :
         /\ t = SubSeq(ol.data, BUF + 1, Len(ol.data))
         /\ Len(t) = n - BUF
         /\ \A i \in 1 .. n - BUF : t[i] = ol.data[BUF + i]
  <2>1. \A i \in BUF + 1 .. n : ol.data[i] \in Cells
    BY <1>1, <1>2, Sizes
  <2>2. /\ SubSeq(ol.data, BUF + 1, n) \in Seq(Cells)
        /\ Len(SubSeq(ol.data, BUF + 1, n)) = IF BUF + 1 <= n THEN n - (BUF + 1) + 1 ELSE 0
        /\ \A i \in 1 .. n - (BUF + 1) + 1 :
              SubSeq(ol.data, BUF + 1, n)[i] = ol.data[BUF + 1 + i - 1]
    BY <2>1, Sizes, SubSeqProperties
  <2>3. n - (BUF + 1) + 1 = n - BUF /\ BUF + 1 <= n
    BY <1>1, Sizes
  <2>4. ASSUME NEW i \in 1 .. n - BUF
        PROVE  SubSeq(ol.data, BUF + 1, n)[i] = ol.data[BUF + i]
    <3>1. BUF + 1 + i - 1 = BUF + i
      BY Sizes
    <3>2. i \in 1 .. n - (BUF + 1) + 1
      BY <2>3
    <3>3. SubSeq(ol.data, BUF + 1, n)[i] = ol.data[BUF + 1 + i - 1]
      BY <2>2, <3>2
    <3>. QED
      BY <3>1, <3>3
  <2>5. Len(SubSeq(ol.data, BUF + 1, n)) = n - BUF
    BY <2>2, <2>3
  <2>. QED
    BY <1>1, <2>2, <2>4, <2>5
<1>4. Ends(n - BUF) /\ n - BUF >= H
  BY <1>1, EndsMinus DEF Whole
<1>5. Own(ol.peer, t)
  <2>. SUFFICES ASSUME NEW i \in 1 .. n - BUF, t[i] \in Units PROVE t[i].peer = ol.peer
    BY <1>3 DEF Own
  <2>1. PICK j \in Int : j = BUF + i
    BY Sizes
  <2>2. j \in 1 .. n
    BY <2>1, Sizes
  <2>3. t[i] = ol.data[j]
    BY <1>3, <2>1
  <2>. QED
    BY <1>1, <2>2, <2>3 DEF Whole, Own
<1>6. \E i \in 1 .. Len(t) : i > Len(t) - H /\ t[i] = ZERO
  <2>1. PICK j \in 1 .. n : j > n - H /\ ol.data[j] = ZERO
    BY <1>1 DEF Whole
  <2>2. PICK i \in Int : i = j - BUF
    BY <2>1, Sizes
  <2>3. i \in 1 .. n - BUF /\ i > (n - BUF) - H /\ BUF + i = j
    BY <1>1, <1>4, <2>1, <2>2, Sizes
  <2>. QED
    BY <1>3, <2>1, <2>3
<1>. QED
  BY <1>1, <1>2, <1>3, <1>4, <1>5, <1>6 DEF Whole, Offload

\* Whatever was in the buffer, after the copy its text is of one peer.
LEMMA TextIsOwn ==
    ASSUME NEW ol \in Offload, Whole(ol), NEW n \in Nat, NEW old,
           n = (IF BUF < Len(ol.data) THEN BUF ELSE Len(ol.data))
    PROVE  TextOwn([i \in 1 .. BUF |-> IF i <= n THEN ol.data[i] ELSE old[i]], ol.peer)
<1>. DEFINE new == [i \in 1 .. BUF |-> IF i <= n THEN ol.data[i] ELSE old[i]]
<1>0. Len(ol.data) \in Nat
  BY DEF Offload
<1>1. \A i \in 1 .. BUF : i <= n => new[i] = ol.data[i] /\ i \in 1 .. Len(ol.data)
  BY <1>0, Sizes
<1>2. \A i \in 1 .. BUF : i <= n /\ new[i] \in Units => new[i].peer = ol.peer
  BY <1>1 DEF Whole, Own
<1>3. n < BUF => \E i \in 1 .. BUF : i <= n /\ new[i] = ZERO
  <2>. SUFFICES ASSUME n < BUF PROVE \E i \in 1 .. BUF : i <= n /\ new[i] = ZERO
    OBVIOUS
  <2>1. n = Len(ol.data)
    BY <1>0, Sizes
  <2>2. PICK j \in 1 .. n : ol.data[j] = ZERO
    BY <2>1 DEF Whole
  <2>3. j \in 1 .. BUF /\ j <= n
    BY <2>2, Sizes
  <2>. QED
    BY <1>1, <2>2, <2>3
<1>. HIDE DEF new
<1>4. ASSUME NEW i \in 1 .. BUF, \A j \in 1 .. i : new[j] # ZERO, new[i] \in Units
      PROVE  new[i].peer = ol.peer
  <2>1. i <= n
    BY <1>3, <1>4, Sizes
  <2>. QED
    BY <1>2, <1>4, <2>1
<1>5. TextOwn(new, ol.peer)
  BY <1>4 DEF TextOwn
<1>. QED
  BY <1>5 DEF new

\* No step shortens what was sent.
LEMMA StepTerminated ==
    ASSUME TypeInv, [Next]_vars, Terminated'
    PROVE  Terminated
<1>1. CASE UNCHANGED sent
  BY <1>1 DEF Terminated
<1>2. ASSUME NEW p \in Peers, PeerSend(p) PROVE Terminated
  <2>1. PICK n \in Lengths : sent' = [sent EXCEPT ![p] = Append(@, n)]
    BY <1>2 DEF PeerSend
  <2>2. \A q \in Peers : sent[q] \in Seq(Lengths) /\ sent' \in [Peers -> Seq(Lengths)]
    BY <2>1 DEF TypeInv, TypeOK
  <2>3. \A q \in Peers : \A k \in DOMAIN sent[q] :
           k \in DOMAIN sent'[q] /\ sent'[q][k] = sent[q][k]
    BY <2>1, <2>2
  <2>. QED
    BY <2>3 DEF Terminated
<1>. QED
  BY <1>1, <1>2
     DEF Next, vars, netVars, Pkt, PktDrop, PktReceive, PktSignal, PktOut, App, AppLock,
         AppEmpty, AppSleep, AppWake, AppTake, AppPutBack, AppReply, SpuriousWake

\* Nothing is anyone's at the start.
LEMMA InitOwn == Init => OwnInv
  BY DEF Init, OwnInv, Own

\* An echo of a peer's own units, after its own, is its own.
LEMMA ConcatOwn ==
    ASSUME NEW p, NEW e \in Seq(Cells), NEW t \in Seq(Cells), Own(p, e), Own(p, t)
    PROVE  Own(p, e \o t)
<1>1. /\ Len(e \o t) = Len(e) + Len(t) /\ Len(e) \in Nat /\ Len(t) \in Nat
      /\ \A i \in 1 .. Len(e) + Len(t) :
            (e \o t)[i] = IF i <= Len(e) THEN e[i] ELSE t[i - Len(e)]
  BY ConcatProperties
<1>. SUFFICES ASSUME NEW i \in 1 .. Len(e) + Len(t), (e \o t)[i] \in Units
              PROVE  (e \o t)[i].peer = p
  BY <1>1 DEF Own
<1>2. CASE i <= Len(e)
  <2>1. i \in 1 .. Len(e) /\ (e \o t)[i] = e[i]
    BY <1>1, <1>2
  <2>. QED
    BY <2>1 DEF Own
<1>3. CASE ~(i <= Len(e))
  <2>1. i - Len(e) \in 1 .. Len(t) /\ (e \o t)[i] = t[i - Len(e)]
    BY <1>1, <1>3
  <2>. QED
    BY <2>1 DEF Own
<1>. QED
  BY <1>2, <1>3

\* What is put in a ring is whole, or own, if the rest of the ring is.
LEMMA PutWhole ==
    ASSUME NEW ring \in Seq(Offload), Len(ring) <= RING, NEW ol \in Offload,
           \A i \in 1 .. Len(ring) : Whole(ring[i]), Whole(ol)
    PROVE  \A i \in 1 .. Len(Put(ring, ol)) : Whole(Put(ring, ol)[i])
<1>1. \A i \in 1 .. Len(Put(ring, ol)) :
         Put(ring, ol)[i] = ol \/ \E j \in 1 .. Len(ring) : Put(ring, ol)[i] = ring[j]
  BY PutMembers
<1>. TAKE i \in 1 .. Len(Put(ring, ol))
<1>2. CASE Put(ring, ol)[i] = ol
  BY <1>2
<1>3. ASSUME NEW j \in 1 .. Len(ring), Put(ring, ol)[i] = ring[j]
      PROVE  Whole(Put(ring, ol)[i])
  BY <1>3
<1>. QED
  BY <1>1, <1>2, <1>3

\* Putting an offload of a peer's own units leaves the ring so.
LEMMA PutOwn ==
    ASSUME NEW ring \in Seq(Offload), Len(ring) <= RING, NEW ol \in Offload,
           \A i \in 1 .. Len(ring) : Own(ring[i].peer, ring[i].data), Own(ol.peer, ol.data)
    PROVE  \A i \in 1 .. Len(Put(ring, ol)) : Own(Put(ring, ol)[i].peer, Put(ring, ol)[i].data)
<1>1. \A i \in 1 .. Len(Put(ring, ol)) :
         Put(ring, ol)[i] = ol \/ \E j \in 1 .. Len(ring) : Put(ring, ol)[i] = ring[j]
  BY PutMembers
<1>. TAKE i \in 1 .. Len(Put(ring, ol))
<1>2. CASE Put(ring, ol)[i] = ol
  BY <1>2
<1>3. ASSUME NEW j \in 1 .. Len(ring), Put(ring, ol)[i] = ring[j]
      PROVE  Own(Put(ring, ol)[i].peer, Put(ring, ol)[i].data)
  BY <1>3
<1>. QED
  BY <1>1, <1>2, <1>3

\* Each step keeps each peer's units its own.
LEMMA StepOwn == TypeInv /\ OwnInv /\ [Next]_vars => OwnInv'
<1>. SUFFICES ASSUME TypeInv, OwnInv, [Next]_vars, Terminated' PROVE OwnInv'
  BY DEF OwnInv
<1>0. /\ Terminated
      /\ \A i \in 1 .. Len(rcvbuf) : Whole(rcvbuf[i])
      /\ apc = "rest" => Whole(rest)
      /\ apc \in {"rest", "reply"} => TextOwn(buffer, from)
      /\ \A i \in 1 .. Len(sndbuf) : Own(sndbuf[i].peer, sndbuf[i].data)
      /\ \A p \in Peers : Own(p, echoed[p])
  BY StepTerminated DEF OwnInv
<1>00. /\ rcvbuf \in Seq(Offload) /\ Len(rcvbuf) <= RING
       /\ sndbuf \in Seq(Offload) /\ Len(sndbuf) <= RING
       /\ echoed \in [Peers -> Seq(Cells)]
  BY DEF TypeInv, TypeOK
\* Most steps touch none of it.
<1>1. ASSUME UNCHANGED <<echoed, rcvbuf, sndbuf, buffer, from, rest>>,
             apc' \in {"rest", "reply"} => apc' = apc
      PROVE  OwnInv'
  BY <1>0, <1>1 DEF OwnInv
<1>2. ASSUME NEW p \in Peers, PeerSend(p) PROVE OwnInv'
  BY <1>1, <1>2 DEF PeerSend, ringVars, appVars
<1>3. CASE Pkt
  <2>1. CASE PktDrop
    BY <1>1, <2>1 DEF PktDrop, ringVars, appVars
  <2>2. CASE PktReceive
    <3>1. PICK d \in [peer : Peers, dgram : 1 .. MaxSent] :
             d = Head(in) /\ d.dgram \in 1 .. Len(sent[d.peer])
      <4>1. in \in Seq([peer : Peers, dgram : 1 .. MaxSent]) /\ in # <<>>
        BY <2>2 DEF PktReceive, TypeInv, TypeOK
      <4>2. Head(in) \in [peer : Peers, dgram : 1 .. MaxSent] /\ Head(in) = in[1]
            /\ 1 \in 1 .. Len(in)
        BY <4>1, HeadTail
      <4>. QED
        BY <4>2 DEF TypeInv, PlaceInv
    <3>2. PICK data \in Offloads(d) : rcvbuf' = Put(rcvbuf, [peer |-> d.peer, data |-> data])
      BY <2>2, <3>1 DEF PktReceive
    <3>3. d = [peer |-> d.peer, dgram |-> d.dgram]
      OBVIOUS
    <3>4. /\ [peer |-> d.peer, data |-> data] \in Offload
          /\ Whole([peer |-> d.peer, data |-> data])
      BY <1>0, <3>1, <3>2, <3>3, OffloadCells, OffloadWhole DEF TypeInv, Offload
    <3>5. \A i \in 1 .. Len(rcvbuf') : Whole(rcvbuf'[i])
      BY <1>0, <1>00, <3>2, <3>4, PutWhole
    <3>6. UNCHANGED <<echoed, sndbuf, apc, from, buffer, rest>>
      BY <2>2 DEF PktReceive, appVars
    <3>. QED
      BY <1>0, <3>5, <3>6 DEF OwnInv
  <2>3. CASE PktSignal
    BY <1>1, <2>3 DEF PktSignal, netVars, ringVars, appVars
  <2>4. CASE PktOut
    <3>1. PICK ol \in Offload :
             /\ ol = Head(sndbuf) /\ Own(ol.peer, ol.data)
             /\ Tail(sndbuf) \in Seq(Offload)
             /\ \A i \in 1 .. Len(Tail(sndbuf)) : Own(Tail(sndbuf)[i].peer, Tail(sndbuf)[i].data)
             /\ sndbuf' \in {Tail(sndbuf) \o Resolve(ol), Tail(sndbuf)}
             /\ echoed' \in {IF ol.peer \in entries
                             THEN [echoed EXCEPT ![ol.peer] = @ \o ol.data]
                             ELSE echoed, echoed}
      <4>1. sndbuf # <<>>
        BY <2>4 DEF PktOut
      <4>2. /\ Head(sndbuf) \in Offload /\ Head(sndbuf) = sndbuf[1] /\ 1 \in 1 .. Len(sndbuf)
            /\ Tail(sndbuf) \in Seq(Offload)
            /\ \A i \in 1 .. Len(Tail(sndbuf)) :
                  i + 1 \in 1 .. Len(sndbuf) /\ Tail(sndbuf)[i] = sndbuf[i + 1]
        BY <1>00, <4>1, HeadTail
      <4>. QED
        BY <1>0, <2>4, <4>2 DEF PktOut
    <3>2. \A i \in 1 .. Len(sndbuf') : Own(sndbuf'[i].peer, sndbuf'[i].data)
      <4>1. CASE sndbuf' = Append(Tail(sndbuf), ol)
        BY <3>1, <4>1
      <4>2. CASE sndbuf' = Tail(sndbuf)
        BY <3>1, <4>2
      <4>3. Tail(sndbuf) \o <<>> = Tail(sndbuf)
        BY <3>1, ConcatEmptySeq, Zenon
      <4>4. Tail(sndbuf) \o <<ol>> = Append(Tail(sndbuf), ol)
        BY <3>1
      <4>5. Resolve(ol) \in {<<>>, <<ol>>}
        BY DEF Resolve
      <4>6. Tail(sndbuf) \o Resolve(ol) \in {Tail(sndbuf), Append(Tail(sndbuf), ol)}
        BY <4>3, <4>4, <4>5
      <4>. QED
        BY <3>1, <4>1, <4>2, <4>6
    <3>3. ASSUME NEW p \in Peers PROVE Own(p, echoed'[p])
      <4>1. CASE echoed'[p] = echoed[p]
        BY <1>0, <4>1
      <4>2. CASE p = ol.peer /\ echoed'[p] = echoed[p] \o ol.data
        <5>1. PICK e \in Seq(Cells), t \in Seq(Cells) :
                 e = echoed[p] /\ t = ol.data /\ Own(p, e) /\ Own(p, t)
          BY <1>0, <1>00, <3>1, <4>2 DEF Offload
        <5>2. Own(p, e \o t)
          BY <5>1, ConcatOwn
        <5>. QED
          BY <4>2, <5>1, <5>2
      <4>. QED
        BY <1>00, <3>1, <4>1, <4>2
    <3>4. UNCHANGED <<rcvbuf, apc, from, buffer, rest>>
      BY <2>4 DEF PktOut, appVars
    <3>. QED
      BY <1>0, <3>2, <3>3, <3>4 DEF OwnInv
  <2>. QED
    BY <1>3, <2>1, <2>2, <2>3, <2>4 DEF Pkt
<1>4. CASE App
  <2>. USE DEF AppGoto
  <2>1. CASE AppLock
    BY <1>1, <2>1 DEF AppLock, netVars, ringVars
  <2>2. CASE AppEmpty
    BY <1>1, <2>2 DEF AppEmpty, netVars, ringVars
  <2>3. CASE AppSleep
    BY <1>1, <2>3 DEF AppSleep, netVars, ringVars
  <2>4. CASE AppWake
    BY <1>1, <2>4 DEF AppWake, netVars, ringVars
  <2>5. CASE AppTake
    <3>1. PICK ol \in Offload :
             /\ ol = Head(rcvbuf) /\ Whole(ol)
             /\ rcvbuf' \in Seq(Offload)
             /\ \A i \in 1 .. Len(rcvbuf') : Whole(rcvbuf'[i])
      <4>1. rcvbuf # <<>> /\ rcvbuf' = Tail(rcvbuf)
        BY <2>5 DEF AppTake
      <4>2. /\ Head(rcvbuf) \in Offload /\ Head(rcvbuf) = rcvbuf[1] /\ 1 \in 1 .. Len(rcvbuf)
            /\ Tail(rcvbuf) \in Seq(Offload)
            /\ \A i \in 1 .. Len(Tail(rcvbuf)) :
                  i + 1 \in 1 .. Len(rcvbuf) /\ Tail(rcvbuf)[i] = rcvbuf[i + 1]
        BY <1>00, <4>1, HeadTail
      <4>. QED
        BY <1>0, <4>1, <4>2
    <3>2. PICK n \in Nat : n = (IF BUF < Len(ol.data) THEN BUF ELSE Len(ol.data))
      BY UdpAssumption DEF Offload
    <3>3. /\ from' = ol.peer
          /\ buffer' = [i \in 1 .. BUF |-> IF i <= n THEN ol.data[i] ELSE buffer[i]]
          /\ apc' = "rest" => n < Len(ol.data)
          /\ n < Len(ol.data) =>
                rest' = [ol EXCEPT !.data = SubSeq(ol.data, n + 1, Len(ol.data))]
      BY <2>5, <3>1, <3>2 DEF AppTake
    <3>4. TextOwn(buffer', from')
      BY <3>1, <3>2, <3>3, TextIsOwn
    <3>5. apc' = "rest" => Whole(rest')
      <4>1. n < Len(ol.data) => n = BUF /\ BUF < Len(ol.data)
        BY <3>2, UdpAssumption DEF Offload
      <4>. QED
        BY <3>1, <3>3, <4>1, RemainderWhole
    <3>6. UNCHANGED <<echoed, sndbuf>>
      BY <2>5 DEF AppTake, netVars
    <3>. QED
      BY <1>0, <3>1, <3>4, <3>5, <3>6 DEF OwnInv
  <2>6. CASE AppPutBack
    <3>1. rest \in Offload /\ Whole(rest) /\ TextOwn(buffer, from)
      BY <1>0, <2>6 DEF AppPutBack, TypeInv, PlaceInv
    <3>2. \A i \in 1 .. Len(rcvbuf') : Whole(rcvbuf'[i])
      BY <1>0, <1>00, <2>6, <3>1, PutWhole DEF AppPutBack, Rest
    <3>3. apc' = "reply" /\ UNCHANGED <<echoed, sndbuf, from, buffer>>
      BY <2>6 DEF AppPutBack, netVars
    <3>. QED
      BY <1>0, <3>1, <3>2, <3>3 DEF OwnInv
  <2>7. CASE AppReply
    <3>1. \A i \in 1 .. Len(sndbuf') : Own(sndbuf'[i].peer, sndbuf'[i].data)
      <4>1. CASE UNCHANGED sndbuf
        BY <1>0, <4>1
      <4>2. ASSUME NEW text \in Text,
                   sndbuf' = Put(sndbuf, [peer |-> from, data |-> text])
            PROVE  \A i \in 1 .. Len(sndbuf') : Own(sndbuf'[i].peer, sndbuf'[i].data)
        <5>1. from \in Peers /\ TextOwn(buffer, from)
          BY <1>0, <2>7 DEF AppReply, TypeInv, PlaceInv
        <5>2. /\ text \in Seq(Cells)
              /\ \A i \in 1 .. Len(text) :
                    \/ /\ i \in 1 .. BUF /\ text[i] = buffer[i]
                       /\ \A j \in 1 .. i : buffer[j] # ZERO
                    \/ text[i] = JUNK
          BY TextCells DEF TypeInv
        <5>3. Own(from, text)
          BY <5>1, <5>2, NotUnits DEF Own, TextOwn
        <5>4. [peer |-> from, data |-> text] \in Offload
          BY <5>1, <5>2 DEF Offload
        <5>. QED
          BY <1>0, <1>00, <4>2, <5>3, <5>4, PutOwn
      <4>. QED
        BY <2>7, <4>1, <4>2 DEF AppReply
    <3>2. apc' = "lock" /\ UNCHANGED <<echoed, rcvbuf>>
      BY <2>7 DEF AppReply, netVars
    <3>. QED
      BY <1>0, <3>1, <3>2 DEF OwnInv
  <2>. QED
    BY <1>4, <2>1, <2>2, <2>3, <2>4, <2>5, <2>6, <2>7 DEF App
<1>5. CASE SpuriousWake
  BY <1>1, <1>5 DEF SpuriousWake, netVars, ringVars, appVars
<1>6. CASE UNCHANGED vars
  BY <1>1, <1>6 DEF vars, netVars, ringVars, appVars
<1>. QED
  BY <1>2, <1>3, <1>4, <1>5, <1>6 DEF Next

\* The buffer of udp_server_entry is shared by all peers, never cleared and sent as a
\* string (1585-1598), and a long datagram goes through it in parts that mix with the
\* others'.  Still no peer is sent a unit of another, unless a datagram's length puts
\* the end of the ol->length bytes, but not all H of the header's, past a multiple of
\* the buffer.
THEOREM EchoIsPrivate == Spec => []EchoStaysWithPeer
<1>1. TypeInv /\ OwnInv => EchoStaysWithPeer
  <2>. SUFFICES ASSUME TypeInv, OwnInv, Terminated, NEW p \in Peers, NEW i \in DOMAIN echoed[p],
                       echoed[p][i] \in Units
                PROVE  echoed[p][i].peer = p
    BY DEF EchoStaysWithPeer
  <2>1. DOMAIN echoed[p] = 1 .. Len(echoed[p])
    BY DEF TypeInv, TypeOK
  <2>. QED
    BY <2>1 DEF OwnInv, Own
<1>. QED
  BY InitType, StepType, InitOwn, StepOwn, <1>1, PTL DEF Spec

-----------------------------------------------------------------------------
(* No unit is twice: the places a unit can be at, and how a step moves them. *)

\* The j-th unit of the i-th datagram of the in ring, of the i-th offload of a ring, of
\* the remainder that goes back, of the text in the buffer, of what peer i got.
AtIn(i, j, u) == /\ i \in 1 .. Len(in) /\ j = u.pos
                 /\ in[i].peer = u.peer /\ in[i].dgram = u.dgram
AtRing(ring, i, j, u) == /\ i \in 1 .. Len(ring)
                         /\ j \in 1 .. Len(ring[i].data) /\ ring[i].data[j] = u
AtRest(j, u) == apc = "rest" /\ j \in 1 .. Len(rest.data) /\ rest.data[j] = u
AtBuffer(j, u) == /\ apc \in {"rest", "reply"} /\ j \in 1 .. BUF /\ buffer[j] = u
                  /\ \A l \in 1 .. j : buffer[l] # ZERO
AtPeer(i, j, u) == i \in Peers /\ j \in 1 .. Len(echoed[i]) /\ echoed[i][j] = u

At(k, i, j, u) == \/ k = "in" /\ AtIn(i, j, u)
                  \/ k = "rcvbuf" /\ AtRing(rcvbuf, i, j, u)
                  \/ k = "rest" /\ i = 0 /\ AtRest(j, u)
                  \/ k = "buffer" /\ i = 0 /\ AtBuffer(j, u)
                  \/ k = "sndbuf" /\ AtRing(sndbuf, i, j, u)
                  \/ k = "echoed" /\ AtPeer(i, j, u)

Alone == \A u \in Units : \A k, i, j, k2, i2, j2 :
            At(k, i, j, u) /\ At(k2, i2, j2, u) => k = k2 /\ i = i2 /\ j = j2

\* Only what was sent is anywhere.
Known == \A u \in Units : \A k, i, j : At(k, i, j, u) => u.dgram \in 1 .. Len(sent[u.peer])

OnceInv == Terminated => Alone /\ Known

\* No unit is anywhere at the start.
LEMMA InitOnce == Init => OnceInv
<1>. SUFFICES ASSUME Init, NEW u \in Units, NEW k, NEW i, NEW j PROVE ~At(k, i, j, u)
  BY DEF OnceInv, Alone, Known
<1>1. Len(in) = 0 /\ Len(rcvbuf) = 0 /\ Len(sndbuf) = 0 /\ apc = "lock"
  BY DEF Init
<1>2. \A p \in Peers : Len(echoed[p]) = 0
  BY DEF Init
<1>. QED
  BY <1>1, <1>2 DEF At, AtIn, AtRing, AtRest, AtBuffer, AtPeer

\* What a ring holds after an offload is put: what it held, and the offload last if it fits.
LEMMA PutPlaces ==
    ASSUME NEW S, NEW ring \in Seq(S), NEW ol \in S
    PROVE  \A i \in 1 .. Len(Put(ring, ol)) :
              \/ i = Len(ring) + 1 /\ Put(ring, ol)[i] = ol
              \/ i \in 1 .. Len(ring) /\ Put(ring, ol)[i] = ring[i]
  BY UdpAssumption DEF Put

\* What the text of the buffer shows after a copy is of the copy.
LEMMA TextIsTaken ==
    ASSUME NEW ol \in Offload, Whole(ol), NEW n \in Nat, NEW new,
           n = (IF BUF < Len(ol.data) THEN BUF ELSE Len(ol.data)),
           \A i \in 1 .. BUF : i <= n => new[i] = ol.data[i]
    PROVE  \A j \in 1 .. BUF : (\A l \in 1 .. j : new[l] # ZERO) =>
              j \in 1 .. n /\ j \in 1 .. Len(ol.data) /\ new[j] = ol.data[j]
<1>. SUFFICES ASSUME NEW j \in 1 .. BUF, \A l \in 1 .. j : new[l] # ZERO
              PROVE  j \in 1 .. n /\ j \in 1 .. Len(ol.data) /\ new[j] = ol.data[j]
  OBVIOUS
<1>1. Len(ol.data) \in Nat
  BY DEF Offload
<1>2. j <= n
  <2>. SUFFICES ASSUME ~(j <= n) PROVE FALSE
    OBVIOUS
  <2>1. n = Len(ol.data)
    BY <1>1, Sizes
  <2>2. PICK l \in 1 .. n : ol.data[l] = ZERO
    BY <2>1 DEF Whole
  <2>3. l \in 1 .. j /\ l \in 1 .. BUF /\ new[l] = ol.data[l]
    BY <2>2, Sizes
  <2>. QED
    BY <2>2, <2>3
<1>. QED
  BY <1>1, <1>2, Sizes

\* A new datagram is of units nobody has.
LEMMA OnceSend ==
    ASSUME TypeInv, Alone, Known, NEW p \in Peers, PeerSend(p)
    PROVE  Alone' /\ Known'
<1>1. PICK n \in Lengths : sent' = [sent EXCEPT ![p] = Append(@, n)]
  BY DEF PeerSend
<1>2. sent \in [Peers -> Seq(Lengths)] /\ Len(sent[p]) \in Nat
  BY DEF TypeInv, TypeOK
<1>3. Len(sent'[p]) = Len(sent[p]) + 1 /\ \A q \in Peers : q # p => sent'[q] = sent[q]
  BY <1>1, <1>2
<1>4. PICK d : d = [peer |-> p, dgram |-> Len(sent[p]) + 1] /\ in' = Append(in, d)
  BY DEF PeerSend
<1>5. \A i \in 1 .. Len(in') : \/ i = Len(in) + 1 /\ in'[i] = d
                               \/ i \in 1 .. Len(in) /\ in'[i] = in[i]
  <2>1. in \in Seq([peer : Peers, dgram : 1 .. MaxSent])
    BY DEF TypeInv, TypeOK
  <2>. QED
    BY <1>4, <2>1
<1>6. UNCHANGED <<echoed, rcvbuf, sndbuf, apc, buffer, rest>>
  BY DEF PeerSend, ringVars, appVars
<1>7. ASSUME NEW u \in Units, NEW k, NEW i, NEW j, At(k, i, j, u)'
      PROVE  \/ At(k, i, j, u)
             \/ /\ k = "in" /\ i = Len(in) + 1 /\ j = u.pos
                /\ u.peer = p /\ u.dgram = Len(sent[p]) + 1
  BY <1>4, <1>5, <1>6, <1>7 DEF At, AtIn, AtRing, AtRest, AtBuffer, AtPeer
<1>8. Known'
  <2>. SUFFICES ASSUME NEW u \in Units, NEW k, NEW i, NEW j, At(k, i, j, u)'
                PROVE  u.dgram \in 1 .. Len(sent'[u.peer])
    BY DEF Known
  <2>1. u.peer \in Peers
    BY DEF Units
  <2>2. CASE At(k, i, j, u)
    <3>1. u.dgram \in 1 .. Len(sent[u.peer])
      BY <2>2 DEF Known
    <3>. QED
      BY <1>2, <1>3, <2>1, <3>1
  <2>3. CASE u.peer = p /\ u.dgram = Len(sent[p]) + 1
    BY <1>2, <1>3, <2>3
  <2>. QED
    BY <1>7, <2>2, <2>3
<1>9. Alone'
  <2>. SUFFICES ASSUME NEW u \in Units, NEW k, NEW i, NEW j, NEW k2, NEW i2, NEW j2,
                       At(k, i, j, u)', At(k2, i2, j2, u)'
                PROVE  k = k2 /\ i = i2 /\ j = j2
    BY DEF Alone
  <2>1. (u.peer = p /\ u.dgram = Len(sent[p]) + 1) => \A a, b, c : ~At(a, b, c, u)
    BY <1>2 DEF Known
  <2>. QED
    BY <1>7, <2>1 DEF Alone
<1>. QED
  BY <1>8, <1>9

\* A datagram that leaves the in ring.
LEMMA InTail ==
    ASSUME TypeInv, in # <<>>, in' = Tail(in)
    PROVE  \A u : \A i, j : AtIn(i, j, u)' => i \in Nat \ {0} /\ AtIn(i + 1, j, u)
<1>1. \A i \in 1 .. Len(in') : i \in Nat \ {0} /\ i + 1 \in 1 .. Len(in) /\ in'[i] = in[i + 1]
  <2>1. in \in Seq([peer : Peers, dgram : 1 .. MaxSent])
    BY DEF TypeInv, TypeOK
  <2>. QED
    BY <2>1, HeadTail
<1>. QED
  BY <1>1 DEF AtIn

\* A dropped datagram takes its units with it.
LEMMA OnceDrop ==
    ASSUME TypeInv, Alone, Known, PktDrop
    PROVE  Alone' /\ Known'
<1>1. /\ in # <<>> /\ in' = Tail(in)
      /\ UNCHANGED <<sent, echoed, rcvbuf, sndbuf, apc, buffer, rest>>
  BY DEF PktDrop, appVars
<1>2. ASSUME NEW u \in Units, NEW k, NEW i, NEW j, At(k, i, j, u)'
      PROVE  \/ k = "in" /\ i \in Nat \ {0} /\ At("in", i + 1, j, u)
             \/ k # "in" /\ At(k, i, j, u)
  BY <1>1, <1>2, InTail DEF At, AtRing, AtRest, AtBuffer, AtPeer
<1>. QED
  BY <1>1, <1>2 DEF Alone, Known

\* A datagram becomes an offload: its units, and what is behind them.
LEMMA NewOffload ==
    ASSUME TypeInv, PktReceive
    PROVE  \E d \in [peer : Peers, dgram : 1 .. MaxSent], data \in Seq(Cells), n \in Nat :
              /\ d = in[1] /\ 1 \in 1 .. Len(in) /\ d.dgram \in 1 .. Len(sent[d.peer])
              /\ n = sent[d.peer][d.dgram]
              /\ \A i \in 1 .. n : data[i] = Unit(d.peer, d.dgram, i)
              /\ \A i \in 1 .. Len(data) : i > n => data[i] \in {ZERO, JUNK}
              /\ [peer |-> d.peer, data |-> data] \in Offload
              /\ rcvbuf' = Put(rcvbuf, [peer |-> d.peer, data |-> data])
<1>1. in # <<>>
  BY DEF PktReceive
<1>2. in \in Seq([peer : Peers, dgram : 1 .. MaxSent])
  BY DEF TypeInv, TypeOK
<1>3. PICK d \in [peer : Peers, dgram : 1 .. MaxSent] :
         d = in[1] /\ d = Head(in) /\ 1 \in 1 .. Len(in) /\ d.dgram \in 1 .. Len(sent[d.peer])
  BY <1>1, <1>2, HeadTail DEF TypeInv, PlaceInv
<1>4. PICK data \in Offloads(d) : rcvbuf' = Put(rcvbuf, [peer |-> d.peer, data |-> data])
  BY <1>3 DEF PktReceive
<1>5. d = [peer |-> d.peer, dgram |-> d.dgram]
  OBVIOUS
<1>6. PICK n \in Nat :
         /\ data \in Seq(Cells) /\ n = sent[d.peer][d.dgram]
         /\ \A i \in 1 .. n : data[i] = Unit(d.peer, d.dgram, i)
         /\ \A i \in 1 .. Len(data) : i > n => data[i] \in {ZERO, JUNK}
  <2>1. PICK p \in Peers, m \in 1 .. MaxSent :
           p = d.peer /\ m = d.dgram /\ m \in 1 .. Len(sent[p])
    BY <1>3
  <2>2. data \in Offloads([peer |-> p, dgram |-> m]) /\ TypeOK
    BY <1>4, <1>5, <2>1 DEF TypeInv
  <2>3. /\ data \in Seq(Cells) /\ sent[p][m] \in Nat
        /\ \A i \in 1 .. sent[p][m] : data[i] = Unit(p, m, i)
        /\ \A i \in 1 .. Len(data) : i > sent[p][m] => data[i] \in {ZERO, JUNK}
    BY <2>1, <2>2, OffloadCells
  <2>. QED
    BY <2>1, <2>3
<1>7. [peer |-> d.peer, data |-> data] \in Offload
  BY <1>6 DEF Offload
<1>. QED
  BY <1>3, <1>4, <1>6, <1>7

\* The units of the datagram go to the end of the receive ring.
LEMMA ReceiveMoves ==
    ASSUME TypeInv, PktReceive
    PROVE  \A u \in Units : \A k, i, j : At(k, i, j, u)' =>
              \/ k = "in" /\ i \in Nat \ {0} /\ At("in", i + 1, j, u)
              \/ k = "rcvbuf" /\ i = Len(rcvbuf) + 1 /\ At("in", 1, j, u)
              \/ k = "rcvbuf" /\ i \in 1 .. Len(rcvbuf) /\ At("rcvbuf", i, j, u)
              \/ k \notin {"in", "rcvbuf"} /\ At(k, i, j, u)
<1>1. /\ in # <<>> /\ in' = Tail(in)
      /\ UNCHANGED <<sent, echoed, sndbuf, apc, buffer, rest>>
  BY DEF PktReceive, appVars
<1>2. rcvbuf \in Seq(Offload)
  BY DEF TypeInv, TypeOK
<1>3. PICK d \in [peer : Peers, dgram : 1 .. MaxSent], data \in Seq(Cells), n \in Nat :
         /\ d = in[1] /\ 1 \in 1 .. Len(in)
         /\ \A i \in 1 .. n : data[i] = Unit(d.peer, d.dgram, i)
         /\ \A i \in 1 .. Len(data) : i > n => data[i] \in {ZERO, JUNK}
         /\ [peer |-> d.peer, data |-> data] \in Offload
         /\ rcvbuf' = Put(rcvbuf, [peer |-> d.peer, data |-> data])
  BY NewOffload
<1>4. ASSUME NEW u \in Units, NEW j \in 1 .. Len(data), data[j] = u
      PROVE  AtIn(1, j, u)
  <2>1. j \in 1 .. n
    BY <1>3, <1>4, NotUnits
  <2>2. u = Unit(d.peer, d.dgram, j)
    BY <1>3, <1>4, <2>1
  <2>. QED
    BY <1>3, <2>2 DEF AtIn, Unit
<1>5. ASSUME NEW u \in Units, NEW i, NEW j, AtRing(rcvbuf, i, j, u)'
      PROVE  \/ i = Len(rcvbuf) + 1 /\ AtIn(1, j, u)
             \/ i \in 1 .. Len(rcvbuf) /\ AtRing(rcvbuf, i, j, u)
  <2>1. \/ i = Len(rcvbuf) + 1 /\ rcvbuf'[i] = [peer |-> d.peer, data |-> data]
        \/ i \in 1 .. Len(rcvbuf) /\ rcvbuf'[i] = rcvbuf[i]
    BY <1>2, <1>3, <1>5, PutPlaces DEF AtRing
  <2>. QED
    BY <1>4, <1>5, <2>1 DEF AtRing
<1>6. ASSUME NEW u \in Units, NEW k, NEW i, NEW j, At(k, i, j, u)'
       PROVE  \/ k = "in" /\ i \in Nat \ {0} /\ At("in", i + 1, j, u)
              \/ k = "rcvbuf" /\ i = Len(rcvbuf) + 1 /\ At("in", 1, j, u)
              \/ k = "rcvbuf" /\ i \in 1 .. Len(rcvbuf) /\ At("rcvbuf", i, j, u)
              \/ k \notin {"in", "rcvbuf"} /\ At(k, i, j, u)
  <2>1. CASE k = "in"
    BY <1>1, <1>6, <2>1, InTail DEF At
  <2>2. CASE k = "rcvbuf"
    BY <1>5, <1>6, <2>2 DEF At
  <2>3. CASE k \notin {"in", "rcvbuf"}
    BY <1>1, <1>6, <2>3 DEF At, AtRing, AtRest, AtBuffer, AtPeer
  <2>. QED
    BY <2>1, <2>2, <2>3
<1>. QED
  BY <1>6

\* So no unit comes twice in the ring.
LEMMA OnceReceive ==
    ASSUME TypeInv, Alone, Known, PktReceive
    PROVE  Alone' /\ Known'
<1>1. UNCHANGED sent /\ Len(rcvbuf) \in Nat
  BY DEF PktReceive, TypeInv, TypeOK
<1>2. Known'
  <2>. SUFFICES ASSUME NEW u \in Units, NEW k, NEW i, NEW j, At(k, i, j, u)'
                PROVE  u.dgram \in 1 .. Len(sent'[u.peer])
    BY DEF Known
  <2>1. \E a, b, c : At(a, b, c, u)
    BY ReceiveMoves
  <2>. QED
    BY <1>1, <2>1 DEF Known
<1>3. Alone'
  <2>. SUFFICES ASSUME NEW u \in Units, NEW k, NEW i, NEW j, NEW k2, NEW i2, NEW j2,
                       At(k, i, j, u)', At(k2, i2, j2, u)'
                PROVE  k = k2 /\ i = i2 /\ j = j2
    BY DEF Alone
  <2>. QED
    BY <1>1, ReceiveMoves DEF Alone
<1>. QED
  BY <1>2, <1>3

\* The first echo goes to its peer, or to the end of the ring.
LEMMA OutMoves ==
    ASSUME TypeInv, PktOut
    PROVE  \A u \in Units : \A k, i, j : At(k, i, j, u)' =>
              \/ /\ k = "sndbuf" /\ i \in 1 .. Len(sndbuf) - 1
                 /\ At("sndbuf", i + 1, j, u)
              \/ /\ k = "sndbuf" /\ sndbuf[1].peer \notin entries /\ i = Len(sndbuf)
                 /\ At("sndbuf", 1, j, u)
              \/ /\ k = "echoed" /\ sndbuf[1].peer \in entries /\ i = sndbuf[1].peer
                 /\ j - Len(echoed[i]) \in Nat \ {0} /\ j \in Int
                 /\ At("sndbuf", 1, j - Len(echoed[i]), u)
              \/ k # "sndbuf" /\ At(k, i, j, u)
<1>1. /\ sndbuf # <<>> /\ sndbuf \in Seq(Offload) /\ echoed \in [Peers -> Seq(Cells)]
      /\ UNCHANGED <<sent, in, rcvbuf, apc, buffer, rest>>
  BY DEF PktOut, appVars, TypeInv, TypeOK
<1>2. PICK ol \in Offload :
         /\ ol = Head(sndbuf) /\ ol = sndbuf[1] /\ 1 \in 1 .. Len(sndbuf)
         /\ Tail(sndbuf) \in Seq(Offload) /\ Len(Tail(sndbuf)) = Len(sndbuf) - 1
         /\ \A i \in 1 .. Len(Tail(sndbuf)) :
               i + 1 \in 1 .. Len(sndbuf) /\ Tail(sndbuf)[i] = sndbuf[i + 1]
  BY <1>1, HeadTail
<1>3. PICK l \in Nat \ {0} : l = Len(sndbuf)
  BY <1>1
<1>4. /\ \/ sndbuf' = Tail(sndbuf) \o Resolve(ol)
         \/ ol.peer \notin entries /\ sndbuf' = Tail(sndbuf)
      /\ echoed' = IF ol.peer \in entries
                   THEN [echoed EXCEPT ![ol.peer] = @ \o ol.data] ELSE echoed
  BY <1>2 DEF PktOut
<1>5. ASSUME NEW u \in Units, NEW i, NEW j, AtRing(sndbuf, i, j, u)'
      PROVE  \/ i \in 1 .. l - 1 /\ At("sndbuf", i + 1, j, u)
             \/ ol.peer \notin entries /\ i = l /\ At("sndbuf", 1, j, u)
  <2>1. CASE ol.peer \in entries \/ sndbuf' = Tail(sndbuf)
    <3>1. sndbuf' = Tail(sndbuf)
      <4>1. CASE ol.peer \in entries
        <5>1. sndbuf' = Tail(sndbuf) \o <<>>
          BY <1>4, <4>1 DEF Resolve
        <5>. QED
          BY <1>2, <5>1, ConcatEmptySeq, Zenon
      <4>. QED
        BY <2>1, <4>1
    <3>2. i \in 1 .. l - 1 /\ sndbuf'[i] = sndbuf[i + 1] /\ i + 1 \in 1 .. Len(sndbuf)
      BY <1>2, <1>3, <1>5, <3>1 DEF AtRing
    <3>. QED
      BY <1>5, <3>2 DEF AtRing, At
  <2>2. CASE ol.peer \notin entries /\ sndbuf' # Tail(sndbuf)
    <3>1. sndbuf' = Append(Tail(sndbuf), ol)
      BY <1>2, <1>4, <2>2 DEF Resolve
    <3>2. \/ i \in 1 .. l - 1 /\ sndbuf'[i] = sndbuf[i + 1] /\ i + 1 \in 1 .. Len(sndbuf)
          \/ i = l /\ sndbuf'[i] = sndbuf[1]
      <4>. DEFINE rem == Tail(sndbuf)
      <4>0. rem \in Seq(Offload) /\ l - 1 \in Nat
        BY <1>2
      <4>1. Len(rem) = l - 1 /\ sndbuf' = Append(rem, ol) /\ ol = sndbuf[1]
        BY <1>2, <1>3, <3>1
      <4>7. \A k \in 1 .. l - 1 : k + 1 \in 1 .. Len(sndbuf) /\ rem[k] = sndbuf[k + 1]
        BY <1>2, <4>1
      <4>. HIDE DEF rem
      <4>2. /\ Len(Append(rem, ol)) = l /\ Append(rem, ol)[l] = ol
            /\ \A k \in 1 .. l - 1 : Append(rem, ol)[k] = rem[k]
        BY <4>0, <4>1, AppendProperties
      <4>3. i \in 1 .. Len(sndbuf')
        BY <1>5 DEF AtRing
      <4>4. i \in 1 .. l
        BY <4>1, <4>2, <4>3
      <4>5. CASE i = l
        BY <4>1, <4>2, <4>5
      <4>6. CASE i \in 1 .. l - 1
        BY <4>1, <4>2, <4>6, <4>7
      <4>. QED
        BY <4>4, <4>5, <4>6
    <3>. QED
      BY <1>2, <1>5, <2>2, <3>2 DEF AtRing, At
  <2>. QED
    BY <2>1, <2>2
<1>6. ASSUME NEW u \in Units, NEW i, NEW j, AtPeer(i, j, u)'
      PROVE  \/ At("echoed", i, j, u)
             \/ /\ ol.peer \in entries /\ i = ol.peer
                /\ j - Len(echoed[i]) \in Nat \ {0} /\ j \in Int
                /\ At("sndbuf", 1, j - Len(echoed[i]), u)
  <2>1. i \in Peers /\ j \in 1 .. Len(echoed'[i]) /\ echoed'[i][j] = u
    BY <1>6 DEF AtPeer
  <2>2. CASE echoed'[i] = echoed[i]
    BY <2>1, <2>2 DEF AtPeer, At
  <2>3. CASE ol.peer \in entries /\ i = ol.peer /\ echoed'[i] = echoed[i] \o ol.data
    <3>1. PICK e \in Seq(Cells), t \in Seq(Cells) : e = echoed[i] /\ t = ol.data
      BY <1>1, <2>1 DEF Offload
    <3>2. /\ Len(e \o t) = Len(e) + Len(t) /\ Len(e) \in Nat /\ Len(t) \in Nat
          /\ \A m \in 1 .. Len(e) + Len(t) :
                (e \o t)[m] = IF m <= Len(e) THEN e[m] ELSE t[m - Len(e)]
      BY ConcatProperties
    <3>3. j \in 1 .. Len(e) + Len(t) /\ (e \o t)[j] = u
      BY <2>1, <2>3, <3>1, <3>2
    <3>4. CASE j <= Len(e)
      <4>1. j \in 1 .. Len(e) /\ e[j] = u
        BY <3>2, <3>3, <3>4
      <4>. QED
        BY <2>1, <3>1, <4>1 DEF AtPeer, At
    <3>5. CASE ~(j <= Len(e))
      <4>1. PICK m \in Int : m = j - Len(e)
        BY <3>2, <3>3
      <4>2. m \in 1 .. Len(t) /\ t[m] = u /\ m \in Nat \ {0} /\ j \in Int
        BY <3>2, <3>3, <3>5, <4>1
      <4>3. At("sndbuf", 1, m, u)
        BY <1>2, <3>1, <4>2 DEF At, AtRing
      <4>. QED
        BY <2>3, <3>1, <4>1, <4>2, <4>3
    <3>. QED
      BY <3>4, <3>5
  <2>. QED
    BY <1>1, <1>4, <2>1, <2>2, <2>3
<1>7. ASSUME NEW u \in Units, NEW k, NEW i, NEW j, At(k, i, j, u)'
      PROVE  \/ k = "sndbuf" /\ i \in 1 .. l - 1 /\ At("sndbuf", i + 1, j, u)
             \/ /\ k = "sndbuf" /\ ol.peer \notin entries /\ i = l
                /\ At("sndbuf", 1, j, u)
             \/ /\ k = "echoed" /\ ol.peer \in entries /\ i = ol.peer
                /\ j - Len(echoed[i]) \in Nat \ {0} /\ j \in Int
                /\ At("sndbuf", 1, j - Len(echoed[i]), u)
             \/ k # "sndbuf" /\ At(k, i, j, u)
  <2>1. CASE k = "sndbuf"
    BY <1>5, <1>7, <2>1 DEF At
  <2>2. CASE k = "echoed"
    BY <1>6, <1>7, <2>2 DEF At
  <2>3. CASE k \notin {"sndbuf", "echoed"}
    BY <1>1, <1>7, <2>3 DEF At, AtIn, AtRing, AtRest, AtBuffer
  <2>. QED
    BY <2>1, <2>2, <2>3
<1>. QED
  BY <1>2, <1>3, <1>7

\* So no unit is echoed twice, nor twice in the ring.
LEMMA OnceOut ==
    ASSUME TypeInv, Alone, Known, PktOut
    PROVE  Alone' /\ Known'
<1>1. UNCHANGED sent /\ sndbuf \in Seq(Offload) /\ sndbuf # <<>>
  BY DEF PktOut, TypeInv, TypeOK
<1>2. Len(sndbuf) \in Nat /\ Len(echoed[sndbuf[1].peer]) \in Nat
  <2>1. sndbuf[1] \in Offload
    BY <1>1, HeadTail
  <2>. QED
    BY <1>1, <2>1 DEF TypeInv, TypeOK, Offload
<1>3. Known'
  <2>. SUFFICES ASSUME NEW u \in Units, NEW k, NEW i, NEW j, At(k, i, j, u)'
                PROVE  u.dgram \in 1 .. Len(sent'[u.peer])
    BY DEF Known
  <2>1. \E a, b, c : At(a, b, c, u)
    BY OutMoves
  <2>. QED
    BY <1>1, <2>1 DEF Known
<1>4. Alone'
  <2>. SUFFICES ASSUME NEW u \in Units, NEW k, NEW i, NEW j, NEW k2, NEW i2, NEW j2,
                       At(k, i, j, u)', At(k2, i2, j2, u)'
                PROVE  k = k2 /\ i = i2 /\ j = j2
    BY DEF Alone
  <2>. QED
    BY <1>2, OutMoves DEF Alone
<1>. QED
  BY <1>3, <1>4

\* The server takes the first BUF units of an offload, whose text hides what was in the
\* buffer, and keeps the others.
LEMMA TakeMoves ==
    ASSUME TypeInv, AppTake, \A i \in 1 .. Len(rcvbuf) : Whole(rcvbuf[i])
    PROVE  \A u \in Units : \A k, i, j : At(k, i, j, u)' =>
              \/ k = "rcvbuf" /\ i \in Nat \ {0} /\ At("rcvbuf", i + 1, j, u)
              \/ k = "buffer" /\ i = 0 /\ j \in 1 .. BUF /\ At("rcvbuf", 1, j, u)
              \/ k = "rest" /\ i = 0 /\ j \in Nat \ {0} /\ At("rcvbuf", 1, BUF + j, u)
              \/ k \notin {"rcvbuf", "buffer", "rest"} /\ At(k, i, j, u)
<1>1. /\ rcvbuf # <<>> /\ rcvbuf' = Tail(rcvbuf) /\ rcvbuf \in Seq(Offload)
      /\ UNCHANGED <<sent, in, echoed, sndbuf>>
  BY DEF AppTake, netVars, TypeInv, TypeOK
<1>2. PICK ol \in Offload :
         /\ ol = Head(rcvbuf) /\ ol = rcvbuf[1] /\ 1 \in 1 .. Len(rcvbuf) /\ Whole(ol)
         /\ \A i \in 1 .. Len(rcvbuf') : /\ i \in Nat \ {0} /\ i + 1 \in 1 .. Len(rcvbuf)
                                        /\ rcvbuf'[i] = rcvbuf[i + 1]
  BY <1>1, HeadTail
<1>3. PICK n \in Nat : n = (IF BUF < Len(ol.data) THEN BUF ELSE Len(ol.data))
  BY UdpAssumption DEF Offload
<1>4. /\ buffer' = [i \in 1 .. BUF |-> IF i <= n THEN ol.data[i] ELSE buffer[i]]
      /\ apc' = "rest" => n < Len(ol.data)
      /\ n < Len(ol.data) =>
            rest' = [ol EXCEPT !.data = SubSeq(ol.data, n + 1, Len(ol.data))]
  BY <1>2, <1>3 DEF AppTake
<1>5. ASSUME NEW u \in Units, NEW j, AtBuffer(j, u)'
      PROVE  j \in 1 .. BUF /\ At("rcvbuf", 1, j, u)
  <2>1. j \in 1 .. BUF /\ buffer'[j] = u /\ \A m \in 1 .. j : buffer'[m] # ZERO
    BY <1>5 DEF AtBuffer
  <2>2. j \in 1 .. n /\ j \in 1 .. Len(ol.data) /\ buffer'[j] = ol.data[j]
    <3>1. \A i \in 1 .. BUF : i <= n => buffer'[i] = ol.data[i]
      BY <1>4
    <3>2. PICK new : new = buffer'
      OBVIOUS
    <3>3. \A i \in 1 .. BUF : i <= n => new[i] = ol.data[i]
      BY <3>1, <3>2
    <3>4. \A m \in 1 .. BUF : (\A l \in 1 .. m : new[l] # ZERO) =>
             m \in 1 .. n /\ m \in 1 .. Len(ol.data) /\ new[m] = ol.data[m]
      <4>1. Whole(ol)
        BY <1>2
      <4>. QED
        BY <1>3, <3>3, <4>1, TextIsTaken
    <3>. QED
      BY <2>1, <3>2, <3>4
  <2>. QED
    BY <1>2, <2>1, <2>2 DEF At, AtRing
<1>6. ASSUME NEW u \in Units, NEW j, AtRest(j, u)'
      PROVE  j \in Nat \ {0} /\ At("rcvbuf", 1, BUF + j, u)
  <2>1. ol.data \in Seq(Cells) /\ n < Len(ol.data) /\ Len(ol.data) \in Nat /\ n = BUF
    BY <1>3, <1>4, <1>6 DEF AtRest, Offload
  <2>2. rest'.data = SubSeq(ol.data, n + 1, Len(ol.data))
    BY <1>4, <2>1 DEF Offload
  <2>3. \A i \in n + 1 .. Len(ol.data) : ol.data[i] \in Cells
    BY <2>1
  <2>4. /\ Len(rest'.data) = Len(ol.data) - n
        /\ \A i \in 1 .. Len(ol.data) - n : rest'.data[i] = ol.data[n + i]
    BY <2>1, <2>2
  <2>5. j \in 1 .. Len(ol.data) - n /\ rest'.data[j] = u
    BY <1>6, <2>4 DEF AtRest
  <2>6. BUF + j \in 1 .. Len(ol.data) /\ ol.data[BUF + j] = u /\ j \in Nat \ {0}
    BY <2>1, <2>4, <2>5
  <2>. QED
    BY <1>2, <2>6 DEF At, AtRing
<1>7. ASSUME NEW u \in Units, NEW k, NEW i, NEW j, At(k, i, j, u)'
      PROVE  \/ k = "rcvbuf" /\ i \in Nat \ {0} /\ At("rcvbuf", i + 1, j, u)
             \/ k = "buffer" /\ i = 0 /\ j \in 1 .. BUF /\ At("rcvbuf", 1, j, u)
             \/ k = "rest" /\ i = 0 /\ j \in Nat \ {0} /\ At("rcvbuf", 1, BUF + j, u)
             \/ k \notin {"rcvbuf", "buffer", "rest"} /\ At(k, i, j, u)
  <2>1. CASE k = "rcvbuf"
    BY <1>2, <1>7, <2>1 DEF At, AtRing
  <2>2. CASE k = "buffer"
    BY <1>5, <1>7, <2>2 DEF At
  <2>3. CASE k = "rest"
    BY <1>6, <1>7, <2>3 DEF At
  <2>4. CASE k \notin {"rcvbuf", "buffer", "rest"}
    BY <1>1, <1>7, <2>4 DEF At, AtIn, AtRing, AtPeer
  <2>. QED
    BY <2>1, <2>2, <2>3, <2>4
<1>. QED
  BY <1>7

\* So no unit is both in the buffer and in the rest.
LEMMA OnceTake ==
    ASSUME TypeInv, Alone, Known, AppTake, \A i \in 1 .. Len(rcvbuf) : Whole(rcvbuf[i])
    PROVE  Alone' /\ Known'
<1>1. UNCHANGED sent /\ BUF \in Nat
  BY UdpAssumption DEF AppTake, netVars
<1>2. Known'
  <2>. SUFFICES ASSUME NEW u \in Units, NEW k, NEW i, NEW j, At(k, i, j, u)'
                PROVE  u.dgram \in 1 .. Len(sent'[u.peer])
    BY DEF Known
  <2>1. \E a, b, c : At(a, b, c, u)
    BY TakeMoves
  <2>. QED
    BY <1>1, <2>1 DEF Known
<1>3. Alone'
  <2>. SUFFICES ASSUME NEW u \in Units, NEW k, NEW i, NEW j, NEW k2, NEW i2, NEW j2,
                       At(k, i, j, u)', At(k2, i2, j2, u)'
                PROVE  k = k2 /\ i = i2 /\ j = j2
    BY DEF Alone
  <2>. QED
    BY <1>1, TakeMoves DEF Alone
<1>. QED
  BY <1>2, <1>3

\* The remainder goes to the end of the receive ring.
LEMMA PutBackMoves ==
    ASSUME TypeInv, AppPutBack
    PROVE  \A u \in Units : \A k, i, j : At(k, i, j, u)' =>
              \/ k = "rcvbuf" /\ i = Len(rcvbuf) + 1 /\ At("rest", 0, j, u)
              \/ k = "rcvbuf" /\ i \in 1 .. Len(rcvbuf) /\ At("rcvbuf", i, j, u)
              \/ k \notin {"rcvbuf", "rest"} /\ At(k, i, j, u)
<1>1. /\ apc = "rest" /\ apc' = "reply" /\ rcvbuf' = Put(rcvbuf, rest)
      /\ rcvbuf \in Seq(Offload) /\ rest \in Offload
      /\ UNCHANGED <<sent, in, echoed, sndbuf, buffer>>
  BY DEF AppPutBack, AppGoto, Rest, netVars, TypeInv, TypeOK, PlaceInv
<1>2. ASSUME NEW u \in Units, NEW k, NEW i, NEW j, At(k, i, j, u)'
      PROVE  \/ k = "rcvbuf" /\ i = Len(rcvbuf) + 1 /\ At("rest", 0, j, u)
             \/ k = "rcvbuf" /\ i \in 1 .. Len(rcvbuf) /\ At("rcvbuf", i, j, u)
             \/ k \notin {"rcvbuf", "rest"} /\ At(k, i, j, u)
  <2>1. CASE k = "rcvbuf"
    <3>1. i \in 1 .. Len(rcvbuf') /\ j \in 1 .. Len(rcvbuf'[i].data) /\ rcvbuf'[i].data[j] = u
      BY <1>2, <2>1 DEF At, AtRing
    <3>2. \/ i = Len(rcvbuf) + 1 /\ rcvbuf'[i] = rest
          \/ i \in 1 .. Len(rcvbuf) /\ rcvbuf'[i] = rcvbuf[i]
      BY <1>1, <3>1, PutPlaces
    <3>. QED
      BY <1>1, <2>1, <3>1, <3>2 DEF At, AtRing, AtRest
  <2>2. CASE k # "rcvbuf"
    BY <1>1, <1>2, <2>2 DEF At, AtIn, AtRing, AtRest, AtBuffer, AtPeer
  <2>. QED
    BY <2>1, <2>2
<1>. QED
  BY <1>2

\* So no unit is both in the ring and in the buffer.
LEMMA OncePutBack ==
    ASSUME TypeInv, Alone, Known, AppPutBack
    PROVE  Alone' /\ Known'
<1>1. UNCHANGED sent /\ Len(rcvbuf) \in Nat
  BY DEF AppPutBack, netVars, TypeInv, TypeOK
<1>2. Known'
  <2>. SUFFICES ASSUME NEW u \in Units, NEW k, NEW i, NEW j, At(k, i, j, u)'
                PROVE  u.dgram \in 1 .. Len(sent'[u.peer])
    BY DEF Known
  <2>1. \E a, b, c : At(a, b, c, u)
    BY PutBackMoves
  <2>. QED
    BY <1>1, <2>1 DEF Known
<1>3. Alone'
  <2>. SUFFICES ASSUME NEW u \in Units, NEW k, NEW i, NEW j, NEW k2, NEW i2, NEW j2,
                       At(k, i, j, u)', At(k2, i2, j2, u)'
                PROVE  k = k2 /\ i = i2 /\ j = j2
    BY DEF Alone
  <2>. QED
    BY <1>1, PutBackMoves DEF Alone
<1>. QED
  BY <1>2, <1>3

\* The text of the buffer goes to the end of the send ring.
LEMMA ReplyMoves ==
    ASSUME TypeInv, AppReply
    PROVE  \A u \in Units : \A k, i, j : At(k, i, j, u)' =>
              \/ k = "sndbuf" /\ i = Len(sndbuf) + 1 /\ At("buffer", 0, j, u)
              \/ k = "sndbuf" /\ i \in 1 .. Len(sndbuf) /\ At("sndbuf", i, j, u)
              \/ k \notin {"sndbuf", "buffer"} /\ At(k, i, j, u)
<1>1. /\ apc = "reply" /\ apc' = "lock" /\ sndbuf \in Seq(Offload) /\ from \in Peers
      /\ UNCHANGED <<sent, in, echoed, rcvbuf>>
  BY DEF AppReply, AppGoto, netVars, TypeInv, TypeOK, PlaceInv
<1>2. ASSUME NEW u \in Units, NEW i, NEW j, AtRing(sndbuf, i, j, u)'
      PROVE  \/ i = Len(sndbuf) + 1 /\ At("buffer", 0, j, u)
             \/ i \in 1 .. Len(sndbuf) /\ At("sndbuf", i, j, u)
  <2>1. i \in 1 .. Len(sndbuf') /\ j \in 1 .. Len(sndbuf'[i].data) /\ sndbuf'[i].data[j] = u
    BY <1>2 DEF AtRing
  <2>2. CASE UNCHANGED sndbuf
    BY <2>1, <2>2 DEF At, AtRing
  <2>3. ASSUME NEW text \in Text, sndbuf' = Put(sndbuf, [peer |-> from, data |-> text])
        PROVE  \/ i = Len(sndbuf) + 1 /\ At("buffer", 0, j, u)
               \/ i \in 1 .. Len(sndbuf) /\ At("sndbuf", i, j, u)
    <3>1. /\ text \in Seq(Cells)
          /\ \A m \in 1 .. Len(text) :
                \/ /\ m \in 1 .. BUF /\ text[m] = buffer[m]
                   /\ \A l \in 1 .. m : buffer[l] # ZERO
                \/ text[m] = JUNK
      BY TextCells DEF TypeInv
    <3>2. [peer |-> from, data |-> text] \in Offload
      BY <1>1, <3>1 DEF Offload
    <3>3. \/ i = Len(sndbuf) + 1 /\ sndbuf'[i] = [peer |-> from, data |-> text]
          \/ i \in 1 .. Len(sndbuf) /\ sndbuf'[i] = sndbuf[i]
      BY <1>1, <2>1, <2>3, <3>2, PutPlaces
    <3>4. CASE sndbuf'[i] = [peer |-> from, data |-> text]
      <4>1. j \in 1 .. Len(text) /\ text[j] = u
        BY <2>1, <3>4
      <4>2. AtBuffer(j, u)
        BY <1>1, <3>1, <4>1, NotUnits DEF AtBuffer
      <4>. QED
        BY <2>1, <3>3, <4>2 DEF At, AtRing
    <3>5. CASE i \in 1 .. Len(sndbuf) /\ sndbuf'[i] = sndbuf[i]
      BY <2>1, <3>5 DEF At, AtRing
    <3>. QED
      BY <3>3, <3>4, <3>5
  <2>. QED
    BY <2>2, <2>3 DEF AppReply
<1>3. ASSUME NEW u \in Units, NEW k, NEW i, NEW j, At(k, i, j, u)'
      PROVE  \/ k = "sndbuf" /\ i = Len(sndbuf) + 1 /\ At("buffer", 0, j, u)
             \/ k = "sndbuf" /\ i \in 1 .. Len(sndbuf) /\ At("sndbuf", i, j, u)
             \/ k \notin {"sndbuf", "buffer"} /\ At(k, i, j, u)
  <2>1. CASE k = "sndbuf"
    BY <1>2, <1>3, <2>1 DEF At
  <2>2. CASE k # "sndbuf"
    BY <1>1, <1>3, <2>2 DEF At, AtIn, AtRing, AtRest, AtBuffer, AtPeer
  <2>. QED
    BY <2>1, <2>2
<1>. QED
  BY <1>3

\* So no unit is both in the ring and in the text.
LEMMA OnceReply ==
    ASSUME TypeInv, Alone, Known, AppReply
    PROVE  Alone' /\ Known'
<1>1. UNCHANGED sent /\ Len(sndbuf) \in Nat
  BY DEF AppReply, netVars, TypeInv, TypeOK
<1>2. Known'
  <2>. SUFFICES ASSUME NEW u \in Units, NEW k, NEW i, NEW j, At(k, i, j, u)'
                PROVE  u.dgram \in 1 .. Len(sent'[u.peer])
    BY DEF Known
  <2>1. \E a, b, c : At(a, b, c, u)
    BY ReplyMoves
  <2>. QED
    BY <1>1, <2>1 DEF Known
<1>3. Alone'
  <2>. SUFFICES ASSUME NEW u \in Units, NEW k, NEW i, NEW j, NEW k2, NEW i2, NEW j2,
                       At(k, i, j, u)', At(k2, i2, j2, u)'
                PROVE  k = k2 /\ i = i2 /\ j = j2
    BY DEF Alone
  <2>. QED
    BY <1>1, ReplyMoves DEF Alone
<1>. QED
  BY <1>2, <1>3

\* Each step leaves a unit in at most one place.
LEMMA StepOnce == TypeInv /\ OwnInv /\ OnceInv /\ [Next]_vars => OnceInv'
<1>. SUFFICES ASSUME TypeInv, OwnInv, OnceInv, [Next]_vars, Terminated' PROVE Alone' /\ Known'
  BY DEF OnceInv
<1>1. Terminated /\ Alone /\ Known
  BY StepTerminated DEF OnceInv
\* Other steps move nothing.
<1>2. ASSUME UNCHANGED <<sent, in, echoed, rcvbuf, sndbuf, buffer, rest>>,
             apc' \in {"rest", "reply"} => apc' = apc
      PROVE  Alone' /\ Known'
  <2>1. ASSUME NEW u \in Units, NEW k, NEW i, NEW j, At(k, i, j, u)' PROVE At(k, i, j, u)
    BY <1>2, <2>1 DEF At, AtIn, AtRing, AtRest, AtBuffer, AtPeer
  <2>2. Known'
    <3>. SUFFICES ASSUME NEW u \in Units, NEW k, NEW i, NEW j, At(k, i, j, u)'
                  PROVE  u.dgram \in 1 .. Len(sent'[u.peer])
      BY DEF Known
    <3>. QED
      BY <1>1, <1>2, <2>1 DEF Known
  <2>3. Alone'
    <3>. SUFFICES ASSUME NEW u \in Units, NEW k, NEW i, NEW j, NEW k2, NEW i2, NEW j2,
                         At(k, i, j, u)', At(k2, i2, j2, u)'
                  PROVE  k = k2 /\ i = i2 /\ j = j2
      BY DEF Alone
    <3>. QED
      BY <1>1, <2>1 DEF Alone
  <2>. QED
    BY <2>2, <2>3
<1>3. ASSUME NEW p \in Peers, PeerSend(p) PROVE Alone' /\ Known'
  BY <1>1, <1>3, OnceSend
<1>4. CASE Pkt
  <2>1. CASE PktSignal
    BY <1>2, <2>1 DEF PktSignal, netVars, ringVars, appVars
  <2>. QED
    BY <1>1, <1>4, <2>1, OnceDrop, OnceReceive, OnceOut DEF Pkt
<1>5. CASE App
  <2>. USE DEF AppGoto, netVars, ringVars
  <2>1. CASE AppLock
    BY <1>2, <2>1 DEF AppLock
  <2>2. CASE AppEmpty
    BY <1>2, <2>2 DEF AppEmpty
  <2>3. CASE AppSleep
    BY <1>2, <2>3 DEF AppSleep
  <2>4. CASE AppWake
    BY <1>2, <2>4 DEF AppWake
  <2>5. CASE AppTake
    <3>1. \A i \in 1 .. Len(rcvbuf) : Whole(rcvbuf[i])
      BY <1>1 DEF OwnInv
    <3>. QED
      BY <1>1, <2>5, <3>1, OnceTake
  <2>6. CASE AppPutBack
    BY <1>1, <2>6, OncePutBack
  <2>7. CASE AppReply
    BY <1>1, <2>7, OnceReply
  <2>. QED
    BY <1>5, <2>1, <2>2, <2>3, <2>4, <2>5, <2>6, <2>7 DEF App
<1>6. CASE SpuriousWake
  BY <1>2, <1>6 DEF SpuriousWake, netVars, ringVars, appVars
<1>7. CASE UNCHANGED vars
  BY <1>2, <1>7 DEF vars, netVars, ringVars, appVars
<1>. QED
  BY <1>3, <1>4, <1>5, <1>6, <1>7 DEF Next

\* A failed allocation or a full ring loses units, an unknown address sends an echo round
\* the ring, a long datagram goes back for its next part; still, while every length leaves
\* its terminator in the last part, no unit is echoed twice.
THEOREM EchoIsOnce == Spec => []EchoOnce
<1>1. TypeInv /\ OnceInv => EchoOnce
  <2>. SUFFICES ASSUME TypeInv, OnceInv, Terminated, NEW p \in Peers,
                       NEW i \in DOMAIN echoed[p], NEW j \in DOMAIN echoed[p],
                       echoed[p][i] = echoed[p][j], echoed[p][i] \in Units
                PROVE  i = j
    BY DEF EchoOnce
  <2>1. DOMAIN echoed[p] = 1 .. Len(echoed[p])
    BY DEF TypeInv, TypeOK
  <2>2. At("echoed", p, i, echoed[p][i]) /\ At("echoed", p, j, echoed[p][i])
    BY <2>1 DEF At, AtPeer
  <2>. QED
    BY <2>2 DEF OnceInv, Alone
<1>. QED
  BY InitType, StepType, InitOwn, StepOwn, InitOnce, StepOnce, <1>1, PTL DEF Spec

-----------------------------------------------------------------------------
(* The order of the units of a datagram, where nothing was dropped and no  *)
(* allocation failed: what is with the peer came first, then what is in the *)
(* send ring, then the text of the buffer, then what is left of a datagram.  *)

Ahead(k, i, j, k2, i2, j2) ==
    \/ k = "echoed" /\ k2 # "echoed"
    \/ k = "sndbuf" /\ k2 \in {"buffer", "rest", "rcvbuf"}
    \/ k = "buffer" /\ k2 \in {"rest", "rcvbuf"}
    \/ k = "sndbuf" /\ k2 = "sndbuf" /\ i < i2
    \/ k = k2 /\ i = i2 /\ j < j2

\* The units before u in its datagram are ahead of it.
Ordered(u, k, i, j) ==
    \A n \in 1 .. u.pos - 1 : \E k2, i2, j2 :
        At(k2, i2, j2, Unit(u.peer, u.dgram, n)) /\ Ahead(k2, i2, j2, k, i, j)

InOrder == \A u \in Units : \A k, i, j :
              k # "in" /\ At(k, i, j, u) =>
                  u.pos \in 1 .. sent[u.peer][u.dgram] /\ Ordered(u, k, i, j)

\* The units of an offload come first.
Solid(ol) == \A i \in 1 .. Len(ol.data) : ol.data[i] \in Units =>
                \A j \in 1 .. i : ol.data[j] \in Units

SolidInv == /\ \A i \in 1 .. Len(rcvbuf) : Solid(rcvbuf[i])
            /\ apc = "rest" => Solid(rest)

\* Whoever has a datagram under way is in the ARP table.
LocatedInv == /\ \A i \in 1 .. Len(rcvbuf) : rcvbuf[i].peer \in entries
              /\ \A i \in 1 .. Len(sndbuf) : sndbuf[i].peer \in entries
              /\ apc = "rest" => rest.peer \in entries
              /\ apc \in {"rest", "reply"} => from \in entries

Smooth == Terminated /\ fails = 0 /\ lost = 0

OrderInv == Smooth => SolidInv /\ LocatedInv /\ InOrder

\* A step that moves a unit, and those ahead of it ahead of its new place.
LEMMA StillOrdered ==
    ASSUME NEW u \in Units, NEW k, NEW i, NEW j, NEW k0, NEW i0, NEW j0,
           Ordered(u, k0, i0, j0),
           \A v \in Units : \A k2, i2, j2 :
              v.peer = u.peer /\ At(k2, i2, j2, v) /\ Ahead(k2, i2, j2, k0, i0, j0) =>
                 \E k3, i3, j3 : At(k3, i3, j3, v)' /\ Ahead(k3, i3, j3, k, i, j)
    PROVE  Ordered(u, k, i, j)'
<1>. SUFFICES ASSUME NEW n \in 1 .. u.pos - 1
              PROVE  \E k2, i2, j2 : At(k2, i2, j2, Unit(u.peer, u.dgram, n))'
                                     /\ Ahead(k2, i2, j2, k, i, j)
  BY DEF Ordered
<1>. DEFINE v == Unit(u.peer, u.dgram, n)
<1>1. v \in Units /\ v.peer = u.peer
  BY DEF Units, Unit
<1>2. PICK k2, i2, j2 : At(k2, i2, j2, v) /\ Ahead(k2, i2, j2, k0, i0, j0)
  BY DEF Ordered
<1>. HIDE DEF v
<1>3. \E k3, i3, j3 : At(k3, i3, j3, v)' /\ Ahead(k3, i3, j3, k, i, j)
  BY <1>1, <1>2
<1>. QED
  BY <1>3 DEF v

\* What is not lost is at the end of the ring.
LEMMA PutAll ==
    ASSUME NEW S, NEW ring \in Seq(S), NEW ol \in S, Dropped(ring) = 0
    PROVE  /\ Len(Put(ring, ol)) = Len(ring) + 1 /\ Put(ring, ol)[Len(ring) + 1] = ol
           /\ \A i \in 1 .. Len(ring) : Put(ring, ol)[i] = ring[i]
  BY UdpAssumption DEF Put, Dropped

\* The text that is sent holds the units of the buffer's text.
LEMMA TextHolds ==
    ASSUME TypeOK, NEW text \in Text, NEW j, NEW u, AtBuffer(j, u)
    PROVE  j \in 1 .. Len(text) /\ text[j] = u
<1>. DEFINE z == {i \in 1 .. BUF : buffer[i] = ZERO}
<1>1. BUF \in Nat /\ buffer \in Seq(Cells) /\ Len(buffer) = BUF
      /\ \A i \in 1 .. BUF : buffer[i] \in Cells
  BY UdpAssumption DEF TypeOK
<1>2. j \in 1 .. BUF /\ buffer[j] = u /\ \A l \in 1 .. j : buffer[l] # ZERO
  BY DEF AtBuffer
<1>3. CASE z = {} /\ text = buffer
  BY <1>1, <1>2, <1>3
<1>4. CASE z = {} /\ text = buffer \o <<JUNK>>
  <2>1. <<JUNK>> \in Seq(Cells) /\ Len(<<JUNK>>) = 1
    BY DEF Cells
  <2>2. /\ Len(text) = BUF + 1
        /\ \A i \in 1 .. BUF + 1 : text[i] = IF i <= BUF THEN buffer[i] ELSE <<JUNK>>[i - BUF]
    BY <1>1, <1>4, <2>1, ConcatProperties
  <2>3. j \in 1 .. BUF + 1 /\ j <= BUF
    BY <1>1, <1>2
  <2>. QED
    BY <1>2, <2>2, <2>3
<1>5. CASE z # {}
  <2>1. PICK i \in z : text = SubSeq(buffer, 1, i - 1) /\ \A l \in z : i <= l
    BY <1>5 DEF Text
  <2>2. i \in 1 .. BUF /\ i - 1 \in Int /\ \A l \in 1 .. i - 1 : buffer[l] \in Cells
    BY <1>1, <2>1
  <2>3. /\ text \in Seq(Cells) /\ Len(text) = i - 1
        /\ \A l \in 1 .. i - 1 : text[l] = buffer[l]
    BY <2>1, <2>2, SubSeqProperties
  <2>4. j \in 1 .. i - 1
    <3>1. buffer[i] = ZERO
      BY <2>1
    <3>. QED
      BY <1>1, <1>2, <2>2, <3>1
  <2>. QED
    BY <1>2, <2>3, <2>4
<1>. QED
  BY <1>3, <1>4, <1>5 DEF Text

-----------------------------------------------------------------------------
\* The echo of a peer in the ARP table is at the end of what the peer got.
LEMMA OutKeeps ==
    ASSUME TypeInv, PktOut, NEW p \in entries, p = sndbuf[1].peer, NEW l, l = Len(echoed[p])
    PROVE  /\ l \in Nat /\ p \in Peers
           /\ \A u \in Units : \A k, i, j : At(k, i, j, u) =>
                 \/ k = "sndbuf" /\ i = 1 /\ j \in Nat /\ At("echoed", p, l + j, u)'
                 \/ k = "sndbuf" /\ i \in 2 .. Len(sndbuf) /\ At("sndbuf", i - 1, j, u)'
                 \/ k = "echoed" /\ j \in 1 .. Len(echoed[i]) /\ At("echoed", i, j, u)'
                 \/ k \notin {"sndbuf", "echoed"} /\ At(k, i, j, u)'
<1>1. /\ sndbuf # <<>> /\ sndbuf \in Seq(Offload) /\ echoed \in [Peers -> Seq(Cells)]
      /\ UNCHANGED <<in, rcvbuf, apc, buffer, rest>>
  BY DEF PktOut, appVars, TypeInv, TypeOK
<1>2. PICK ol \in Offload :
         /\ ol = Head(sndbuf) /\ ol = sndbuf[1] /\ 1 \in 1 .. Len(sndbuf)
         /\ Tail(sndbuf) \in Seq(Offload) /\ Len(Tail(sndbuf)) = Len(sndbuf) - 1
         /\ \A i \in 1 .. Len(Tail(sndbuf)) : Tail(sndbuf)[i] = sndbuf[i + 1]
  BY <1>1, HeadTail
<1>3. PICK e \in Seq(Cells), t \in Seq(Cells) : e = echoed[p] /\ t = ol.data /\ p \in Peers
  BY <1>1, <1>2 DEF Offload
<1>4. /\ sndbuf' = Tail(sndbuf) \o <<>> /\ echoed' = [echoed EXCEPT ![p] = e \o t]
  BY <1>2, <1>3 DEF PktOut, Resolve
<1>5. sndbuf' = Tail(sndbuf)
  BY <1>2, <1>4, ConcatEmptySeq, Zenon
<1>6. /\ Len(e \o t) = Len(e) + Len(t) /\ Len(e) \in Nat /\ Len(t) \in Nat /\ Len(e) = l
      /\ \A m \in 1 .. Len(e) + Len(t) :
            (e \o t)[m] = IF m <= Len(e) THEN e[m] ELSE t[m - Len(e)]
  <2>1. Len(e) = l
    BY <1>3
  <2>2. /\ Len(e \o t) = Len(e) + Len(t) /\ Len(e) \in Nat /\ Len(t) \in Nat
        /\ \A m \in 1 .. Len(e) + Len(t) :
              (e \o t)[m] = IF m <= Len(e) THEN e[m] ELSE t[m - Len(e)]
    BY ConcatProperties
  <2>. QED
    BY <2>1, <2>2
<1>7. echoed'[p] = e \o t /\ \A q \in Peers : q # p => echoed'[q] = echoed[q]
  BY <1>1, <1>3, <1>4
<1>. SUFFICES ASSUME NEW u \in Units, NEW k, NEW i, NEW j, At(k, i, j, u)
              PROVE  \/ k = "sndbuf" /\ i = 1 /\ j \in Nat /\ At("echoed", p, l + j, u)'
                     \/ k = "sndbuf" /\ i \in 2 .. Len(sndbuf) /\ At("sndbuf", i - 1, j, u)'
                     \/ k = "echoed" /\ j \in 1 .. Len(echoed[i]) /\ At("echoed", i, j, u)'
                     \/ k \notin {"sndbuf", "echoed"} /\ At(k, i, j, u)'
  BY <1>3, <1>6
<1>8. CASE k = "sndbuf" /\ i = 1
  <2>1. j \in 1 .. Len(t) /\ t[j] = u
    BY <1>2, <1>3, <1>8 DEF At, AtRing
  <2>2. PICK m \in Nat : m = l + j
    BY <1>6, <2>1
  <2>3. m \in 1 .. Len(e) + Len(t) /\ ~(m <= Len(e)) /\ m - Len(e) = j /\ j \in Nat
    BY <1>6, <2>1, <2>2
  <2>4. m \in 1 .. Len(e \o t) /\ (e \o t)[m] = u
    BY <1>6, <2>1, <2>3
  <2>. QED
    BY <1>3, <1>7, <1>8, <2>2, <2>3, <2>4 DEF At, AtPeer
<1>9. CASE k = "sndbuf" /\ i # 1
  <2>1. i \in 1 .. Len(sndbuf) /\ j \in 1 .. Len(sndbuf[i].data) /\ sndbuf[i].data[j] = u
    BY <1>9 DEF At, AtRing
  <2>2. PICK m \in Nat \ {0} : m = i - 1 /\ m + 1 = i /\ m \in 1 .. Len(sndbuf')
    BY <1>1, <1>2, <1>5, <1>9, <2>1
  <2>3. sndbuf'[m] = sndbuf[i]
    BY <1>2, <1>5, <2>2
  <2>4. AtRing(sndbuf, m, j, u)'
    BY <2>1, <2>2, <2>3 DEF AtRing
  <2>5. i \in 2 .. Len(sndbuf)
    BY <1>1, <1>9, <2>1
  <2>. QED
    BY <1>9, <2>2, <2>4, <2>5 DEF At
<1>10. CASE k = "echoed"
  <2>1. i \in Peers /\ j \in 1 .. Len(echoed[i]) /\ echoed[i][j] = u
    BY <1>10 DEF At, AtPeer
  <2>2. j \in 1 .. Len(echoed'[i]) /\ echoed'[i][j] = u
    <3>1. CASE i # p
      BY <1>7, <2>1, <3>1
    <3>2. CASE i = p
      <4>1. j \in 1 .. Len(e) /\ e[j] = u
        BY <1>3, <2>1, <3>2
      <4>2. j \in 1 .. Len(e) + Len(t) /\ j <= Len(e)
        BY <1>6, <4>1
      <4>. QED
        BY <1>6, <1>7, <3>2, <4>1, <4>2
    <3>. QED
      BY <3>1, <3>2
  <2>. QED
    BY <1>10, <2>1, <2>2 DEF At, AtPeer
<1>11. CASE k \notin {"sndbuf", "echoed"}
  BY <1>1, <1>11 DEF At, AtIn, AtRing, AtRest, AtBuffer
<1>. QED
  BY <1>8, <1>9, <1>10, <1>11

\* udp_out: the first echo of the send ring is ahead of the others.
LEMMA OutOrder ==
    ASSUME TypeInv, InOrder, LocatedInv, PktOut,
           \A i \in 1 .. Len(sndbuf) : Own(sndbuf[i].peer, sndbuf[i].data),
           \A p \in Peers : Own(p, echoed[p])
    PROVE  InOrder'
<1>1. sndbuf # <<>> /\ sndbuf \in Seq(Offload) /\ sent' = sent
      /\ echoed \in [Peers -> Seq(Cells)]
  BY DEF PktOut, TypeInv, TypeOK
<1>2. sndbuf[1] \in Offload /\ 1 \in 1 .. Len(sndbuf) /\ Len(sndbuf) \in Nat
  BY <1>1, HeadTail
<1>3. PICK p, l : p \in entries /\ p = sndbuf[1].peer /\ l = Len(echoed[p])
  BY <1>2 DEF LocatedInv
<1>4. /\ l \in Nat /\ p \in Peers
      /\ \A u \in Units : \A k, i, j : At(k, i, j, u) =>
            \/ k = "sndbuf" /\ i = 1 /\ j \in Nat /\ At("echoed", p, l + j, u)'
            \/ k = "sndbuf" /\ i \in 2 .. Len(sndbuf) /\ At("sndbuf", i - 1, j, u)'
            \/ k = "echoed" /\ j \in 1 .. Len(echoed[i]) /\ At("echoed", i, j, u)'
            \/ k \notin {"sndbuf", "echoed"} /\ At(k, i, j, u)'
  BY <1>3, OutKeeps
<1>. SUFFICES ASSUME NEW u \in Units, NEW k, NEW i, NEW j, k # "in", At(k, i, j, u)'
              PROVE  u.pos \in 1 .. sent'[u.peer][u.dgram] /\ Ordered(u, k, i, j)'
  BY DEF InOrder
<1>5. \A v \in Units : \A i2, j2 :
         /\ At("echoed", i2, j2, v) => v.peer = i2
         /\ At("sndbuf", 1, j2, v) => v.peer = p /\ j2 \in Nat
  BY <1>2, <1>3 DEF At, AtPeer, AtRing, Own
<1>6. CASE k = "sndbuf"
  <2>1. i \in 1 .. Len(sndbuf) - 1 /\ At("sndbuf", i + 1, j, u)
    BY <1>3, <1>6, OutMoves
  <2>2. Ordered(u, "sndbuf", i + 1, j) /\ u.pos \in 1 .. sent[u.peer][u.dgram]
    BY <2>1 DEF InOrder
  <2>3. ASSUME NEW v \in Units, NEW k2, NEW i2, NEW j2, At(k2, i2, j2, v),
               Ahead(k2, i2, j2, "sndbuf", i + 1, j)
        PROVE  \E k3, i3, j3 : At(k3, i3, j3, v)' /\ Ahead(k3, i3, j3, k, i, j)
    <3>1. CASE k2 = "echoed"
      BY <1>4, <1>6, <2>3, <3>1 DEF Ahead
    <3>2. CASE k2 = "sndbuf" /\ i2 = 1
      BY <1>4, <1>6, <2>3, <3>2 DEF Ahead
    <3>3. CASE k2 = "sndbuf" /\ i2 # 1
      <4>1. i2 \in 2 .. Len(sndbuf) /\ At("sndbuf", i2 - 1, j2, v)'
        BY <1>4, <2>3, <3>3
      <4>2. Ahead("sndbuf", i2 - 1, j2, k, i, j)
        BY <1>2, <1>6, <2>1, <2>3, <3>3, <4>1 DEF Ahead
      <4>. QED
        BY <4>1, <4>2
    <3>. QED
      BY <2>3, <3>1, <3>2, <3>3 DEF Ahead
  <2>. QED
    BY <1>1, <2>2, <2>3, StillOrdered
<1>7. ASSUME k = "echoed", i = p, j - l \in Nat \ {0}, j \in Int, At("sndbuf", 1, j - l, u)
      PROVE  u.pos \in 1 .. sent'[u.peer][u.dgram] /\ Ordered(u, k, i, j)'
  <2>1. Ordered(u, "sndbuf", 1, j - l) /\ u.pos \in 1 .. sent[u.peer][u.dgram] /\ u.peer = p
    BY <1>5, <1>7 DEF InOrder
  <2>2. ASSUME NEW v \in Units, NEW k2, NEW i2, NEW j2, v.peer = u.peer, At(k2, i2, j2, v),
               Ahead(k2, i2, j2, "sndbuf", 1, j - l)
        PROVE  \E k3, i3, j3 : At(k3, i3, j3, v)' /\ Ahead(k3, i3, j3, k, i, j)
    <3>1. CASE k2 = "echoed"
      <4>1. i2 = p /\ j2 \in 1 .. l /\ At("echoed", p, j2, v)'
        BY <1>3, <1>4, <1>5, <2>1, <2>2, <3>1
      <4>2. Ahead("echoed", p, j2, k, i, j)
        BY <1>4, <1>7, <4>1 DEF Ahead
      <4>. QED
        BY <4>1, <4>2
    <3>2. CASE k2 = "sndbuf"
      <4>1. i2 \in 1 .. Len(sndbuf)
        BY <2>2, <3>2 DEF At, AtRing
      <4>2. i2 = 1 /\ j2 < j - l
        BY <1>2, <2>2, <3>2, <4>1 DEF Ahead
      <4>3. j2 \in Nat /\ At("echoed", p, l + j2, v)'
        BY <1>4, <2>2, <3>2, <4>2
      <4>4. Ahead("echoed", p, l + j2, k, i, j)
        BY <1>4, <1>7, <4>2, <4>3 DEF Ahead
      <4>. QED
        BY <4>3, <4>4
    <3>. QED
      BY <2>2, <3>1, <3>2 DEF Ahead
  <2>. QED
    BY <1>1, <2>1, <2>2, StillOrdered
<1>8. ASSUME k # "sndbuf", At(k, i, j, u)
      PROVE  u.pos \in 1 .. sent'[u.peer][u.dgram] /\ Ordered(u, k, i, j)'
  <2>1. Ordered(u, k, i, j) /\ u.pos \in 1 .. sent[u.peer][u.dgram]
    BY <1>8 DEF InOrder
  <2>2. ASSUME NEW v \in Units, NEW k2, NEW i2, NEW j2, At(k2, i2, j2, v),
               Ahead(k2, i2, j2, k, i, j)
        PROVE  \E k3, i3, j3 : At(k3, i3, j3, v)' /\ Ahead(k3, i3, j3, k, i, j)
    <3>1. CASE k2 = "sndbuf" /\ i2 = 1
      <4>1. At("echoed", p, l + j2, v)'
        BY <1>4, <2>2, <3>1
      <4>2. Ahead("echoed", p, l + j2, k, i, j)
        BY <1>8, <2>2, <3>1 DEF Ahead
      <4>. QED
        BY <4>1, <4>2
    <3>2. CASE k2 = "sndbuf" /\ i2 # 1
      <4>1. At("sndbuf", i2 - 1, j2, v)'
        BY <1>4, <2>2, <3>2
      <4>2. Ahead("sndbuf", i2 - 1, j2, k, i, j)
        BY <1>8, <2>2, <3>2 DEF Ahead
      <4>. QED
        BY <4>1, <4>2
    <3>3. CASE k2 # "sndbuf"
      <4>1. At(k2, i2, j2, v)'
        BY <1>4, <2>2, <3>3
      <4>. QED
        BY <2>2, <4>1
    <3>. QED
      BY <3>1, <3>2, <3>3
  <2>. QED
    BY <1>1, <2>1, <2>2, StillOrdered
<1>9. \/ k = "sndbuf"
      \/ /\ k = "echoed" /\ i = p /\ j - l \in Nat \ {0} /\ j \in Int
         /\ At("sndbuf", 1, j - l, u)
      \/ k # "sndbuf" /\ At(k, i, j, u)
  BY <1>3, OutMoves
<1>. QED
  BY <1>6, <1>7, <1>8, <1>9

-----------------------------------------------------------------------------
\* udp_process: the units of a datagram are in the offload in their order.
LEMMA ReceiveOrder ==
    ASSUME TypeInv, InOrder, PktReceive, lost' = lost
    PROVE  InOrder'
<1>1. /\ sent' = sent /\ rcvbuf \in Seq(Offload) /\ Dropped(rcvbuf) = 0
      /\ UNCHANGED <<echoed, sndbuf, apc, buffer, rest>>
  BY DEF PktReceive, TypeInv, TypeOK, appVars, Dropped
<1>2. PICK d \in [peer : Peers, dgram : 1 .. MaxSent], data \in Seq(Cells), n \in Nat :
         /\ n = sent[d.peer][d.dgram]
         /\ \A i \in 1 .. n : data[i] = Unit(d.peer, d.dgram, i)
         /\ \A i \in 1 .. Len(data) : i > n => data[i] \in {ZERO, JUNK}
         /\ [peer |-> d.peer, data |-> data] \in Offload
         /\ rcvbuf' = Put(rcvbuf, [peer |-> d.peer, data |-> data])
  BY NewOffload
<1>3. PICK m \in Nat : m = Len(rcvbuf) + 1
  BY <1>1
<1>4. /\ Len(rcvbuf') = m /\ rcvbuf'[m].data = data
      /\ \A i \in 1 .. Len(rcvbuf) : i \in 1 .. m /\ rcvbuf'[i] = rcvbuf[i]
  BY <1>1, <1>2, <1>3, PutAll
<1>5. ASSUME NEW v \in Units, NEW k, NEW i, NEW j, k # "in", At(k, i, j, v)
      PROVE  At(k, i, j, v)'
  <2>1. CASE k = "rcvbuf"
    BY <1>4, <1>5, <2>1 DEF At, AtRing
  <2>2. CASE k # "rcvbuf"
    BY <1>1, <1>5, <2>2 DEF At, AtRing, AtRest, AtBuffer, AtPeer
  <2>. QED
    BY <2>1, <2>2
<1>. SUFFICES ASSUME NEW u \in Units, NEW k, NEW i, NEW j, k # "in", At(k, i, j, u)'
              PROVE  u.pos \in 1 .. sent'[u.peer][u.dgram] /\ Ordered(u, k, i, j)'
  BY DEF InOrder
<1>6. CASE At(k, i, j, u)
  <2>1. Ordered(u, k, i, j) /\ u.pos \in 1 .. sent[u.peer][u.dgram]
    BY <1>6 DEF InOrder
  <2>2. ASSUME NEW v \in Units, NEW k2, NEW i2, NEW j2, At(k2, i2, j2, v),
               Ahead(k2, i2, j2, k, i, j)
        PROVE  At(k2, i2, j2, v)'
    <3>1. k2 # "in"
      BY <2>2 DEF Ahead
    <3>. QED
      BY <1>5, <2>2, <3>1
  <2>. QED
    BY <1>1, <2>1, <2>2, StillOrdered
<1>7. CASE k = "rcvbuf" /\ i = m
  <2>1. j \in 1 .. Len(data) /\ data[j] = u
    BY <1>4, <1>7 DEF At, AtRing
  <2>2. j \in 1 .. n
    BY <1>2, <2>1, NotUnits
  <2>3. u = Unit(d.peer, d.dgram, j)
    BY <1>2, <2>1, <2>2
  <2>4. u.pos = j /\ u.peer = d.peer /\ u.dgram = d.dgram
    BY <2>3 DEF Unit
  <2>5. ASSUME NEW l \in 1 .. u.pos - 1
        PROVE  \E k2, i2, j2 : At(k2, i2, j2, Unit(u.peer, u.dgram, l))'
                               /\ Ahead(k2, i2, j2, k, i, j)
    <3>1. l \in 1 .. n /\ l \in 1 .. Len(data) /\ l < j
      BY <2>1, <2>2, <2>4
    <3>2. data[l] = Unit(u.peer, u.dgram, l)
      BY <1>2, <2>4, <3>1
    <3>3. At("rcvbuf", m, l, Unit(u.peer, u.dgram, l))'
      BY <1>3, <1>4, <3>1, <3>2 DEF At, AtRing
    <3>4. Ahead("rcvbuf", m, l, k, i, j)
      BY <1>7, <3>1 DEF Ahead
    <3>. QED
      BY <3>3, <3>4
  <2>. QED
    BY <1>1, <1>2, <2>2, <2>4, <2>5 DEF Ordered
<1>. QED
  BY <1>3, <1>6, <1>7, ReceiveMoves

-----------------------------------------------------------------------------
\* Of the first offload a bufferful is in the text, and what is left is in hand.
LEMMA TakeKeeps ==
    ASSUME TypeInv, AppTake, SolidInv
    PROVE  \A u \in Units : \A k, i, j : At(k, i, j, u) =>
              \/ k = "rcvbuf" /\ i = 1 /\ j \in 1 .. BUF /\ At("buffer", 0, j, u)'
              \/ k = "rcvbuf" /\ i = 1 /\ j \in Nat /\ j > BUF /\ At("rest", 0, j - BUF, u)'
              \/ k = "rcvbuf" /\ i \in 2 .. Len(rcvbuf) /\ At("rcvbuf", i - 1, j, u)'
              \/ k \in {"in", "echoed", "sndbuf"} /\ At(k, i, j, u)'
<1>1. /\ rcvbuf # <<>> /\ rcvbuf' = Tail(rcvbuf) /\ rcvbuf \in Seq(Offload) /\ apc = "test"
      /\ UNCHANGED <<in, echoed, sndbuf>>
  BY DEF AppTake, netVars, TypeInv, TypeOK
<1>2. PICK ol \in Offload :
         /\ ol = Head(rcvbuf) /\ ol = rcvbuf[1] /\ Solid(ol)
         /\ Len(rcvbuf') = Len(rcvbuf) - 1
         /\ \A i \in 1 .. Len(rcvbuf') : rcvbuf'[i] = rcvbuf[i + 1]
  BY <1>1, HeadTail DEF SolidInv
<1>3. PICK n \in Nat : n = (IF BUF < Len(ol.data) THEN BUF ELSE Len(ol.data))
  BY UdpAssumption DEF Offload
<1>4. /\ buffer' = [i \in 1 .. BUF |-> IF i <= n THEN ol.data[i] ELSE buffer[i]]
      /\ n < Len(ol.data) =>
            /\ rest' = [ol EXCEPT !.data = SubSeq(ol.data, n + 1, Len(ol.data))]
            /\ apc' = "rest"
      /\ apc' \in {"rest", "reply"}
  BY <1>2, <1>3 DEF AppTake
<1>5. Len(ol.data) \in Nat /\ ol.data \in Seq(Cells) /\ BUF \in Nat
  BY UdpAssumption DEF Offload
<1>. SUFFICES ASSUME NEW u \in Units, NEW k, NEW i, NEW j, At(k, i, j, u)
              PROVE  \/ k = "rcvbuf" /\ i = 1 /\ j \in 1 .. BUF /\ At("buffer", 0, j, u)'
                     \/ /\ k = "rcvbuf" /\ i = 1 /\ j \in Nat /\ j > BUF
                        /\ At("rest", 0, j - BUF, u)'
                     \/ k = "rcvbuf" /\ i \in 2 .. Len(rcvbuf) /\ At("rcvbuf", i - 1, j, u)'
                     \/ k \in {"in", "echoed", "sndbuf"} /\ At(k, i, j, u)'
  OBVIOUS
<1>6. CASE k = "rcvbuf" /\ i = 1
  <2>1. j \in 1 .. Len(ol.data) /\ ol.data[j] = u
    BY <1>2, <1>6 DEF At, AtRing
  <2>2. CASE j <= BUF
    <3>1. j \in 1 .. BUF /\ \A l \in 1 .. j : l \in 1 .. BUF /\ l <= n
      BY <1>3, <1>5, <2>1, <2>2
    <3>2. \A l \in 1 .. j : ol.data[l] \in Units
      BY <1>2, <2>1 DEF Solid
    <3>3. \A l \in 1 .. j : buffer'[l] = ol.data[l]
      BY <1>4, <3>1
    <3>4. \A l \in 1 .. j : buffer'[l] # ZERO
      BY <3>2, <3>3, NotUnits
    <3>5. buffer'[j] = u
      BY <2>1, <3>1, <3>3
    <3>6. AtBuffer(j, u)'
      BY <1>4, <3>1, <3>4, <3>5 DEF AtBuffer
    <3>. QED
      BY <1>6, <3>1, <3>6 DEF At
  <2>3. CASE ~(j <= BUF)
    <3>1. n = BUF /\ n < Len(ol.data) /\ j \in Nat /\ j > BUF
      BY <1>3, <1>5, <2>1, <2>3
    <3>2. rest'.data = SubSeq(ol.data, n + 1, Len(ol.data)) /\ apc' = "rest"
      BY <1>4, <3>1 DEF Offload
    <3>3. \A l \in n + 1 .. Len(ol.data) : ol.data[l] \in Cells
      BY <1>5
    <3>4. /\ Len(rest'.data) = Len(ol.data) - n
          /\ \A l \in 1 .. Len(ol.data) - n : rest'.data[l] = ol.data[n + l]
      BY <1>5, <3>1, <3>2
    <3>5. PICK m \in Nat : m = j - BUF /\ n + m = j /\ m \in 1 .. Len(ol.data) - n
      BY <1>5, <2>1, <3>1
    <3>6. AtRest(m, u)'
      BY <2>1, <3>2, <3>4, <3>5 DEF AtRest
    <3>. QED
      BY <1>6, <3>1, <3>5, <3>6 DEF At
  <2>. QED
    BY <2>2, <2>3
<1>7. CASE k = "rcvbuf" /\ i # 1
  <2>1. i \in 1 .. Len(rcvbuf) /\ j \in 1 .. Len(rcvbuf[i].data) /\ rcvbuf[i].data[j] = u
    BY <1>7 DEF At, AtRing
  <2>2. PICK m \in Nat \ {0} : m = i - 1 /\ m + 1 = i /\ m \in 1 .. Len(rcvbuf')
    BY <1>1, <1>2, <1>7, <2>1
  <2>3. rcvbuf'[m] = rcvbuf[i]
    BY <1>2, <2>2
  <2>4. AtRing(rcvbuf, m, j, u)'
    BY <2>1, <2>2, <2>3 DEF AtRing
  <2>5. i \in 2 .. Len(rcvbuf)
    BY <1>1, <1>7, <2>1
  <2>. QED
    BY <1>7, <2>2, <2>4, <2>5 DEF At
<1>8. CASE k # "rcvbuf"
  BY <1>1, <1>8 DEF At, AtIn, AtRing, AtRest, AtBuffer, AtPeer
<1>. QED
  BY <1>6, <1>7, <1>8

\* nrecvfrom: the text is ahead of what is left, and behind all echoes.
LEMMA TakeOrder ==
    ASSUME TypeInv, InOrder, SolidInv, AppTake,
           \A i \in 1 .. Len(rcvbuf) : Whole(rcvbuf[i])
    PROVE  InOrder'
<1>1. sent' = sent /\ BUF \in Nat /\ Len(rcvbuf) \in Nat
  BY UdpAssumption DEF AppTake, netVars, TypeInv, TypeOK
<1>2. \A u \in Units : \A k, i, j : At(k, i, j, u) =>
         \/ k = "rcvbuf" /\ i = 1 /\ j \in 1 .. BUF /\ At("buffer", 0, j, u)'
         \/ k = "rcvbuf" /\ i = 1 /\ j \in Nat /\ j > BUF /\ At("rest", 0, j - BUF, u)'
         \/ k = "rcvbuf" /\ i \in 2 .. Len(rcvbuf) /\ At("rcvbuf", i - 1, j, u)'
         \/ k \in {"in", "echoed", "sndbuf"} /\ At(k, i, j, u)'
  BY TakeKeeps
<1>. SUFFICES ASSUME NEW u \in Units, NEW k, NEW i, NEW j, k # "in", At(k, i, j, u)'
              PROVE  u.pos \in 1 .. sent'[u.peer][u.dgram] /\ Ordered(u, k, i, j)'
  BY DEF InOrder
<1>3. CASE k = "rcvbuf"
  <2>1. i \in Nat \ {0} /\ At("rcvbuf", i + 1, j, u)
    BY <1>3, TakeMoves
  <2>2. Ordered(u, "rcvbuf", i + 1, j) /\ u.pos \in 1 .. sent[u.peer][u.dgram]
    BY <2>1 DEF InOrder
  <2>3. ASSUME NEW v \in Units, NEW k2, NEW i2, NEW j2, At(k2, i2, j2, v),
               Ahead(k2, i2, j2, "rcvbuf", i + 1, j)
        PROVE  \E k3, i3, j3 : At(k3, i3, j3, v)' /\ Ahead(k3, i3, j3, k, i, j)
    <3>1. CASE k2 = "rcvbuf"
      <4>1. i2 = i + 1 /\ j2 < j /\ i2 # 1 /\ i2 - 1 = i
        BY <2>1, <2>3, <3>1 DEF Ahead
      <4>2. At("rcvbuf", i2 - 1, j2, v)'
        BY <1>2, <2>3, <3>1, <4>1
      <4>. QED
        BY <1>3, <4>1, <4>2 DEF Ahead
    <3>2. CASE k2 # "rcvbuf"
      <4>1. At(k2, i2, j2, v)' /\ k2 \in {"in", "echoed", "sndbuf"}
        BY <1>2, <2>3, <3>2
      <4>. QED
        BY <1>3, <2>3, <4>1 DEF Ahead
    <3>. QED
      BY <3>1, <3>2
  <2>. QED
    BY <1>1, <2>2, <2>3, StillOrdered
<1>4. CASE k = "buffer" \/ k = "rest"
  <2>1. PICK m \in Nat \ {0} :
           /\ At("rcvbuf", 1, m, u) /\ i = 0
           /\ k = "buffer" => j = m /\ m <= BUF
           /\ k = "rest" => j \in Nat /\ m = BUF + j
    BY <1>1, <1>4, TakeMoves
  <2>2. Ordered(u, "rcvbuf", 1, m) /\ u.pos \in 1 .. sent[u.peer][u.dgram]
    BY <2>1 DEF InOrder
  <2>3. ASSUME NEW v \in Units, NEW k2, NEW i2, NEW j2, At(k2, i2, j2, v),
               Ahead(k2, i2, j2, "rcvbuf", 1, m)
        PROVE  \E k3, i3, j3 : At(k3, i3, j3, v)' /\ Ahead(k3, i3, j3, k, i, j)
    <3>1. CASE k2 = "rcvbuf"
      <4>1. i2 = 1 /\ j2 < m
        BY <2>3, <3>1 DEF Ahead
      <4>2. CASE j2 \in 1 .. BUF /\ At("buffer", 0, j2, v)'
        <5>1. Ahead("buffer", 0, j2, k, i, j)
          BY <1>4, <2>1, <4>1, <4>2 DEF Ahead
        <5>. QED
          BY <4>2, <5>1
      <4>3. CASE j2 \in Nat /\ j2 > BUF /\ At("rest", 0, j2 - BUF, v)'
        <5>1. Ahead("rest", 0, j2 - BUF, k, i, j)
          BY <1>1, <1>4, <2>1, <4>1, <4>3 DEF Ahead
        <5>. QED
          BY <4>3, <5>1
      <4>. QED
        BY <1>2, <2>3, <3>1, <4>1, <4>2, <4>3
    <3>2. CASE k2 # "rcvbuf"
      <4>1. At(k2, i2, j2, v)' /\ k2 \in {"in", "echoed", "sndbuf"}
        BY <1>2, <2>3, <3>2
      <4>2. Ahead(k2, i2, j2, k, i, j)
        BY <1>4, <2>3, <4>1 DEF Ahead
      <4>. QED
        BY <4>1, <4>2
    <3>. QED
      BY <3>1, <3>2
  <2>. QED
    BY <1>1, <2>2, <2>3, StillOrdered
<1>5. CASE k \notin {"rcvbuf", "buffer", "rest"}
  <2>1. At(k, i, j, u)
    BY <1>5, TakeMoves
  <2>2. k \in {"echoed", "sndbuf"}
    BY <1>5, <2>1 DEF At
  <2>3. Ordered(u, k, i, j) /\ u.pos \in 1 .. sent[u.peer][u.dgram]
    BY <2>1, <2>2 DEF InOrder
  <2>4. ASSUME NEW v \in Units, NEW k2, NEW i2, NEW j2, At(k2, i2, j2, v),
               Ahead(k2, i2, j2, k, i, j)
        PROVE  At(k2, i2, j2, v)'
    <3>1. k2 # "rcvbuf"
      BY <2>2, <2>4 DEF Ahead
    <3>. QED
      BY <1>2, <2>4, <3>1
  <2>. QED
    BY <1>1, <2>3, <2>4, StillOrdered
<1>. QED
  BY <1>3, <1>4, <1>5

-----------------------------------------------------------------------------
\* What is left of a datagram is one offload, in hand or in the ring.
LEMMA PutBackOrder ==
    ASSUME TypeInv, InOrder, AppPutBack, lost' = lost
    PROVE  InOrder'
<1>1. /\ sent' = sent /\ rcvbuf \in Seq(Offload) /\ Dropped(rcvbuf) = 0
      /\ apc = "rest" /\ apc' = "reply" /\ rcvbuf' = Put(rcvbuf, rest) /\ rest \in Offload
      /\ UNCHANGED <<in, echoed, sndbuf, buffer>>
  BY DEF AppPutBack, AppGoto, Rest, netVars, TypeInv, TypeOK, PlaceInv, Dropped
<1>2. PICK m \in Nat : m = Len(rcvbuf) + 1
  BY <1>1
<1>3. /\ Len(rcvbuf') = m /\ rcvbuf'[m] = rest
      /\ \A i \in 1 .. Len(rcvbuf) : i \in 1 .. m /\ rcvbuf'[i] = rcvbuf[i]
  BY <1>1, <1>2, PutAll
<1>4. ASSUME NEW v \in Units, NEW k, NEW i, NEW j, At(k, i, j, v)
      PROVE  \/ k = "rest" /\ i = 0 /\ At("rcvbuf", m, j, v)'
             \/ k # "rest" /\ At(k, i, j, v)'
  <2>1. CASE k = "rest"
    BY <1>2, <1>3, <1>4, <2>1 DEF At, AtRing, AtRest
  <2>2. CASE k = "rcvbuf"
    BY <1>3, <1>4, <2>2 DEF At, AtRing
  <2>3. CASE k \notin {"rest", "rcvbuf"}
    BY <1>1, <1>4, <2>3 DEF At, AtIn, AtRing, AtBuffer, AtPeer
  <2>. QED
    BY <2>1, <2>2, <2>3
<1>. SUFFICES ASSUME NEW u \in Units, NEW k, NEW i, NEW j, k # "in", At(k, i, j, u)'
              PROVE  u.pos \in 1 .. sent'[u.peer][u.dgram] /\ Ordered(u, k, i, j)'
  BY DEF InOrder
<1>5. CASE k = "rcvbuf" /\ i = m /\ At("rest", 0, j, u)
  <2>1. Ordered(u, "rest", 0, j) /\ u.pos \in 1 .. sent[u.peer][u.dgram]
    BY <1>5 DEF InOrder
  <2>2. ASSUME NEW v \in Units, NEW k2, NEW i2, NEW j2, At(k2, i2, j2, v),
               Ahead(k2, i2, j2, "rest", 0, j)
        PROVE  \E k3, i3, j3 : At(k3, i3, j3, v)' /\ Ahead(k3, i3, j3, k, i, j)
    BY <1>4, <1>5, <2>2 DEF Ahead
  <2>. QED
    BY <1>1, <2>1, <2>2, StillOrdered
<1>6. CASE k # "rest" /\ At(k, i, j, u)
  <2>1. Ordered(u, k, i, j) /\ u.pos \in 1 .. sent[u.peer][u.dgram]
    BY <1>6 DEF InOrder
  <2>2. ASSUME NEW v \in Units, NEW k2, NEW i2, NEW j2, At(k2, i2, j2, v),
               Ahead(k2, i2, j2, k, i, j)
        PROVE  At(k2, i2, j2, v)'
    <3>1. k2 # "rest"
      BY <1>6, <2>2 DEF Ahead
    <3>. QED
      BY <1>4, <2>2, <3>1
  <2>. QED
    BY <1>1, <2>1, <2>2, StillOrdered
<1>. QED
  BY <1>2, <1>5, <1>6, PutBackMoves

\* nsendto: the text goes behind the echoes in the ring, and all of it does.
LEMMA ReplyOrder ==
    ASSUME TypeInv, InOrder, AppReply, lost' = lost, fails' = fails
    PROVE  InOrder'
<1>1. /\ sent' = sent /\ sndbuf \in Seq(Offload) /\ from \in Peers
      /\ apc = "reply" /\ apc' = "lock" /\ lost \in Nat /\ fails \in Nat
      /\ UNCHANGED <<in, echoed, rcvbuf>>
  BY UdpAssumption DEF AppReply, AppGoto, netVars, TypeInv, TypeOK, PlaceInv
<1>2. PICK m \in Nat : m = Len(sndbuf) + 1
  BY <1>1
<1>3. /\ \A j, v : AtBuffer(j, v) => AtRing(sndbuf, m, j, v)'
      /\ \A i \in 1 .. Len(sndbuf) : i \in 1 .. Len(sndbuf') /\ sndbuf'[i] = sndbuf[i]
  <2>1. PICK text \in Text :
           IF text = <<>> THEN UNCHANGED <<sndbuf, lost>>
           ELSE /\ sndbuf' = Put(sndbuf, [peer |-> from, data |-> text])
                /\ lost' = lost + Dropped(sndbuf)
    <3>1. ~MayFail("reply")
      BY <1>1 DEF MayFail
    <3>. QED
      BY <3>1 DEF AppReply
  <2>2. /\ text \in Seq(Cells)
        /\ \A j, v : AtBuffer(j, v) => j \in 1 .. Len(text) /\ text[j] = v
    BY TextCells, TextHolds DEF TypeInv
  <2>3. CASE text = <<>>
    <3>1. 1 .. Len(text) = {}
      BY <2>3
    <3>. QED
      BY <2>1, <2>2, <2>3, <3>1
  <2>4. CASE text # <<>>
    <3>1. Dropped(sndbuf) = 0 /\ [peer |-> from, data |-> text] \in Offload
      BY <1>1, <2>1, <2>2, <2>4 DEF Dropped, Offload
    <3>2. /\ Len(sndbuf') = m /\ sndbuf'[m] = [peer |-> from, data |-> text]
          /\ \A i \in 1 .. Len(sndbuf) : sndbuf'[i] = sndbuf[i]
      BY <1>1, <1>2, <2>1, <2>4, <3>1, PutAll
    <3>3. \A i \in 1 .. Len(sndbuf) : i \in 1 .. m
      BY <1>1, <1>2
    <3>. QED
      BY <1>2, <2>2, <3>2, <3>3 DEF AtRing
  <2>. QED
    BY <2>3, <2>4
<1>4. ASSUME NEW v \in Units, NEW k, NEW i, NEW j, At(k, i, j, v)
      PROVE  \/ k = "buffer" /\ i = 0 /\ At("sndbuf", m, j, v)'
             \/ /\ k = "sndbuf" /\ i \in 1 .. Len(sndbuf) /\ At("sndbuf", i, j, v)'
             \/ k \in {"in", "rcvbuf", "echoed"} /\ At(k, i, j, v)'
  <2>1. CASE k = "buffer"
    BY <1>3, <1>4, <2>1 DEF At
  <2>2. CASE k = "sndbuf"
    BY <1>3, <1>4, <2>2 DEF At, AtRing
  <2>3. CASE k \notin {"buffer", "sndbuf"}
    BY <1>1, <1>4, <2>3 DEF At, AtIn, AtRing, AtRest, AtPeer
  <2>. QED
    BY <2>1, <2>2, <2>3
<1>. SUFFICES ASSUME NEW u \in Units, NEW k, NEW i, NEW j, k # "in", At(k, i, j, u)'
              PROVE  u.pos \in 1 .. sent'[u.peer][u.dgram] /\ Ordered(u, k, i, j)'
  BY DEF InOrder
<1>5. CASE k = "sndbuf" /\ i = m /\ At("buffer", 0, j, u)
  <2>1. Ordered(u, "buffer", 0, j) /\ u.pos \in 1 .. sent[u.peer][u.dgram]
    BY <1>5 DEF InOrder
  <2>2. ASSUME NEW v \in Units, NEW k2, NEW i2, NEW j2, At(k2, i2, j2, v),
               Ahead(k2, i2, j2, "buffer", 0, j)
        PROVE  \E k3, i3, j3 : At(k3, i3, j3, v)' /\ Ahead(k3, i3, j3, k, i, j)
    <3>1. CASE k2 = "echoed"
      BY <1>4, <1>5, <2>2, <3>1 DEF Ahead
    <3>2. CASE k2 = "sndbuf"
      <4>1. i2 \in 1 .. Len(sndbuf) /\ i2 < m /\ At("sndbuf", i2, j2, v)'
        BY <1>1, <1>2, <1>4, <2>2, <3>2
      <4>. QED
        BY <1>5, <4>1 DEF Ahead
    <3>3. CASE k2 = "buffer"
      <4>1. At("sndbuf", m, j2, v)' /\ j2 < j
        BY <1>4, <2>2, <3>3 DEF Ahead
      <4>. QED
        BY <1>5, <4>1 DEF Ahead
    <3>. QED
      BY <2>2, <3>1, <3>2, <3>3 DEF Ahead
  <2>. QED
    BY <1>1, <2>1, <2>2, StillOrdered
<1>6. CASE k # "buffer" /\ At(k, i, j, u)
  <2>1. Ordered(u, k, i, j) /\ u.pos \in 1 .. sent[u.peer][u.dgram]
    BY <1>6 DEF InOrder
  <2>2. ASSUME NEW v \in Units, NEW k2, NEW i2, NEW j2, At(k2, i2, j2, v),
               Ahead(k2, i2, j2, k, i, j)
        PROVE  \E k3, i3, j3 : At(k3, i3, j3, v)' /\ Ahead(k3, i3, j3, k, i, j)
    <3>1. CASE k2 = "buffer"
      <4>1. At("sndbuf", m, j2, v)'
        BY <1>4, <2>2, <3>1
      <4>2. k \in {"rest", "rcvbuf"}
        BY <1>6, <2>2, <3>1 DEF Ahead
      <4>. QED
        BY <4>1, <4>2 DEF Ahead
    <3>2. CASE k2 # "buffer"
      BY <1>4, <2>2, <3>2
    <3>. QED
      BY <3>1, <3>2
  <2>. QED
    BY <1>1, <2>1, <2>2, StillOrdered
<1>. QED
  BY <1>2, <1>5, <1>6, ReplyMoves

\* Where nothing moves but datagrams in the in ring.
LEMMA SameOrder ==
    ASSUME InOrder, UNCHANGED <<echoed, rcvbuf, sndbuf, buffer, rest>>,
           apc' = apc \/ {apc, apc'} \cap {"rest", "reply"} = {},
           \A u \in Units : \A k, i, j : k # "in" /\ At(k, i, j, u) =>
               sent'[u.peer][u.dgram] = sent[u.peer][u.dgram]
    PROVE  InOrder'
<1>1. ASSUME NEW u \in Units, NEW k, NEW i, NEW j, k # "in"
      PROVE  At(k, i, j, u)' <=> At(k, i, j, u)
  <2>1. AtRest(j, u)' <=> AtRest(j, u)
    BY DEF AtRest
  <2>2. AtBuffer(j, u)' <=> AtBuffer(j, u)
    BY DEF AtBuffer
  <2>3. CASE k \in {"rest", "buffer"}
    BY <2>1, <2>2, <2>3 DEF At
  <2>4. CASE k \notin {"rest", "buffer"}
    BY <1>1, <2>4 DEF At, AtRing, AtPeer
  <2>. QED
    BY <2>3, <2>4
<1>. SUFFICES ASSUME NEW u \in Units, NEW k, NEW i, NEW j, k # "in", At(k, i, j, u)'
              PROVE  u.pos \in 1 .. sent'[u.peer][u.dgram] /\ Ordered(u, k, i, j)'
  BY DEF InOrder
<1>2. /\ Ordered(u, k, i, j) /\ u.pos \in 1 .. sent[u.peer][u.dgram]
      /\ sent'[u.peer][u.dgram] = sent[u.peer][u.dgram]
  BY <1>1 DEF InOrder
<1>3. ASSUME NEW v \in Units, NEW k2, NEW i2, NEW j2, At(k2, i2, j2, v),
             Ahead(k2, i2, j2, k, i, j)
      PROVE  At(k2, i2, j2, v)'
  <2>1. k2 # "in"
    BY <1>3 DEF Ahead
  <2>. QED
    BY <1>1, <1>3, <2>1
<1>. QED
  BY <1>2, <1>3, StillOrdered

\* A peer that sends moves nothing that is under way.
LEMMA SendOrder ==
    ASSUME TypeInv, Known, InOrder, NEW p \in Peers, PeerSend(p)
    PROVE  InOrder'
<1>1. PICK n \in Lengths : sent' = [sent EXCEPT ![p] = Append(@, n)]
  BY DEF PeerSend
<1>2. UNCHANGED <<echoed, rcvbuf, sndbuf, apc, buffer, rest>>
  BY DEF PeerSend, ringVars, appVars
<1>3. ASSUME NEW u \in Units, NEW k, NEW i, NEW j, At(k, i, j, u)
      PROVE  sent'[u.peer][u.dgram] = sent[u.peer][u.dgram]
  <2>1. u.peer \in Peers /\ u.dgram \in 1 .. Len(sent[u.peer])
    BY <1>3 DEF Known, Units
  <2>2. sent \in [Peers -> Seq(Lengths)]
    BY DEF TypeInv, TypeOK
  <2>. QED
    BY <1>1, <2>1, <2>2
<1>. QED
  BY <1>2, <1>3, SameOrder

-----------------------------------------------------------------------------
\* Nothing that was lost comes back, nor an allocation that failed.
LEMMA StepSmooth ==
    ASSUME TypeInv, [Next]_vars, Smooth'
    PROVE  Smooth /\ lost' = lost /\ fails' = fails
<1>1. lost \in Nat /\ fails \in Nat /\ Terminated
  BY UdpAssumption, StepTerminated DEF TypeInv, TypeOK, Smooth
<1>2. \A ring : Dropped(ring) \in Nat
  BY DEF Dropped
<1>3. lost' \in Int /\ lost' >= lost /\ fails' \in Int /\ fails' >= fails
  <2>1. CASE UNCHANGED <<lost, fails>>
    BY <1>1, <2>1
  <2>2. CASE PktDrop
    BY <1>1, <2>2 DEF PktDrop, ArpInsert, MayFail
  <2>3. CASE PktReceive
    BY <1>1, <1>2, <2>3 DEF PktReceive, ArpInsert, MayFail
  <2>4. CASE AppPutBack
    BY <1>1, <1>2, <2>4 DEF AppPutBack
  <2>5. CASE AppReply
    <3>1. CASE MayFail("reply") /\ lost' = lost + 1
      BY <1>1, <3>1 DEF MayFail
    <3>2. CASE fails' = fails /\ lost' \in {lost, lost + Dropped(sndbuf)}
      <4>1. Dropped(sndbuf) \in Nat
        BY <1>2
      <4>. QED
        BY <1>1, <3>2, <4>1
    <3>3. ASSUME NEW text \in Text, fails' = fails,
                 IF text = <<>> THEN UNCHANGED <<sndbuf, lost>>
                 ELSE /\ sndbuf' = Put(sndbuf, [peer |-> from, data |-> text])
                      /\ lost' = lost + Dropped(sndbuf)
          PROVE  fails' = fails /\ lost' \in {lost, lost + Dropped(sndbuf)}
      BY <3>3
    <3>. QED
      BY <2>5, <3>1, <3>2, <3>3 DEF AppReply
  <2>6. CASE \/ UNCHANGED vars \/ SpuriousWake \/ PktSignal
             \/ \E p \in Peers : PeerSend(p)
    BY <2>1, <2>6 DEF vars, SpuriousWake, PktSignal, PeerSend, ringVars
  <2>8. CASE PktOut
    <3>1. lost' \in {lost, lost + 1} /\ fails' = fails
      BY <2>8, OutCounts
    <3>. QED
      BY <1>1, <3>1
  <2>7. CASE AppLock \/ AppEmpty \/ AppSleep \/ AppWake \/ AppTake
    BY <2>1, <2>7 DEF AppLock, AppEmpty, AppSleep, AppWake, AppTake, ringVars
  <2>. QED
    BY <2>2, <2>3, <2>4, <2>5, <2>6, <2>7, <2>8 DEF Next, Pkt, App
<1>. QED
  BY <1>1, <1>3 DEF Smooth

\* What is in a ring after an enqueue.
LEMMA PutFrom ==
    ASSUME NEW S, NEW ring \in Seq(S), NEW ol \in S, NEW new, new = Put(ring, ol)
    PROVE  \A i \in 1 .. Len(new) : new[i] = ol \/ \E j \in 1 .. Len(ring) : new[i] = ring[j]
  BY PutPlaces

\* The units of a datagram come before what is behind them, and the rest of an offload
\* begins with units too.
LEMMA StepSolid ==
    ASSUME TypeInv, SolidInv, [Next]_vars
    PROVE  SolidInv'
<1>1. ASSUME UNCHANGED <<rcvbuf, rest>>, apc' = "rest" => apc = "rest" PROVE SolidInv'
  BY <1>1 DEF SolidInv
<1>2. CASE PktReceive
  <2>1. PICK d \in [peer : Peers, dgram : 1 .. MaxSent], data \in Seq(Cells), n \in Nat :
           /\ \A i \in 1 .. n : data[i] = Unit(d.peer, d.dgram, i)
           /\ \A i \in 1 .. Len(data) : i > n => data[i] \in {ZERO, JUNK}
           /\ [peer |-> d.peer, data |-> data] \in Offload
           /\ rcvbuf' = Put(rcvbuf, [peer |-> d.peer, data |-> data])
    BY <1>2, NewOffload
  <2>2. Solid([peer |-> d.peer, data |-> data])
    <3>. SUFFICES ASSUME NEW i \in 1 .. Len(data), data[i] \in Units, NEW j \in 1 .. i
                  PROVE  data[j] \in Units
      BY DEF Solid
    <3>1. i <= n
      BY <2>1, NotUnits
    <3>2. j \in 1 .. n /\ j \in Nat
      BY <3>1
    <3>3. d.dgram \in 1 .. MaxSent /\ d.peer \in Peers
      OBVIOUS
    <3>4. data[j] = Unit(d.peer, d.dgram, j)
      BY <2>1, <3>2
    <3>. QED
      BY <3>2, <3>3, <3>4 DEF Unit, Units
  <2>3. rcvbuf \in Seq(Offload) /\ Len(rcvbuf) <= RING
    BY DEF TypeInv, TypeOK
  <2>4. \A i \in 1 .. Len(rcvbuf') : Solid(rcvbuf'[i])
    <3>1. \A i \in 1 .. Len(rcvbuf') :
             \/ rcvbuf'[i] = [peer |-> d.peer, data |-> data]
             \/ \E j \in 1 .. Len(rcvbuf) : rcvbuf'[i] = rcvbuf[j]
      BY <2>1, <2>3, PutFrom
    <3>2. \A j \in 1 .. Len(rcvbuf) : Solid(rcvbuf[j])
      BY DEF SolidInv
    <3>. QED
      BY <2>2, <3>1, <3>2
  <2>. QED
    BY <1>2, <2>4 DEF PktReceive, appVars, SolidInv
<1>3. CASE AppTake
  <2>1. rcvbuf # <<>> /\ rcvbuf' = Tail(rcvbuf) /\ rcvbuf \in Seq(Offload)
    BY <1>3 DEF AppTake, TypeInv, TypeOK
  <2>2. PICK ol \in Offload :
           /\ ol = Head(rcvbuf) /\ Solid(ol)
           /\ \A i \in 1 .. Len(rcvbuf') : Solid(rcvbuf'[i])
    <3>1. /\ Head(rcvbuf) \in Offload /\ Head(rcvbuf) = rcvbuf[1] /\ 1 \in 1 .. Len(rcvbuf)
          /\ \A i \in 1 .. Len(rcvbuf') : /\ i + 1 \in 1 .. Len(rcvbuf)
                                         /\ rcvbuf'[i] = rcvbuf[i + 1]
      BY <2>1, HeadTail
    <3>. QED
      BY <3>1 DEF SolidInv
  <2>3. CASE apc' # "rest"
    BY <2>2, <2>3 DEF SolidInv
  <2>4. CASE apc' = "rest"
    <3>1. PICK n \in Nat : n = (IF BUF < Len(ol.data) THEN BUF ELSE Len(ol.data))
      BY UdpAssumption DEF Offload
    <3>2. /\ n < Len(ol.data)
          /\ rest' = [ol EXCEPT !.data = SubSeq(ol.data, n + 1, Len(ol.data))]
      BY <1>3, <2>2, <2>4, <3>1 DEF AppTake
    <3>3. ol.data \in Seq(Cells) /\ Len(ol.data) \in Nat
          /\ rest'.data = SubSeq(ol.data, n + 1, Len(ol.data))
      BY <3>2 DEF Offload
    <3>4. /\ Len(rest'.data) = Len(ol.data) - n
          /\ \A l \in 1 .. Len(ol.data) - n : rest'.data[l] = ol.data[n + l]
      BY <3>2, <3>3
    <3>5. Solid(rest')
      <4>. SUFFICES ASSUME NEW i \in 1 .. Len(ol.data) - n, rest'.data[i] \in Units,
                           NEW j \in 1 .. i
                    PROVE  rest'.data[j] \in Units
        BY <3>4 DEF Solid
      <4>1. PICK a \in Nat, b \in Nat : a = n + i /\ b = n + j
        BY <3>3
      <4>2. a \in 1 .. Len(ol.data) /\ b \in 1 .. a /\ j \in 1 .. Len(ol.data) - n
        BY <3>3, <4>1
      <4>3. ol.data[a] \in Units
        BY <3>4, <4>1
      <4>4. ol.data[b] \in Units
        BY <2>2, <4>2, <4>3 DEF Solid
      <4>. QED
        BY <3>4, <4>1, <4>2, <4>4
    <3>. QED
      BY <2>2, <3>5 DEF SolidInv
  <2>. QED
    BY <2>3, <2>4
<1>4. CASE AppPutBack
  <2>1. rest \in Offload /\ Solid(rest) /\ rcvbuf' = Put(rcvbuf, rest) /\ apc' = "reply"
    BY <1>4 DEF AppPutBack, AppGoto, Rest, TypeInv, PlaceInv, SolidInv
  <2>2. rcvbuf \in Seq(Offload) /\ Len(rcvbuf) <= RING
    BY DEF TypeInv, TypeOK
  <2>3. \A i \in 1 .. Len(rcvbuf') :
           rcvbuf'[i] = rest \/ \E j \in 1 .. Len(rcvbuf) : rcvbuf'[i] = rcvbuf[j]
    BY <2>1, <2>2, PutFrom
  <2>4. \A j \in 1 .. Len(rcvbuf) : Solid(rcvbuf[j])
    BY DEF SolidInv
  <2>. QED
    BY <2>1, <2>3, <2>4 DEF SolidInv
<1>5. CASE UNCHANGED vars \/ SpuriousWake \/ (\E p \in Peers : PeerSend(p))
  BY <1>1, <1>5 DEF vars, SpuriousWake, PeerSend, netVars, ringVars, appVars
<1>6. CASE PktDrop \/ PktSignal \/ PktOut
  BY <1>1, <1>6 DEF PktDrop, PktSignal, PktOut, netVars, ringVars, appVars
<1>7. CASE AppLock \/ AppEmpty \/ AppSleep \/ AppWake \/ AppReply
  BY <1>1, <1>7 DEF AppLock, AppEmpty, AppSleep, AppWake, AppReply, AppGoto, netVars, ringVars
<1>. QED
  BY <1>2, <1>3, <1>4, <1>5, <1>6, <1>7 DEF Next, Pkt, App

\* udp_process enters the sender in the ARP table before it looks at the datagram.
LEMMA StepLocated ==
    ASSUME TypeInv, LocatedInv, fails' = fails, [Next]_vars
    PROVE  LocatedInv'
<1>0. /\ rcvbuf \in Seq(Offload) /\ Len(rcvbuf) <= RING
      /\ sndbuf \in Seq(Offload) /\ Len(sndbuf) <= RING /\ fails \in Nat
  BY UdpAssumption DEF TypeInv, TypeOK
<1>1. ASSUME entries \subseteq entries', UNCHANGED <<rcvbuf, sndbuf, rest, from>>,
             apc' \in {"rest", "reply"} => apc' = apc
      PROVE  LocatedInv'
  BY <1>1 DEF LocatedInv
<1>2. CASE PktDrop
  BY <1>1, <1>2 DEF PktDrop, ArpInsert, appVars
<1>3. CASE PktReceive
  <2>1. PICK d \in [peer : Peers, dgram : 1 .. MaxSent], data \in Seq(Cells) :
           /\ d = in[1] /\ [peer |-> d.peer, data |-> data] \in Offload
           /\ rcvbuf' = Put(rcvbuf, [peer |-> d.peer, data |-> data])
    BY <1>3, NewOffload
  <2>2. entries' = entries \cup {d.peer}
    <3>1. Head(in) = in[1]
      <4>1. in # <<>> /\ in \in Seq([peer : Peers, dgram : 1 .. MaxSent])
        BY <1>3 DEF PktReceive, TypeInv, TypeOK
      <4>. QED
        BY <4>1, HeadTail
    <3>2. ArpInsert(d.peer)
      BY <1>3, <2>1, <3>1 DEF PktReceive
    <3>. QED
      BY <1>0, <3>2 DEF ArpInsert, MayFail
  <2>3. \A i \in 1 .. Len(rcvbuf') :
           \/ rcvbuf'[i] = [peer |-> d.peer, data |-> data]
           \/ \E j \in 1 .. Len(rcvbuf) : rcvbuf'[i] = rcvbuf[j]
    BY <1>0, <2>1, PutFrom
  <2>4. UNCHANGED <<sndbuf, apc, rest, from>>
    BY <1>3 DEF PktReceive, appVars
  <2>. QED
    BY <2>2, <2>3, <2>4 DEF LocatedInv
<1>4. CASE PktOut
  <2>1. sndbuf # <<>> /\ UNCHANGED <<entries, rcvbuf, apc, rest, from>>
    BY <1>4 DEF PktOut, appVars
  <2>2. /\ Head(sndbuf) = sndbuf[1] /\ 1 \in 1 .. Len(sndbuf)
        /\ Tail(sndbuf) \in Seq(Offload)
        /\ \A i \in 1 .. Len(Tail(sndbuf)) :
              i + 1 \in 1 .. Len(sndbuf) /\ Tail(sndbuf)[i] = sndbuf[i + 1]
    BY <1>0, <2>1, HeadTail
  <2>3. sndbuf' = Tail(sndbuf) \o <<>>
    BY <1>4, <2>2 DEF PktOut, Resolve, LocatedInv
  <2>4. sndbuf' = Tail(sndbuf)
    BY <2>2, <2>3, ConcatEmptySeq, Zenon
  <2>. QED
    BY <2>1, <2>2, <2>4 DEF LocatedInv
<1>5. CASE AppTake
  <2>1. rcvbuf # <<>> /\ rcvbuf' = Tail(rcvbuf) /\ UNCHANGED <<entries, sndbuf>>
    BY <1>5 DEF AppTake
  <2>2. /\ Head(rcvbuf) \in Offload /\ Head(rcvbuf) = rcvbuf[1] /\ 1 \in 1 .. Len(rcvbuf)
        /\ \A i \in 1 .. Len(rcvbuf') : /\ i + 1 \in 1 .. Len(rcvbuf)
                                       /\ rcvbuf'[i] = rcvbuf[i + 1]
    BY <1>0, <2>1, HeadTail
  <2>3. Head(rcvbuf).peer \in entries
    BY <2>2 DEF LocatedInv
  <2>4. from' \in entries /\ (apc' = "rest" => rest'.peer \in entries)
    BY <1>5, <2>2, <2>3 DEF AppTake, Offload
  <2>. QED
    BY <2>1, <2>2, <2>4 DEF LocatedInv
<1>6. CASE AppPutBack
  <2>1. /\ rest \in Offload /\ rcvbuf' = Put(rcvbuf, rest) /\ apc = "rest" /\ apc' = "reply"
        /\ UNCHANGED <<entries, sndbuf, from>>
    BY <1>6 DEF AppPutBack, AppGoto, Rest, TypeInv, PlaceInv
  <2>2. \A i \in 1 .. Len(rcvbuf') :
           rcvbuf'[i] = rest \/ \E j \in 1 .. Len(rcvbuf) : rcvbuf'[i] = rcvbuf[j]
    <3>1. rcvbuf \in Seq(Offload) /\ rest \in Offload /\ rcvbuf' = Put(rcvbuf, rest)
      BY <1>0, <2>1
    <3>. QED
      BY <3>1, PutFrom
  <2>3. /\ rest.peer \in entries /\ from \in entries
        /\ \A i \in 1 .. Len(rcvbuf) : rcvbuf[i].peer \in entries
        /\ \A i \in 1 .. Len(sndbuf) : sndbuf[i].peer \in entries
    BY <2>1 DEF LocatedInv
  <2>4. \A i \in 1 .. Len(rcvbuf') : rcvbuf'[i].peer \in entries
    BY <2>2, <2>3
  <2>. QED
    BY <2>1, <2>3, <2>4 DEF LocatedInv
<1>7. CASE AppReply
  <2>1. apc = "reply" /\ apc' = "lock" /\ UNCHANGED <<entries, rcvbuf, rest>> /\ from \in Peers
    BY <1>7 DEF AppReply, AppGoto, TypeInv, PlaceInv
  <2>2. CASE UNCHANGED sndbuf
    BY <2>1, <2>2 DEF LocatedInv
  <2>3. ASSUME NEW text \in Text, sndbuf' = Put(sndbuf, [peer |-> from, data |-> text])
        PROVE  LocatedInv'
    <3>1. [peer |-> from, data |-> text] \in Offload
      BY <2>1, TextCells DEF TypeInv, Offload
    <3>2. \A i \in 1 .. Len(sndbuf') :
             \/ sndbuf'[i] = [peer |-> from, data |-> text]
             \/ \E j \in 1 .. Len(sndbuf) : sndbuf'[i] = sndbuf[j]
      BY <1>0, <2>3, <3>1, PutFrom
    <3>. QED
      BY <2>1, <3>2 DEF LocatedInv
  <2>. QED
    BY <1>7, <2>2, <2>3 DEF AppReply
<1>8. CASE UNCHANGED vars \/ SpuriousWake \/ PktSignal \/ (\E p \in Peers : PeerSend(p))
  BY <1>1, <1>8 DEF vars, SpuriousWake, PktSignal, PeerSend, netVars, ringVars, appVars
<1>9. CASE AppLock \/ AppEmpty \/ AppSleep \/ AppWake
  BY <1>1, <1>9 DEF AppLock, AppEmpty, AppSleep, AppWake, AppGoto, netVars, ringVars
<1>. QED
  BY <1>2, <1>3, <1>4, <1>5, <1>6, <1>7, <1>8, <1>9 DEF Next, Pkt, App

\* Without losses every step keeps the units of each datagram in their order.
LEMMA StepOrder == TypeInv /\ OwnInv /\ OnceInv /\ OrderInv /\ [Next]_vars => OrderInv'
<1>. SUFFICES ASSUME TypeInv, OwnInv, OnceInv, OrderInv, [Next]_vars, Smooth'
              PROVE  SolidInv' /\ LocatedInv' /\ InOrder'
  BY DEF OrderInv
<1>1. Smooth /\ lost' = lost /\ fails' = fails
  BY StepSmooth
<1>2. /\ SolidInv /\ LocatedInv /\ InOrder /\ Known
      /\ \A i \in 1 .. Len(rcvbuf) : Whole(rcvbuf[i])
      /\ \A i \in 1 .. Len(sndbuf) : Own(sndbuf[i].peer, sndbuf[i].data)
      /\ \A p \in Peers : Own(p, echoed[p])
  BY <1>1 DEF Smooth, OrderInv, OwnInv, OnceInv
<1>3. SolidInv' /\ LocatedInv'
  BY <1>1, <1>2, StepSolid, StepLocated
<1>4. ASSUME UNCHANGED <<sent, echoed, rcvbuf, sndbuf, buffer, rest>>,
             apc' = apc \/ {apc, apc'} \cap {"rest", "reply"} = {}
      PROVE  InOrder'
  BY <1>2, <1>4, SameOrder
<1>5. InOrder'
  <2>1. CASE \E p \in Peers : PeerSend(p)
    BY <1>2, <2>1, SendOrder
  <2>2. CASE PktReceive \/ PktOut
    BY <1>1, <1>2, <2>2, ReceiveOrder, OutOrder
  <2>3. CASE AppTake
    BY <1>2, <2>3, TakeOrder
  <2>4. CASE AppPutBack \/ AppReply
    BY <1>1, <1>2, <2>4, PutBackOrder, ReplyOrder
  <2>5. CASE PktDrop \/ PktSignal \/ SpuriousWake \/ UNCHANGED vars
    BY <1>4, <2>5 DEF PktDrop, PktSignal, SpuriousWake, vars, netVars, ringVars, appVars
  <2>6. CASE AppLock \/ AppEmpty \/ AppSleep \/ AppWake
    BY <1>4, <2>6 DEF AppLock, AppEmpty, AppSleep, AppWake, AppGoto, netVars, ringVars
  <2>. QED
    BY <2>1, <2>2, <2>3, <2>4, <2>5, <2>6 DEF Next, Pkt, App
<1>. QED
  BY <1>3, <1>5

\* Nothing is under way at the start.
LEMMA InitOrder == Init => OrderInv
<1>. SUFFICES ASSUME Init PROVE SolidInv /\ LocatedInv /\ InOrder
  BY DEF OrderInv
<1>1. Len(rcvbuf) = 0 /\ Len(sndbuf) = 0 /\ apc = "lock"
  BY DEF Init
<1>2. \A p \in Peers : Len(echoed[p]) = 0
  BY DEF Init
<1>3. \A u, k, i, j : k # "in" => ~At(k, i, j, u)
  BY <1>1, <1>2 DEF At, AtRing, AtRest, AtBuffer, AtPeer
<1>4. InOrder
  BY <1>3 DEF InOrder
<1>5. SolidInv /\ LocatedInv
  BY <1>1 DEF SolidInv, LocatedInv
<1>. QED
  BY <1>4, <1>5

\* nrecvfrom gives a long datagram out in parts, and puts what is left of it behind
\* datagrams that came later (1439); the parts mix in the buffer and the send ring with
\* those of other datagrams.  While no ring overflows and no allocation fails, what a
\* peer got of a datagram is at every moment a part from its beginning, in its order.
THEOREM EchoIsInOrder == Spec => []EchoInOrder
<1>1. TypeInv /\ OwnInv /\ OnceInv /\ OrderInv => EchoInOrder
  <2>. SUFFICES ASSUME TypeInv, OwnInv, OnceInv, OrderInv, Smooth,
                       NEW p \in Peers, NEW i \in DOMAIN echoed[p], NEW u \in Units,
                       u = echoed[p][i]
                PROVE  /\ u.peer = p /\ u.dgram \in DOMAIN sent[p]
                       /\ u.pos \in 1 .. sent[p][u.dgram]
                       /\ EchoedOf(p, u.dgram, i - 1) = 1 .. u.pos - 1
    BY DEF EchoInOrder, Smooth
  <2>1. /\ DOMAIN echoed[p] = 1 .. Len(echoed[p]) /\ Len(echoed[p]) \in Nat
        /\ DOMAIN sent[p] = 1 .. Len(sent[p])
    BY DEF TypeInv, TypeOK
  <2>2. Alone /\ Known /\ InOrder /\ \A q \in Peers : Own(q, echoed[q])
    BY DEF OwnInv, OnceInv, OrderInv, Smooth
  <2>3. ASSUME NEW j \in 1 .. Len(echoed[p]), NEW v \in Units, v = echoed[p][j]
        PROVE  /\ At("echoed", p, j, v) /\ v.peer = p
               /\ v.pos \in 1 .. sent[p][v.dgram] /\ Ordered(v, "echoed", p, j)
    <3>1. At("echoed", p, j, v)
      BY <2>3 DEF At, AtPeer
    <3>2. v.peer = p
      BY <2>2, <2>3 DEF Own
    <3>. QED
      BY <2>2, <3>1, <3>2 DEF InOrder
  <2>4. /\ At("echoed", p, i, u) /\ u.peer = p
        /\ u.pos \in 1 .. sent[p][u.dgram] /\ Ordered(u, "echoed", p, i)
    BY <2>1, <2>3
  <2>5. u.dgram \in DOMAIN sent[p]
    BY <2>1, <2>2, <2>4 DEF Known
  \* A unit that is ahead of another with its peer came before it.
  <2>6. ASSUME NEW j \in 1 .. Len(echoed[p]), NEW v \in Units, v = echoed[p][j],
               NEW n \in 1 .. v.pos - 1
        PROVE  \E l \in 1 .. j - 1 :
                  l \in 1 .. Len(echoed[p]) /\ echoed[p][l] = Unit(p, v.dgram, n)
    <3>1. PICK k2, i2, j2 : /\ At(k2, i2, j2, Unit(p, v.dgram, n))
                            /\ Ahead(k2, i2, j2, "echoed", p, j)
      BY <2>3, <2>6 DEF Ordered
    <3>2. k2 = "echoed" /\ i2 = p /\ j2 < j
      BY <3>1 DEF Ahead
    <3>3. j2 \in 1 .. Len(echoed[p]) /\ echoed[p][j2] = Unit(p, v.dgram, n)
      BY <3>1, <3>2 DEF At, AtPeer
    <3>4. j2 \in 1 .. j - 1
      BY <2>1, <3>2, <3>3
    <3>. QED
      BY <3>3, <3>4
  <2>7. ASSUME NEW n \in 1 .. u.pos - 1
        PROVE  n \in EchoedOf(p, u.dgram, i - 1)
    <3>1. PICK l \in 1 .. i - 1 : echoed[p][l] = Unit(p, u.dgram, n)
      BY <2>1, <2>6
    <3>2. /\ Unit(p, u.dgram, n) \in Units /\ Unit(p, u.dgram, n).pos = n
          /\ Unit(p, u.dgram, n).dgram = u.dgram
      BY DEF Unit, Units
    <3>. QED
      BY <3>1, <3>2 DEF EchoedOf
  <2>8. ASSUME NEW n \in EchoedOf(p, u.dgram, i - 1)
        PROVE  n \in 1 .. u.pos - 1
    <3>1. PICK j \in 1 .. i - 1 :
             echoed[p][j] \in Units /\ echoed[p][j].dgram = u.dgram /\ n = echoed[p][j].pos
      BY DEF EchoedOf
    <3>2. PICK v \in Units : v = echoed[p][j] /\ v.dgram = u.dgram /\ v.pos = n
      BY <3>1
    <3>3. j \in 1 .. Len(echoed[p]) /\ j < i
      BY <2>1
    <3>4. At("echoed", p, j, v) /\ v.peer = p /\ n \in Nat \ {0} /\ u.pos \in Nat \ {0}
      BY <2>3, <2>4, <3>2, <3>3 DEF Units
    <3>5. n # u.pos
      <4>. SUFFICES ASSUME n = u.pos PROVE FALSE
        OBVIOUS
      <4>1. v = u
        BY <2>4, <3>2, <3>4 DEF Units
      <4>. QED
        BY <2>2, <2>4, <3>3, <3>4, <4>1 DEF Alone
    <3>6. ~(n > u.pos)
      <4>. SUFFICES ASSUME n > u.pos PROVE FALSE
        OBVIOUS
      <4>1. u.pos \in 1 .. v.pos - 1
        BY <3>2, <3>4
      <4>2. PICK l \in 1 .. j - 1 :
               l \in 1 .. Len(echoed[p]) /\ echoed[p][l] = Unit(p, v.dgram, u.pos)
        BY <2>6, <3>2, <3>3, <4>1
      <4>3. Unit(p, v.dgram, u.pos) = u
        BY <2>4, <3>2 DEF Unit, Units
      <4>4. At("echoed", p, l, u)
        BY <4>2, <4>3 DEF At, AtPeer
      <4>5. l = i
        BY <2>2, <2>4, <4>4 DEF Alone
      <4>. QED
        BY <3>3, <4>2, <4>5
    <3>. QED
      BY <3>4, <3>5, <3>6
  <2>. QED
    BY <2>4, <2>5, <2>7, <2>8
<1>. QED
  BY InitType, StepType, InitOwn, StepOwn, InitOnce, StepOnce, InitOrder, StepOrder, <1>1,
     PTL DEF Spec
=============================================================================
