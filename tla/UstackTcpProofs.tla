---------------------------- MODULE UstackTcpProofs ----------------------------
(***************************************************************************)
(* Proofs about UstackTcp, for any number of clients, streams, descriptors *)
(* and any bound.  The packet lcore alone adds and removes streams, so the *)
(* table is as PktInv and TableInv say whatever the application does; the  *)
(* application never takes the listener for a connection (PlaceInv).       *)
(*                                                                         *)
(* On that rest further invariants: RecvInv, of nrecv; ScanInv, of what a  *)
(* traversal has passed; and UseInv, of who uses which stream and          *)
(* descriptor until a lookup goes astray, from which the refinement of     *)
(* StreamLifecycle follows step by step.  While the wire has neither lost  *)
(* nor repeated anything: TalkInv, of what is under way on the wires and   *)
(* in the send rings, a chain of numbers from what a stream has counted to *)
(* what its client has sent; and OrderInv, of what has come and waits in   *)
(* the receive rings, numbered without a gap.                              *)
(***************************************************************************)
EXTENDS UstackTcp, LinkedListProofs

Holding == {"accept-lock", "accept-scan", "accept-wait"}
Transfer == {"recv-lock", "recv-take", "recv-sleep", "recv-wait", "recv-requeue",
             "recv-done", "send-build", "send-enqueue", "close-build", "close-fin",
             "close-status"}

\* The application's stream is one, and after an accept it is not the listener.
PlaceInv ==
    /\ apc \in Holding => ahost \in Streams
    /\ apc \in Transfer => ahost \in Streams \ {Listener} /\ acall # "accept"
    /\ apc = "accept-assign" => acur \in Streams \ {Listener}
    /\ acall # "accept" => afd # ListenFd
    /\ fd[Listener] = ListenFd

\* The stream a handler works on stays in the table until it removes it.
PktInv ==
    /\ ppc # "idle" => pstream \in Streams \ {Listener}
    /\ ppc \notin {"idle", "free"} => pstream \in Table

\* The table holds each stream in use once, and one stream for a peer.
TableInv ==
    /\ Distinct(tcb_set)
    /\ Listener \in Table /\ status[Listener] = "LISTEN" /\ peer[Listener] = NULL
    /\ \A s \in Streams :
          s \in Table <=> status[s] # "FREE" /\ ~(ppc = "free" /\ pstream = s)
    /\ \A s \in Table \ {Listener} : peer[s] \in Clients
    /\ \A s, t \in Table : peer[s] = peer[t] => s = t
    /\ \A s \in Streams : status[s] = "CLOSED" => ppc = "free" /\ pstream = s
    /\ \A s \in Streams :
          status[s] = "LISTEN" => s = Listener \/ (ppc = "synack" /\ pstream = s)

IInv == TypeOK /\ PlaceInv /\ PktInv /\ TableInv
-----------------------------------------------------------------------------
\* The fields of a segment.
LEMMA SegmentType ==
    /\ NoSegment \in Segments
    /\ \A flags \in SUBSET Flags, seq, ack \in Nat, data \in Seq(Nat) :
          Segment(flags, seq, ack, data) \in Segments
BY DEF Segment, NoSegment, Segments

\* A queue per index: what is appended to one.
LEMMA QueueAppend ==
    ASSUME NEW I, NEW S, NEW queue \in [I -> Seq(S)], NEW i \in I, NEW x \in S
    PROVE  [queue EXCEPT ![i] = Append(@, x)] \in [I -> Seq(S)]
<1>1. Append(queue[i], x) \in Seq(S)
  OBVIOUS
<1> QED BY <1>1

\* What is taken from the head of a queue.
LEMMA QueueTake ==
    ASSUME NEW I, NEW S, NEW queue \in [I -> Seq(S)], NEW i \in I, queue[i] # <<>>
    PROVE  /\ Head(queue[i]) \in S
           /\ [queue EXCEPT ![i] = Tail(@)] \in [I -> Seq(S)]
<1>1. Head(queue[i]) \in S /\ Tail(queue[i]) \in Seq(S)
  OBVIOUS
<1> QED BY <1>1

\* The rest of a queue.
LEMMA RestType ==
    ASSUME NEW S, NEW q \in Seq(S), NEW m \in Nat \ {0}
    PROVE  SubSeq(q, m, Len(q)) \in Seq(S)
OBVIOUS

\* ng_tcp_process: the segment taken off the wire.
LEMMA ProcessType ==
    ASSUME ClientOK, WireOK, NEW c \in Clients, NEW s, Process(c, s)
    PROVE  /\ pseg' \in Segments /\ Head(to_stack[c]) = pseg'
           /\ to_stack' \in [Clients -> Seq(Segments)]
           /\ UNCHANGED <<epoll, apc, acall, afd, acur, cut, ahost, stray, abuf, afrag>>
           /\ UNCHANGED <<cst, csent, crcv, cgot, conns, to_client, faults>>
<1>1. /\ to_stack \in [Clients -> Seq(Segments)] /\ to_stack[c] # <<>>
      /\ pseg' = Head(to_stack[c]) /\ to_stack' = [to_stack EXCEPT ![c] = Tail(@)]
  BY DEF Process, WireOK
<1>2. pseg' \in Segments /\ to_stack' \in [Clients -> Seq(Segments)]
  BY <1>1, QueueTake
<1> QED BY <1>1, <1>2
        DEF Process, appVars, callVars, cursorVars, hostVars, localVars, clientVars

\* A fragment made of a stream, and one put in its send ring.
LEMMA FragmentType ==
    ASSUME BuffersOK, NEW s \in Streams, NEW flags \in SUBSET Flags, NEW data \in Seq(Nat)
    PROVE  Fragment(s, flags, data) \in Segments
BY SegmentType DEF BuffersOK, Fragment

LEMMA EnqueueType ==
    ASSUME BuffersOK, NEW s \in Streams, NEW seg \in Segments, Enqueue(s, seg)
    PROVE  sndbuf' \in [Streams -> Seq(Segments)]
BY QueueAppend DEF BuffersOK, Enqueue

\* A client puts a segment on the wire.
LEMMA TransmitType ==
    ASSUME WireOK, ClientOK', NEW c \in Clients, NEW flags \in SUBSET Flags,
           NEW seq \in Nat, NEW data \in Seq(Nat), Transmit(c, flags, seq, data)
    PROVE  to_stack' \in [Clients -> Seq(Segments)]
<1>1. Segment(flags, seq, crcv'[c], data) \in Segments
  BY SegmentType DEF ClientOK
<1>2. to_stack' = [to_stack EXCEPT ![c] = Append(@, Segment(flags, seq, crcv'[c], data))]
  BY DEF Transmit
<1> QED BY <1>1, <1>2, QueueAppend DEF WireOK

\* What nrecv returns of a payload, and what it puts back, are payloads.
LEMMA ReturnedType ==
    ASSUME NEW data \in Seq(Nat)
    PROVE  Returned(data) \in Seq(Nat) /\ Remainder(data) \in Seq(Nat)
BY UstackAssumption DEF Returned, Remainder

\* get_fd_frombitmap: the descriptor it gives was free.
LEMMA LowestFdFree == FreeFds # {} => LowestFd \in FreeFds
<1> SUFFICES ASSUME FreeFds # {} PROVE LowestFd \in FreeFds
  OBVIOUS
<1>1. PICK f \in FreeFds : \A g \in FreeFds : f <= g
  BY LeastElement, UstackAssumption DEF FreeFds
<1> QED BY <1>1 DEF LowestFd

\* ng_tcp_stream_search: the stream of the peer, else a listening one.
LEMMA SearchFinds ==
    ASSUME tcb_set \in Seq(Streams), NEW c, NEW s, s = Search(c), s # NULL,
           NULL \notin Streams
    PROVE  /\ s \in Table
           /\ status[s] = "LISTEN" \/ peer[s] = c
           /\ peer[s] # c => \A t \in Table : peer[t] # c
<1> DEFINE exact == {t \in Members(tcb_set) : peer[t] = c}
           listening == {t \in Members(tcb_set) : status[t] = "LISTEN"}
<1>1. Len(tcb_set) \in Nat
  OBVIOUS
<1>2. CASE exact # {}
  <2>1. s = FirstIn(exact, tcb_set, NULL)
    BY <1>2 DEF Search
  <2>2. s \in exact
    BY <1>1, <1>2, <2>1, FirstInSet
  <2> QED BY <2>2 DEF Table
<1>3. CASE exact = {}
  <2>1. s = FirstIn(listening, tcb_set, NULL)
    BY <1>3 DEF Search
  <2>2. s \in listening
    BY <1>1, <2>1, FirstInSet
  <2> QED BY <1>3, <2>2 DEF Table
<1> QED BY <1>2, <1>3
-----------------------------------------------------------------------------
\* After nsocket, nbind and nlisten.
LEMMA InitIInv == Init => IInv
<1> SUFFICES ASSUME Init PROVE IInv
  OBVIOUS
<1>1. TypeOK
  <2>1. TableOK /\ BuffersOK
    BY UstackAssumption DEF Init, TableOK, BuffersOK, Statuses
  <2>2. NoSegment \in Segments /\ <<>> \in Seq(Nat)
    BY SegmentType
  <2>3. AppOK
    BY <2>2, UstackAssumption DEF Init, AppOK, AppPlaces
  <2>4. PktOK
    BY <2>2 DEF Init, PktOK, PktPlaces
  <2>5. ClientOK /\ WireOK
    BY UstackAssumption DEF Init, ClientOK, WireOK
  <2> QED BY <2>1, <2>3, <2>4, <2>5 DEF TypeOK
<1>2. Table = {Listener} /\ Distinct(tcb_set)
  BY DEF Init, Table, Members, Distinct
<1>3. PlaceInv /\ PktInv
  BY UstackAssumption DEF Init, PlaceInv, PktInv, Holding, Transfer
<1>4. TableInv
  BY <1>2, UstackAssumption DEF Init, TableInv
<1> QED BY <1>1, <1>3, <1>4 DEF IInv

\* Every step of an lcore, a client or the wire keeps the types.
LEMMA StepTypeOK == IInv /\ [Next]_vars => TypeOK'
<1> SUFFICES ASSUME IInv, [Next]_vars PROVE TypeOK'
  OBVIOUS
<1> USE UstackAssumption
    DEF IInv, TypeOK, tableVars, seqVars, bufVars, callVars, cursorVars,
        hostVars, localVars, appVars, pktVars, clientVars, wireVars, envVars, stackVars
<1>1. ASSUME NEW f \in Fds \cup {ListenFd}, AppEvent(f) PROVE TypeOK'
  <2>1. AppOK'
    BY <1>1, LinkType
       DEF AppEvent, Call, AppOK, PlaceInv, Holding, Transfer, AppPlaces, TableOK,
           BuffersOK, AppOK, PktOK
  <2>2. TableOK' /\ BuffersOK' /\ PktOK' /\ ClientOK' /\ WireOK'
    BY <1>1 DEF AppEvent, Call, TableOK, BuffersOK, PktOK, ClientOK, WireOK
  <2> QED BY <2>1, <2>2
<1>2. ASSUME AppFindNext PROVE TypeOK'
  <2>1. AppOK'
    BY <1>2, LinkType
       DEF AppFindNext, Advance, AppOK, PlaceInv, Holding, Transfer, AppPlaces,
           TableOK, BuffersOK, AppOK, PktOK
  <2>2. TableOK' /\ BuffersOK' /\ PktOK' /\ ClientOK' /\ WireOK'
    BY <1>2 DEF AppFindNext, Advance, TableOK, BuffersOK, PktOK, ClientOK, WireOK
  <2> QED BY <2>1, <2>2
<1>3. ASSUME AppFound PROVE TypeOK'
  <2>1. AppOK'
    BY <1>3
       DEF AppFound, AppOK, PlaceInv, Holding, Transfer, AppPlaces, TableOK,
           BuffersOK, AppOK, PktOK
  <2>2. TableOK' /\ BuffersOK' /\ PktOK' /\ ClientOK' /\ WireOK'
    BY <1>3 DEF AppFound, TableOK, BuffersOK, PktOK, ClientOK, WireOK
  <2> QED BY <2>1, <2>2
<1>4. ASSUME AppNotFound PROVE TypeOK'
  <2>1. AppOK'
    BY <1>4
       DEF AppNotFound, AppOK, PlaceInv, Holding, Transfer, AppPlaces, TableOK,
           BuffersOK, AppOK, PktOK
  <2>2. TableOK' /\ BuffersOK' /\ PktOK' /\ ClientOK' /\ WireOK'
    BY <1>4 DEF AppNotFound, TableOK, BuffersOK, PktOK, ClientOK, WireOK
  <2> QED BY <2>1, <2>2
<1>5. ASSUME AcceptLock PROVE TypeOK'
  <2>1. AppOK'
    BY <1>5, LinkType
       DEF AcceptLock, Live, AppOK, PlaceInv, Holding, Transfer, AppPlaces, TableOK,
           BuffersOK, AppOK, PktOK
  <2>2. TableOK' /\ BuffersOK' /\ PktOK' /\ ClientOK' /\ WireOK'
    BY <1>5 DEF AcceptLock, Live, TableOK, BuffersOK, PktOK, ClientOK, WireOK
  <2> QED BY <2>1, <2>2
<1>6. ASSUME AcceptScan PROVE TypeOK'
  <2>1. AppOK'
    <3>1. Successor(acur, tcb_set, NULL) \in Streams \cup {NULL}
      BY LinkType DEF TableOK
    <3> QED BY <1>6, <3>1 DEF AcceptScan, Advance, AppOK, AppPlaces
  <2>2. TableOK' /\ BuffersOK' /\ PktOK' /\ ClientOK' /\ WireOK'
    BY <1>6 DEF AcceptScan, Advance, TableOK, BuffersOK, PktOK, ClientOK, WireOK
  <2> QED BY <2>1, <2>2
<1>7. ASSUME AcceptAssign PROVE TypeOK'
  <2>1. TableOK'
    <3>1. FreeFds # {} => LowestFd \in Fds
      BY LowestFdFree DEF FreeFds
    <3> QED BY <1>7, <3>1 DEF AcceptAssign, TableOK
  <2>2. AppOK'
    <3>1. FreeFds # {} => LowestFd \in Fds
      BY LowestFdFree DEF FreeFds
    <3> QED BY <1>7, <3>1 DEF AcceptAssign, AppOK, AppPlaces
  <2>3. BuffersOK' /\ PktOK' /\ ClientOK' /\ WireOK'
    BY <1>7 DEF AcceptAssign, Live, BuffersOK, PktOK, ClientOK, WireOK
  <2> QED BY <2>1, <2>2, <2>3
<1>8. ASSUME RecvLock PROVE TypeOK'
  <2>1. AppOK'
    BY <1>8
       DEF RecvLock, Live, AppOK, PlaceInv, Holding, Transfer, AppPlaces, TableOK,
           BuffersOK, AppOK, PktOK
  <2>2. TableOK' /\ BuffersOK' /\ PktOK' /\ ClientOK' /\ WireOK'
    BY <1>8 DEF RecvLock, Live, TableOK, BuffersOK, PktOK, ClientOK, WireOK
  <2> QED BY <2>1, <2>2
<1>9. ASSUME RecvEmpty PROVE TypeOK'
  <2>1. AppOK'
    BY <1>9
       DEF RecvEmpty, AppOK, PlaceInv, Holding, Transfer, AppPlaces, TableOK,
           BuffersOK, AppOK, PktOK
  <2>2. TableOK' /\ BuffersOK' /\ PktOK' /\ ClientOK' /\ WireOK'
    BY <1>9 DEF RecvEmpty, TableOK, BuffersOK, PktOK, ClientOK, WireOK
  <2> QED BY <2>1, <2>2
<1>10. ASSUME RecvWait PROVE TypeOK'
  <2>1. AppOK'
    BY <1>10
       DEF RecvWait, AppOK, PlaceInv, Holding, Transfer, AppPlaces, TableOK,
           BuffersOK, AppOK, PktOK
  <2>2. TableOK' /\ BuffersOK' /\ PktOK' /\ ClientOK' /\ WireOK'
    BY <1>10 DEF RecvWait, TableOK, BuffersOK, PktOK, ClientOK, WireOK
  <2> QED BY <2>1, <2>2
<1>11. ASSUME RecvTake PROVE TypeOK'
  <2>1. BuffersOK'
    <3>1. ahost \in Streams /\ rcvbuf[ahost] # <<>>
      BY <1>11 DEF RecvTake, PlaceInv, Transfer
    <3>2. /\ Head(rcvbuf[ahost]) \in Seq(Nat)
          /\ [rcvbuf EXCEPT ![ahost] = Tail(@)] \in [Streams -> Seq(Seq(Nat))]
      BY <3>1, QueueTake DEF BuffersOK
    <3>3. taken[ahost] \o Returned(Head(rcvbuf[ahost])) \in Seq(Nat)
      BY <3>1, <3>2, ReturnedType DEF BuffersOK
    <3> QED BY <1>11, <3>2, <3>3 DEF RecvTake, BuffersOK
  <2>2. AppOK'
    <3>1. ahost \in Streams /\ rcvbuf[ahost] # <<>>
      BY <1>11 DEF RecvTake, PlaceInv, Transfer
    <3>2. Head(rcvbuf[ahost]) \in Seq(Nat)
      BY <3>1, QueueTake DEF BuffersOK
    <3> QED BY <1>11, <3>2 DEF RecvTake, AppOK, AppPlaces
  <2>3. TableOK' /\ PktOK' /\ ClientOK' /\ WireOK'
    BY <1>11 DEF RecvTake, TableOK, PktOK, ClientOK, WireOK
  <2> QED BY <2>1, <2>2, <2>3
<1>12. ASSUME RecvRequeue PROVE TypeOK'
  <2>1. BuffersOK'
    <3>1. ahost \in Streams /\ Remainder(abuf) \in Seq(Nat)
      BY <1>12, ReturnedType DEF RecvRequeue, PlaceInv, Transfer, AppOK
    <3>2. [rcvbuf EXCEPT ![ahost] = Append(@, Remainder(abuf))]
            \in [Streams -> Seq(Seq(Nat))]
      BY <3>1, QueueAppend DEF BuffersOK
    <3> QED BY <1>12, <3>2 DEF RecvRequeue, BuffersOK
  <2>2. AppOK'
    BY <1>12, ReturnedType
       DEF RecvRequeue, Live, AppOK, PlaceInv, Holding, Transfer, AppPlaces, TableOK,
           BuffersOK, AppOK, PktOK
  <2>3. TableOK' /\ PktOK' /\ ClientOK' /\ WireOK'
    BY <1>12 DEF RecvRequeue, Live, TableOK, PktOK, ClientOK, WireOK
  <2> QED BY <2>1, <2>2, <2>3
<1>13. ASSUME RecvDone PROVE TypeOK'
  <2>1. AppOK'
    BY <1>13, LinkType, ReturnedType
       DEF RecvDone, Call, AppOK, PlaceInv, Holding, Transfer, AppPlaces, TableOK,
           BuffersOK, AppOK, PktOK
  <2>2. TableOK' /\ BuffersOK' /\ PktOK' /\ ClientOK' /\ WireOK'
    BY <1>13 DEF RecvDone, Call, TableOK, BuffersOK, PktOK, ClientOK, WireOK
  <2> QED BY <2>1, <2>2
<1>14. ASSUME SendBuild PROVE TypeOK'
  <2>1. AppOK'
    <3>1. ahost \in Streams
      BY <1>14 DEF SendBuild, PlaceInv, Transfer
    <3>2. afrag' \in Segments
      BY <1>14, <3>1, FragmentType DEF SendBuild, AppOK, Flags
    <3> QED BY <1>14, <3>2 DEF SendBuild, AppOK, AppPlaces
  <2>2. TableOK' /\ BuffersOK' /\ PktOK' /\ ClientOK' /\ WireOK'
    BY <1>14 DEF SendBuild, Live, TableOK, BuffersOK, PktOK, ClientOK, WireOK
  <2> QED BY <2>1, <2>2
<1>15. ASSUME SendEnqueue PROVE TypeOK'
  <2>1. BuffersOK'
    <3>1. ahost \in Streams /\ afrag \in Segments
      BY <1>15 DEF SendEnqueue, PlaceInv, Transfer, AppOK
    <3>2. sndbuf' \in [Streams -> Seq(Segments)]
      BY <1>15, <3>1, EnqueueType DEF SendEnqueue
    <3> QED BY <1>15, <3>2 DEF SendEnqueue, BuffersOK
  <2>2. AppOK'
    BY <1>15, SegmentType
       DEF SendEnqueue, Enqueue, Live, AppOK, PlaceInv, Holding, Transfer, AppPlaces, TableOK,
           BuffersOK, AppOK, PktOK
  <2>3. TableOK' /\ PktOK' /\ ClientOK' /\ WireOK'
    BY <1>15 DEF SendEnqueue, Enqueue, Live, TableOK, PktOK, ClientOK, WireOK
  <2> QED BY <2>1, <2>2, <2>3
<1>16. ASSUME CloseFin PROVE TypeOK'
  <2>1. BuffersOK'
    <3>1. ahost \in Streams /\ afrag \in Segments
      BY <1>16 DEF CloseFin, PlaceInv, Transfer, AppOK
    <3>2. sndbuf' \in [Streams -> Seq(Segments)]
      BY <1>16, <3>1, EnqueueType DEF CloseFin
    <3> QED BY <1>16, <3>2 DEF CloseFin, BuffersOK
  <2>2. AppOK'
    BY <1>16, SegmentType
       DEF CloseFin, Live, Enqueue, AppOK, PlaceInv, Holding, Transfer, AppPlaces,
           TableOK, BuffersOK, AppOK, PktOK
  <2>3. TableOK' /\ PktOK' /\ ClientOK' /\ WireOK'
    BY <1>16 DEF CloseFin, Live, Enqueue, TableOK, PktOK, ClientOK, WireOK
  <2> QED BY <2>1, <2>2, <2>3
<1>40. ASSUME CloseBuild PROVE TypeOK'
  <2>1. AppOK'
    <3>1. ahost \in Streams
      BY <1>40 DEF CloseBuild, PlaceInv, Transfer
    <3>2. {"ACK", "FIN"} \in SUBSET Flags /\ <<>> \in Seq(Nat)
      BY DEF Flags
    <3>3. afrag' \in Segments
      BY <1>40, <3>1, <3>2, FragmentType DEF CloseBuild
    <3> QED BY <1>40, <3>3 DEF CloseBuild, AppOK, AppPlaces
  <2>2. TableOK' /\ BuffersOK' /\ PktOK' /\ ClientOK' /\ WireOK'
    BY <1>40 DEF CloseBuild, Live, TableOK, BuffersOK, PktOK, ClientOK, WireOK
  <2> QED BY <2>1, <2>2
<1>17. ASSUME CloseStatus PROVE TypeOK'
  <2>1. TableOK'
    BY <1>17
       DEF CloseStatus, Live, TableOK, Statuses, PlaceInv, Holding, Transfer,
           TableOK, BuffersOK, AppOK, PktOK
  <2>2. AppOK'
    BY <1>17
       DEF CloseStatus, Live, AppOK, PlaceInv, Holding, Transfer, AppPlaces, TableOK,
           BuffersOK, AppOK, PktOK
  <2>3. BuffersOK' /\ PktOK' /\ ClientOK' /\ WireOK'
    BY <1>17 DEF CloseStatus, Live, BuffersOK, PktOK, ClientOK, WireOK
  <2> QED BY <2>1, <2>2, <2>3
<1>18. ASSUME CloseFd PROVE TypeOK'
  <2>1. TableOK'
    BY <1>18
       DEF CloseFd, TableOK, Statuses, PlaceInv, Holding, Transfer, TableOK,
           BuffersOK, AppOK, PktOK
  <2>2. AppOK'
    BY <1>18
       DEF CloseFd, AppOK, PlaceInv, Holding, Transfer, AppPlaces, TableOK,
           BuffersOK, AppOK, PktOK
  <2>3. BuffersOK' /\ PktOK' /\ ClientOK' /\ WireOK'
    BY <1>18 DEF CloseFd, BuffersOK, PktOK, ClientOK, WireOK
  <2> QED BY <2>1, <2>2, <2>3
<1>19. ASSUME NEW c \in Clients, NEW s \in Streams \cup {NULL}, PktIgnore(c, s)
       PROVE  TypeOK'
  <2>1. PktOK'
    BY <1>19, ProcessType DEF PktIgnore, PktOK, PktPlaces
  <2>2. WireOK'
    BY <1>19, ProcessType DEF PktIgnore, WireOK
  <2>3. TableOK' /\ AppOK' /\ ClientOK'
    BY <1>19 DEF PktIgnore, Process, TableOK, AppOK, ClientOK
  <2>4. BuffersOK'
    <3>1. Len(pseg'.data) \in Nat
      BY <2>1 DEF PktOK, Segments
    <3>2. skipped' \in [Streams -> Nat]
      <4>1. \/ skipped' = skipped
            \/ s \in Streams /\ skipped' = [skipped EXCEPT ![s] = @ + Len(pseg'.data)]
        BY <1>19 DEF PktIgnore
      <4>2. skipped \in [Streams -> Nat]
        BY DEF BuffersOK
      <4> QED BY <3>1, <4>1, <4>2
    <3> QED BY <1>19, <3>2 DEF PktIgnore, BuffersOK
  <2> QED BY <2>1, <2>2, <2>3, <2>4
<1>20. ASSUME NEW c \in Clients, NEW s \in Streams \cup {NULL}, PktListen(c, s)
       PROVE  TypeOK'
  <2>1. TableOK'
    <3>1. PICK syn \in Streams :
            /\ tcb_set' = Insert(syn, tcb_set)
            /\ status' = [status EXCEPT ![syn] = "LISTEN"]
            /\ fd' = [fd EXCEPT ![syn] = -1]
            /\ peer' = [peer EXCEPT ![syn] = c]
            /\ UNCHANGED fd_table
      BY <1>20 DEF PktListen
    <3>2. tcb_set' \in Seq(Streams)
      BY <3>1, InsertType DEF TableOK
    <3> QED BY <3>1, <3>2 DEF TableOK, Statuses
  <2>2. BuffersOK'
    <3>1. PICK syn \in Streams : /\ snd_nxt' = [snd_nxt EXCEPT ![syn] = 0]
                                 /\ taken' = [taken EXCEPT ![syn] = <<>>]
                                 /\ skipped' = [skipped EXCEPT ![syn] = 0]
                                 /\ UNCHANGED <<rcv_nxt, sndbuf, rcvbuf>>
      BY <1>20 DEF PktListen
    <3> QED BY <3>1 DEF BuffersOK
  <2>3. PktOK'
    BY <1>20, ProcessType DEF PktListen, PktOK, PktPlaces
  <2>4. WireOK'
    BY <1>20, ProcessType DEF PktListen, WireOK
  <2>5. AppOK' /\ ClientOK'
    BY <1>20 DEF PktListen, Process, AppOK, ClientOK
  <2> QED BY <2>1, <2>2, <2>3, <2>4, <2>5
<1>21. ASSUME PktSynAck PROVE TypeOK'
  <2>1. TableOK'
    BY <1>21, SegmentType
       DEF PktSynAck, TableOK, Statuses, PlaceInv, Holding, Transfer, TableOK,
           BuffersOK, AppOK, PktOK
  <2>2. BuffersOK'
    <3>1. pstream \in Streams /\ pseg \in Segments /\ pseg.seq + 1 \in Nat
      BY <1>21 DEF PktSynAck, PktInv, PktOK, Segments
    <3>2. {"SYN", "ACK"} \in SUBSET Flags /\ <<>> \in Seq(Nat)
      BY DEF Flags
    <3>3. Segment({"SYN", "ACK"}, snd_nxt[pstream], pseg.seq + 1, <<>>) \in Segments
      BY <3>1, <3>2, SegmentType DEF BuffersOK
    <3>4. sndbuf' \in [Streams -> Seq(Segments)]
      BY <1>21, <3>1, <3>3, QueueAppend DEF PktSynAck, BuffersOK
    <3> QED BY <1>21, <3>1, <3>4 DEF PktSynAck, BuffersOK
  <2>3. PktOK'
    BY <1>21, SegmentType
       DEF PktSynAck, PktOK, PktPlaces, TableOK, BuffersOK, AppOK, PktOK
  <2>4. AppOK' /\ ClientOK' /\ WireOK'
    BY <1>21 DEF PktSynAck, AppOK, ClientOK, WireOK
  <2> QED BY <2>1, <2>2, <2>3, <2>4
<1>22. ASSUME NEW c \in Clients, NEW s \in Streams \cup {NULL}, PktSynRcvd(c, s)
       PROVE  TypeOK'
  <2>1. TableOK'
    BY <1>22
       DEF PktSynRcvd, Process, TableOK, Statuses, PlaceInv, Holding, Transfer,
           TableOK, BuffersOK, AppOK, PktOK
  <2>2. PktOK'
    BY <1>22, ProcessType DEF PktSynRcvd, PktOK, PktPlaces
  <2>3. WireOK'
    BY <1>22, ProcessType DEF PktSynRcvd, WireOK
  <2>4. BuffersOK' /\ AppOK' /\ ClientOK'
    BY <1>22 DEF PktSynRcvd, Process, BuffersOK, AppOK, ClientOK
  <2> QED BY <2>1, <2>2, <2>3, <2>4
<1>23. ASSUME PktAccept PROVE TypeOK'
  <2>1. AppOK'
    BY <1>23
       DEF PktAccept, Signal, Woken, AppOK, PlaceInv, Holding, Transfer, AppPlaces,
           TableOK, BuffersOK, AppOK, PktOK
  <2>2. PktOK'
    BY <1>23
       DEF PktAccept, Signal, Woken, PktOK, PktPlaces, TableOK, BuffersOK, AppOK,
           PktOK
  <2>3. TableOK' /\ BuffersOK' /\ ClientOK' /\ WireOK'
    BY <1>23 DEF PktAccept, Signal, Woken, TableOK, BuffersOK, ClientOK, WireOK
  <2> QED BY <2>1, <2>2, <2>3
<1>24. ASSUME NEW c \in Clients, NEW s \in Streams \cup {NULL}, PktEstablished(c, s)
       PROVE  TypeOK'
  <2>1. PktOK'
    BY <1>24, ProcessType DEF PktEstablished, PktOK, PktPlaces
  <2>2. WireOK'
    BY <1>24, ProcessType DEF PktEstablished, WireOK
  <2>3. TableOK' /\ BuffersOK' /\ AppOK' /\ ClientOK'
    BY <1>24 DEF PktEstablished, Process, TableOK, BuffersOK, AppOK, ClientOK
  <2> QED BY <2>1, <2>2, <2>3
<1>25. ASSUME PktFin PROVE TypeOK'
  <2>1. TableOK'
    BY <1>25
       DEF PktFin, TableOK, Statuses, PlaceInv, Holding, Transfer, TableOK,
           BuffersOK, AppOK, PktOK
  <2>2. PktOK'
    BY <1>25
       DEF PktFin, PktOK, PktPlaces, TableOK, BuffersOK, AppOK, PktOK
  <2>3. BuffersOK' /\ AppOK' /\ ClientOK' /\ WireOK'
    BY <1>25 DEF PktFin, BuffersOK, AppOK, ClientOK, WireOK
  <2> QED BY <2>1, <2>2, <2>3
<1>26. ASSUME PktEnqueue PROVE TypeOK'
  <2>1. BuffersOK'
    <3>1. pstream \in Streams /\ pseg.data \in Seq(Nat) /\ <<>> \in Seq(Nat)
      BY <1>26 DEF PktEnqueue, PktInv, PktOK, Segments
    <3>2. rcvbuf' \in [Streams -> Seq(Seq(Nat))]
      BY <1>26, <3>1, QueueAppend DEF PktEnqueue, BuffersOK
    <3> QED BY <1>26, <3>2 DEF PktEnqueue, BuffersOK
  <2>2. PktOK'
    BY <1>26
       DEF PktEnqueue, PktOK, PktPlaces, TableOK, BuffersOK, AppOK, PktOK
  <2>3. TableOK' /\ AppOK' /\ ClientOK' /\ WireOK'
    BY <1>26 DEF PktEnqueue, TableOK, AppOK, ClientOK, WireOK
  <2> QED BY <2>1, <2>2, <2>3
<1>27. ASSUME PktSignal PROVE TypeOK'
  <2>1. AppOK'
    BY <1>27
       DEF PktSignal, Signal, Woken, AppOK, PlaceInv, Holding, Transfer, AppPlaces,
           TableOK, BuffersOK, AppOK, PktOK
  <2>2. PktOK'
    BY <1>27
       DEF PktSignal, Signal, Woken, PktOK, PktPlaces, TableOK, BuffersOK, AppOK,
           PktOK
  <2>3. TableOK' /\ BuffersOK' /\ ClientOK' /\ WireOK'
    BY <1>27 DEF PktSignal, Signal, Woken, TableOK, BuffersOK, ClientOK, WireOK
  <2> QED BY <2>1, <2>2, <2>3
<1>28. ASSUME PktCount PROVE TypeOK'
  <2>1. BuffersOK'
    <3>1. pstream \in Streams
      BY <1>28 DEF PktCount, PktInv
    <3>2. pseg.data \in Seq(Nat) /\ pseg.ack \in Nat
      BY DEF PktOK, Segments
    <3>3. Len(pseg.data) \in Nat
      BY <3>2
    <3> DEFINE n == IF ppc = "count" THEN Len(pseg.data) ELSE 1
    <3>4. n \in Nat
      BY <3>3
    <3>5. rcv_nxt' = [rcv_nxt EXCEPT ![pstream] = @ + n]
      BY <1>28 DEF PktCount
    <3> HIDE DEF n
    <3>6. rcv_nxt' \in [Streams -> Nat]
      BY <3>1, <3>4, <3>5 DEF BuffersOK
    <3>7. snd_nxt' \in [Streams -> Nat] /\ UNCHANGED <<skipped, sndbuf, rcvbuf, taken>>
      BY <1>28, <3>1, <3>2 DEF PktCount, BuffersOK
    <3> QED BY <3>6, <3>7 DEF BuffersOK
  <2>2. PktOK'
    BY <1>28
       DEF PktCount, PktOK, PktPlaces, TableOK, BuffersOK, AppOK, PktOK
  <2>3. TableOK' /\ AppOK' /\ ClientOK' /\ WireOK'
    BY <1>28 DEF PktCount, TableOK, AppOK, ClientOK, WireOK
  <2> QED BY <2>1, <2>2, <2>3
<1>29. ASSUME PktAck PROVE TypeOK'
  <2>1. BuffersOK'
    <3>1. pstream \in Streams /\ Enqueue(pstream, Fragment(pstream, {"ACK"}, <<>>))
      BY <1>29 DEF PktAck, PktInv
    <3>2. {"ACK"} \in SUBSET Flags /\ <<>> \in Seq(Nat)
      BY DEF Flags
    <3>3. sndbuf' \in [Streams -> Seq(Segments)]
      BY <3>1, <3>2, FragmentType, EnqueueType
    <3> QED BY <1>29, <3>3 DEF PktAck, BuffersOK
  <2>2. PktOK'
    BY <1>29, SegmentType
       DEF PktAck, Enqueue, PktOK, PktPlaces, TableOK, BuffersOK, AppOK, PktOK
  <2>3. TableOK' /\ AppOK' /\ ClientOK' /\ WireOK'
    BY <1>29 DEF PktAck, Enqueue, TableOK, AppOK, ClientOK, WireOK
  <2> QED BY <2>1, <2>2, <2>3
<1>30. ASSUME NEW c \in Clients, NEW s \in Streams \cup {NULL}, PktLastAck(c, s)
       PROVE  TypeOK'
  <2>1. TableOK'
    BY <1>30, DeleteItems
       DEF PktLastAck, Process, TableOK, Statuses, PlaceInv, Holding, Transfer,
           TableOK, BuffersOK, AppOK, PktOK
  <2>2. PktOK'
    BY <1>30, ProcessType DEF PktLastAck, PktOK, PktPlaces
  <2>3. WireOK'
    BY <1>30, ProcessType DEF PktLastAck, WireOK
  <2>4. BuffersOK' /\ AppOK' /\ ClientOK'
    BY <1>30 DEF PktLastAck, Process, BuffersOK, AppOK, ClientOK
  <2> QED BY <2>1, <2>2, <2>3, <2>4
<1>31. ASSUME PktFree PROVE TypeOK'
  <2>1. TableOK'
    BY <1>31
       DEF PktFree, TableOK, Statuses, PlaceInv, Holding, Transfer, TableOK,
           BuffersOK, AppOK, PktOK
  <2>2. BuffersOK'
    <3>1. <<>> \in Seq(Segments) /\ <<>> \in Seq(Seq(Nat))
      OBVIOUS
    <3> QED BY <1>31, <3>1 DEF PktFree, BuffersOK
  <2>3. PktOK'
    BY <1>31
       DEF PktFree, PktOK, PktPlaces, TableOK, BuffersOK, AppOK, PktOK
  <2>4. AppOK' /\ ClientOK' /\ WireOK'
    BY <1>31 DEF PktFree, AppOK, ClientOK, WireOK
  <2> QED BY <2>1, <2>2, <2>3, <2>4
<1>32. ASSUME PktOut PROVE TypeOK'
  <2>1. BuffersOK'
    <3>1. \A s \in Streams : s \in Sending => Tail(sndbuf[s]) \in Seq(Segments)
      BY DEF Sending, BuffersOK
    <3> QED BY <1>32, <3>1 DEF PktOut, BuffersOK
  <2>2. WireOK'
    <3>1. ASSUME NEW c \in Clients, \E s \in Sending : peer[s] = c
          PROVE  Head(sndbuf[CHOOSE s \in Sending : peer[s] = c]) \in Segments
      <4> DEFINE s == CHOOSE s \in Sending : peer[s] = c
      <4>1. s \in Streams /\ sndbuf[s] # <<>>
        BY <3>1 DEF Sending, Members, TableOK
      <4> QED BY <4>1, QueueTake DEF BuffersOK
    <3> DEFINE out(c) == Head(sndbuf[CHOOSE s \in Sending : peer[s] = c])
    <3>2. ASSUME NEW c \in Clients, \E s \in Sending : peer[s] = c
          PROVE  Append(to_client[c], out(c)) \in Seq(Segments)
      <4>1. out(c) \in Segments /\ to_client[c] \in Seq(Segments)
        BY <3>1, <3>2 DEF WireOK
      <4> HIDE DEF out
      <4> QED BY <4>1
    <3> QED BY <1>32, <3>2 DEF PktOut, WireOK
  <2>3. TableOK' /\ AppOK' /\ PktOK' /\ ClientOK'
    BY <1>32 DEF PktOut, Sending, TableOK, AppOK, PktOK, ClientOK
  <2> QED BY <2>1, <2>2, <2>3
<1>33. ASSUME NEW c \in Clients, ClientConnect(c) PROVE TypeOK'
  <2>1. ClientOK'
    <3>1. <<>> \in Seq(Nat)
      OBVIOUS
    <3> QED BY <1>33, <3>1 DEF ClientConnect, ClientOK
  <2>2. WireOK'
    <3>1. {"SYN"} \in SUBSET Flags /\ <<>> \in Seq(Nat)
      BY DEF Flags
    <3> QED BY <1>33, <2>1, <3>1, TransmitType DEF ClientConnect, WireOK
  <2>3. TableOK' /\ BuffersOK' /\ AppOK' /\ PktOK'
    BY <1>33 DEF ClientConnect, Transmit, TableOK, BuffersOK, AppOK, PktOK
  <2> QED BY <2>1, <2>2, <2>3
<1>34. ASSUME NEW c \in Clients, ClientSend(c) PROVE TypeOK'
  <2>1. PICK n \in 1 .. MaxSeg, push \in BOOLEAN :
           /\ csent[c] + n <= MaxUnits - (IF push THEN 0 ELSE 1)
           /\ csent' = [csent EXCEPT ![c] = @ + n]
           /\ cmore' = [cmore EXCEPT ![c] = ~push]
           /\ UNCHANGED <<cst, crcv, cgot, conns>>
           /\ Transmit(c, IF push THEN {"ACK", "PSH"} ELSE {"ACK"}, csent[c] + 1,
                       [i \in 1 .. n |-> csent[c] + i])
    BY <1>34 DEF ClientSend
  <2>2. ClientOK'
    <3>1. csent' \in [Clients -> 0 .. MaxUnits]
      <4>1. csent[c] + n <= MaxUnits
        BY <2>1, UstackAssumption DEF ClientOK
      <4> QED BY <2>1, <4>1 DEF ClientOK
    <3> QED BY <2>1, <3>1 DEF ClientOK
  <2>3. WireOK'
    <3> DEFINE flags == IF push THEN {"ACK", "PSH"} ELSE {"ACK"}
               data == [i \in 1 .. n |-> csent[c] + i]
    <3>1. flags \in SUBSET Flags /\ csent[c] + 1 \in Nat /\ data \in Seq(Nat)
      BY DEF Flags, ClientOK
    <3>2. Transmit(c, flags, csent[c] + 1, data)
      BY <2>1
    <3> HIDE DEF flags, data
    <3> QED BY <1>34, <2>2, <3>1, <3>2, TransmitType DEF ClientSend, WireOK
  <2>4. TableOK' /\ BuffersOK' /\ AppOK' /\ PktOK'
    BY <1>34 DEF ClientSend, Transmit, TableOK, BuffersOK, AppOK, PktOK
  <2> QED BY <2>2, <2>3, <2>4
<1>35. ASSUME NEW c \in Clients, ClientClose(c) PROVE TypeOK'
  <2>1. ClientOK'
    BY <1>35, SegmentType
       DEF ClientClose, Transmit, ClientOK, WireOK, TableOK, BuffersOK, AppOK, PktOK
  <2>2. WireOK'
    <3>1. {"ACK", "FIN"} \in SUBSET Flags /\ csent[c] + 1 \in Nat /\ <<>> \in Seq(Nat)
      BY DEF Flags, ClientOK
    <3> QED BY <1>35, <2>1, <3>1, TransmitType DEF ClientClose, WireOK
  <2>3. TableOK' /\ BuffersOK' /\ AppOK' /\ PktOK'
    BY <1>35 DEF ClientClose, Transmit, TableOK, BuffersOK, AppOK, PktOK
  <2> QED BY <2>1, <2>2, <2>3
<1>36. ASSUME NEW c \in Clients, ClientRecv(c) PROVE TypeOK'
  <2>1. ClientOK'
    <3>1. /\ Head(to_client[c]) \in Segments
          /\ Head(to_client[c]).seq \in Nat /\ Head(to_client[c]).data \in Seq(Nat)
      <4>1. to_client[c] # <<>> /\ to_client \in [Clients -> Seq(Segments)]
        BY <1>36 DEF ClientRecv, WireOK
      <4>2. Head(to_client[c]) \in Segments
        BY <4>1, QueueTake
      <4> QED BY <4>2 DEF Segments
    <3> DEFINE seg == Head(to_client[c])
               past == crcv[c] - seg.seq
               new == IF past \in 0 .. Len(seg.data)
                        THEN SubSeq(seg.data, past + 1, Len(seg.data)) ELSE <<>>
               fin == "FIN" \in seg.flags /\ past = Len(seg.data)
    <3>2. new \in Seq(Nat)
      <4>1. past \in Int /\ <<>> \in Seq(Nat)
        BY <3>1 DEF ClientOK
      <4>2. past \in 0 .. Len(seg.data) =>
              SubSeq(seg.data, past + 1, Len(seg.data)) \in Seq(Nat)
        <5> HIDE DEF past
        <5>1. past \in 0 .. Len(seg.data) => past + 1 \in Nat \ {0}
          BY <4>1
        <5> QED BY <3>1, <5>1, RestType
      <4>3. CASE past \in 0 .. Len(seg.data)
        BY <4>2, <4>3
      <4>4. CASE past \notin 0 .. Len(seg.data)
        BY <4>1, <4>4
      <4> QED BY <4>3, <4>4
    <3>3. \/ /\ cst' = [cst EXCEPT ![c] = "estab"]
             /\ crcv' = [crcv EXCEPT ![c] = seg.seq + 1]
             /\ UNCHANGED <<csent, cgot, conns, cmore>>
          \/ /\ cst' = [cst EXCEPT ![c] = IF fin THEN "closed" ELSE @]
             /\ crcv' = [crcv EXCEPT ![c] = @ + Len(new) + IF fin THEN 1 ELSE 0]
             /\ cgot' = [cgot EXCEPT ![c] = @ \o new]
             /\ UNCHANGED <<csent, conns, cmore>>
          \/ UNCHANGED <<cst, csent, crcv, cgot, conns, cmore>>
      BY <1>36 DEF ClientRecv
    <3> HIDE DEF seg, new, fin
    <3>4. /\ seg.seq + 1 \in Nat /\ cgot[c] \o new \in Seq(Nat)
          /\ crcv[c] + Len(new) + (IF fin THEN 1 ELSE 0) \in Nat
      <4>1. Len(new) \in Nat /\ cgot[c] \in Seq(Nat) /\ crcv[c] \in Nat
        BY <3>2 DEF ClientOK
      <4> QED BY <3>1, <3>2, <4>1 DEF seg
    <3>5. cst' \in [Clients -> {"closed", "syn_sent", "estab", "fin_wait"}]
      BY <3>3 DEF ClientOK
    <3>6. crcv' \in [Clients -> Nat]
      BY <3>3, <3>4 DEF ClientOK
    <3>7. cgot' \in [Clients -> Seq(Nat)]
      BY <3>3, <3>4 DEF ClientOK
    <3> QED BY <3>3, <3>5, <3>6, <3>7 DEF ClientOK
  <2>2. WireOK'
    <3>1. to_client' \in [Clients -> Seq(Segments)]
      BY <1>36, QueueTake DEF ClientRecv, WireOK
    <3>2. /\ {"ACK"} \in SUBSET Flags /\ <<>> \in Seq(Nat)
          /\ csent[c] + (IF cst[c] = "estab" THEN 1 ELSE 2) \in Nat
      BY DEF Flags, ClientOK
    <3>3. \/ Transmit(c, {"ACK"}, 1, <<>>)
          \/ Transmit(c, {"ACK"}, csent[c] + (IF cst[c] = "estab" THEN 1 ELSE 2), <<>>)
          \/ UNCHANGED to_stack
      BY <1>36 DEF ClientRecv
    <3>4. to_stack' \in [Clients -> Seq(Segments)]
      BY <2>1, <3>2, <3>3, TransmitType DEF WireOK
    <3> QED BY <1>36, <3>1, <3>4 DEF ClientRecv, WireOK
  <2>3. TableOK' /\ BuffersOK' /\ AppOK' /\ PktOK'
    BY <1>36 DEF ClientRecv, Transmit, TableOK, BuffersOK, AppOK, PktOK
  <2> QED BY <2>1, <2>2, <2>3
<1>37. ASSUME NEW c \in Clients, WireLose(c) PROVE TypeOK'
  <2>1. WireOK'
    <3>1. to_stack[c] # <<>> => [to_stack EXCEPT ![c] = Tail(@)] \in [Clients -> Seq(Segments)]
      BY QueueTake DEF WireOK
    <3>2. to_client[c] # <<>> => [to_client EXCEPT ![c] = Tail(@)] \in [Clients -> Seq(Segments)]
      BY QueueTake DEF WireOK
    <3>3. /\ to_stack' \in [Clients -> Seq(Segments)]
          /\ to_client' \in [Clients -> Seq(Segments)]
      BY <1>37, <3>1, <3>2 DEF WireLose, WireOK
    <3>4. faults' \in 0 .. MaxFaults
      BY <1>37 DEF WireLose, WireOK
    <3> QED BY <3>3, <3>4 DEF WireOK
  <2>2. TableOK' /\ BuffersOK' /\ AppOK' /\ PktOK' /\ ClientOK'
    BY <1>37 DEF WireLose, TableOK, BuffersOK, AppOK, PktOK, ClientOK
  <2> QED BY <2>1, <2>2
<1>38. ASSUME NEW c \in Clients, WireDuplicate(c) PROVE TypeOK'
  <2>1. WireOK'
    <3>1. Head(to_stack[c]) \in Segments
      BY <1>38, QueueTake DEF WireDuplicate, WireOK
    <3>2. [to_stack EXCEPT ![c] = Append(@, Head(to_stack[c]))] \in [Clients -> Seq(Segments)]
      BY <3>1, QueueAppend DEF WireOK
    <3> QED BY <1>38, <3>2 DEF WireDuplicate, WireOK
  <2>2. TableOK' /\ BuffersOK' /\ AppOK' /\ PktOK' /\ ClientOK'
    BY <1>38 DEF WireDuplicate, TableOK, BuffersOK, AppOK, PktOK, ClientOK
  <2> QED BY <2>1, <2>2
<1>39. ASSUME UNCHANGED vars PROVE TypeOK'
  BY <1>39 DEF vars, TableOK, BuffersOK, AppOK, PktOK, ClientOK, WireOK
<1> QED BY <1>1, <1>2, <1>3, <1>4, <1>5, <1>6, <1>7, <1>8, <1>9, <1>10, <1>11, <1>12,
           <1>13, <1>14, <1>15, <1>16, <1>17, <1>18, <1>19, <1>20, <1>21, <1>22,
           <1>23, <1>24, <1>25, <1>26, <1>27, <1>28, <1>29, <1>30, <1>31, <1>32,
           <1>33, <1>34, <1>35, <1>36, <1>37, <1>38, <1>39, <1>40
           DEF Next, App, PktContinue, PktRecv, Client

\* A stream the application holds is not the listener's.
LEMMA StepPlaceInv == IInv /\ [Next]_vars => PlaceInv'
<1> SUFFICES ASSUME IInv, [Next]_vars PROVE PlaceInv'
  OBVIOUS
<1> USE UstackAssumption
    DEF IInv, TypeOK, tableVars, seqVars, bufVars, callVars, cursorVars,
        hostVars, localVars, appVars, pktVars, clientVars, wireVars, envVars, stackVars
<1>1. ASSUME NEW f \in Fds \cup {ListenFd}, AppEvent(f) PROVE PlaceInv'
  BY <1>1
     DEF AppEvent, Call, PlaceInv, Holding, Transfer, TableOK, AppOK, TableInv,
         PktInv
<1>2. ASSUME AppFindNext PROVE PlaceInv'
  BY <1>2
     DEF AppFindNext, Advance, PlaceInv, Holding, Transfer, TableOK, AppOK, TableInv,
         PktInv
<1>3. ASSUME AppFound PROVE PlaceInv'
  BY <1>3
     DEF AppFound, PlaceInv, Holding, Transfer, TableOK, AppOK, TableInv, PktInv
<1>4. ASSUME AppNotFound PROVE PlaceInv'
  BY <1>4
     DEF AppNotFound, PlaceInv, Holding, Transfer, TableOK, AppOK, TableInv, PktInv
<1>5. ASSUME AcceptLock PROVE PlaceInv'
  BY <1>5
     DEF AcceptLock, Live, PlaceInv, Holding, Transfer, TableOK, AppOK, TableInv,
         PktInv
<1>6. ASSUME AcceptScan PROVE PlaceInv'
  BY <1>6
     DEF AcceptScan, Advance, PlaceInv, Holding, Transfer, TableOK, AppOK, TableInv,
         PktInv
<1>7. ASSUME AcceptAssign PROVE PlaceInv'
  BY <1>7, LowestFdFree
     DEF AcceptAssign, Live, PlaceInv, Holding, Transfer, TableOK, AppOK, TableInv,
         PktInv
<1>8. ASSUME RecvLock PROVE PlaceInv'
  BY <1>8
     DEF RecvLock, Live, PlaceInv, Holding, Transfer, TableOK, AppOK, TableInv,
         PktInv
<1>9. ASSUME RecvEmpty PROVE PlaceInv'
  BY <1>9
     DEF RecvEmpty, PlaceInv, Holding, Transfer, TableOK, AppOK, TableInv, PktInv
<1>10. ASSUME RecvWait PROVE PlaceInv'
  BY <1>10
     DEF RecvWait, PlaceInv, Holding, Transfer, TableOK, AppOK, TableInv, PktInv
<1>11. ASSUME RecvTake PROVE PlaceInv'
  BY <1>11
     DEF RecvTake, PlaceInv, Holding, Transfer, TableOK, AppOK, TableInv, PktInv
<1>12. ASSUME RecvRequeue PROVE PlaceInv'
  BY <1>12
     DEF RecvRequeue, Live, PlaceInv, Holding, Transfer, TableOK, AppOK, TableInv,
         PktInv
<1>13. ASSUME RecvDone PROVE PlaceInv'
  BY <1>13
     DEF RecvDone, Call, PlaceInv, Holding, Transfer, TableOK, AppOK, TableInv,
         PktInv
<1>14. ASSUME SendBuild PROVE PlaceInv'
  BY <1>14
     DEF SendBuild, Live, PlaceInv, Holding, Transfer, TableOK, AppOK, TableInv,
         PktInv
<1>15. ASSUME SendEnqueue PROVE PlaceInv'
  BY <1>15
     DEF SendEnqueue, Enqueue, Live, PlaceInv, Holding, Transfer, TableOK, AppOK, TableInv,
         PktInv
<1>16. ASSUME CloseFin PROVE PlaceInv'
  BY <1>16
     DEF CloseFin, Live, Enqueue, PlaceInv, Holding, Transfer, TableOK, AppOK, TableInv,
         PktInv
<1>40. ASSUME CloseBuild PROVE PlaceInv'
  BY <1>40
     DEF CloseBuild, Live, PlaceInv, Holding, Transfer, TableOK, AppOK, TableInv,
         PktInv
<1>17. ASSUME CloseStatus PROVE PlaceInv'
  BY <1>17
     DEF CloseStatus, Live, PlaceInv, Holding, Transfer, TableOK, AppOK, TableInv,
         PktInv
<1>18. ASSUME CloseFd PROVE PlaceInv'
  BY <1>18
     DEF CloseFd, PlaceInv, Holding, Transfer, TableOK, AppOK, TableInv, PktInv
<1>19. ASSUME NEW c \in Clients, NEW s \in Streams \cup {NULL}, PktListen(c, s)
       PROVE  PlaceInv'
  BY <1>19
     DEF PktListen, Process, PlaceInv, Holding, Transfer, TableOK, AppOK, TableInv,
         PktInv
<1>20. ASSUME PktSynAck PROVE PlaceInv'
  BY <1>20
     DEF PktSynAck, PlaceInv, Holding, Transfer, TableOK, AppOK, TableInv, PktInv
<1>21. ASSUME NEW c \in Clients, NEW s \in Streams \cup {NULL}, PktSynRcvd(c, s)
       PROVE  PlaceInv'
  BY <1>21
     DEF PktSynRcvd, Process, PlaceInv, Holding, Transfer, TableOK, AppOK, TableInv,
         PktInv
<1>22. ASSUME PktAccept PROVE PlaceInv'
  BY <1>22
     DEF PktAccept, Signal, Woken, PlaceInv, Holding, Transfer, TableOK, AppOK,
         TableInv, PktInv
<1>23. ASSUME PktFin PROVE PlaceInv'
  BY <1>23
     DEF PktFin, PlaceInv, Holding, Transfer, TableOK, AppOK, TableInv, PktInv
<1>24. ASSUME PktSignal PROVE PlaceInv'
  BY <1>24
     DEF PktSignal, Signal, Woken, PlaceInv, Holding, Transfer, TableOK, AppOK,
         TableInv, PktInv
<1>25. ASSUME NEW c \in Clients, NEW s \in Streams \cup {NULL}, PktLastAck(c, s)
       PROVE  PlaceInv'
  BY <1>25
     DEF PktLastAck, Process, PlaceInv, Holding, Transfer, TableOK, AppOK, TableInv,
         PktInv
<1>26. ASSUME PktFree PROVE PlaceInv'
  BY <1>26
     DEF PktFree, PlaceInv, Holding, Transfer, TableOK, AppOK, TableInv, PktInv
<1>27. ASSUME NEW c \in Clients, NEW s \in Streams \cup {NULL}, PktIgnore(c, s)
       PROVE  PlaceInv'
  BY <1>27 DEF PktIgnore, Process, PlaceInv
<1>28. ASSUME NEW c \in Clients, NEW s \in Streams \cup {NULL}, PktEstablished(c, s)
       PROVE  PlaceInv'
  BY <1>28 DEF PktEstablished, Process, PlaceInv
<1>29. ASSUME PktEnqueue PROVE PlaceInv'
  BY <1>29 DEF PktEnqueue, PlaceInv
<1>30. ASSUME PktCount PROVE PlaceInv'
  BY <1>30 DEF PktCount, PlaceInv
<1>31. ASSUME PktAck PROVE PlaceInv'
  BY <1>31 DEF PktAck, Enqueue, PlaceInv
<1>32. ASSUME PktOut PROVE PlaceInv'
  BY <1>32 DEF PktOut, Sending, PlaceInv
<1>33. ASSUME NEW c \in Clients, ClientConnect(c) PROVE PlaceInv'
  BY <1>33 DEF ClientConnect, Transmit, PlaceInv
<1>34. ASSUME NEW c \in Clients, ClientSend(c) PROVE PlaceInv'
  BY <1>34 DEF ClientSend, Transmit, PlaceInv
<1>35. ASSUME NEW c \in Clients, ClientClose(c) PROVE PlaceInv'
  BY <1>35 DEF ClientClose, Transmit, PlaceInv
<1>36. ASSUME NEW c \in Clients, ClientRecv(c) PROVE PlaceInv'
  BY <1>36 DEF ClientRecv, Transmit, PlaceInv
<1>37. ASSUME NEW c \in Clients, WireLose(c) PROVE PlaceInv'
  BY <1>37 DEF WireLose, PlaceInv
<1>38. ASSUME NEW c \in Clients, WireDuplicate(c) PROVE PlaceInv'
  BY <1>38 DEF WireDuplicate, PlaceInv
<1>39. ASSUME UNCHANGED vars PROVE PlaceInv'
  BY <1>39 DEF vars, PlaceInv
<1> QED BY <1>1, <1>2, <1>3, <1>4, <1>5, <1>6, <1>7, <1>8, <1>9, <1>10, <1>11, <1>12,
           <1>13, <1>14, <1>15, <1>16, <1>17, <1>18, <1>19, <1>20, <1>21, <1>22,
           <1>23, <1>24, <1>25, <1>26, <1>27, <1>28, <1>29, <1>30, <1>31, <1>32,
           <1>33, <1>34, <1>35, <1>36, <1>37, <1>38, <1>39, <1>40
           DEF Next, App, PktContinue, PktRecv, Client

\* The table keeps each stream once, and one for a peer.
LEMMA StepTableInv == IInv /\ [Next]_vars => PktInv' /\ TableInv'
<1> SUFFICES ASSUME IInv, [Next]_vars PROVE PktInv' /\ TableInv'
  OBVIOUS
<1> USE UstackAssumption
    DEF IInv, TypeOK, tableVars, seqVars, bufVars, callVars, cursorVars,
        hostVars, localVars, appVars, pktVars, clientVars, wireVars, envVars, stackVars
<1>1. ASSUME AcceptAssign PROVE PktInv' /\ TableInv'
  BY <1>1
     DEF AcceptAssign, Live, TableInv, PktInv, Table, TableOK, PktOK, PlaceInv,
         Transfer, AppOK, PktPlaces
<1>2. ASSUME CloseStatus PROVE PktInv' /\ TableInv'
  BY <1>2
     DEF CloseStatus, Live, TableInv, PktInv, Table, TableOK, PktOK, PlaceInv,
         Transfer, AppOK, PktPlaces
<1>3. ASSUME CloseFd PROVE PktInv' /\ TableInv'
  BY <1>3
     DEF CloseFd, TableInv, PktInv, Table, TableOK, PktOK, PlaceInv, Transfer, AppOK,
         PktPlaces
<1>4. ASSUME NEW c \in Clients, NEW s \in Streams \cup {NULL}, PktIgnore(c, s)
      PROVE  PktInv' /\ TableInv'
  BY <1>4
     DEF PktIgnore, Process, TableInv, PktInv, Table, TableOK, PktOK, PlaceInv,
         Transfer, AppOK, PktPlaces, Ignored
<1>5. ASSUME NEW c \in Clients, NEW s \in Streams \cup {NULL}, PktListen(c, s)
      PROVE  PktInv' /\ TableInv'
  <2>1. /\ ppc = "idle" /\ s = Search(c) /\ s # NULL /\ status[s] = "LISTEN"
        /\ ppc' = "synack"
    BY <1>5 DEF PktListen, Process, Ignored
  <2>2. PICK syn \in Streams :
          /\ status[syn] = "FREE" /\ tcb_set' = Insert(syn, tcb_set)
          /\ status' = [status EXCEPT ![syn] = "LISTEN"]
          /\ fd' = [fd EXCEPT ![syn] = -1] /\ peer' = [peer EXCEPT ![syn] = c]
          /\ pstream' = syn
    BY <1>5 DEF PktListen
  <2>3. s = Listener /\ peer[s] # c
    BY <2>1 DEF TableInv
  <2>4. \A t \in Table : peer[t] # c
    BY <2>1, <2>3, SearchFinds DEF TableOK
  <2>5. syn \notin Table /\ syn # Listener
    BY <2>2 DEF TableInv
  <2>6. Table' = Table \cup {syn} /\ Distinct(tcb_set')
    BY <2>2, <2>5, InsertItems, InsertDistinct DEF Table, TableOK, TableInv
  <2>7. PktInv'
    BY <2>1, <2>2, <2>5, <2>6 DEF PktInv
  <2>8. TableInv'
    <3>1. Listener \in Table' /\ status'[Listener] = "LISTEN" /\ peer'[Listener] = NULL
      BY <2>2, <2>5, <2>6 DEF TableInv, TableOK
    <3>2. \A t \in Streams :
             t \in Table' <=> status'[t] # "FREE" /\ ~(ppc' = "free" /\ pstream' = t)
      BY <2>1, <2>2, <2>6 DEF TableInv, TableOK
    <3>3. \A t \in Table' \ {Listener} : peer'[t] \in Clients
      BY <2>2, <2>6 DEF TableInv, TableOK
    <3>4. \A t, u \in Table' : peer'[t] = peer'[u] => t = u
      BY <2>2, <2>4, <2>6 DEF TableInv, TableOK
    <3>5. \A t \in Streams :
             /\ status'[t] # "CLOSED"
             /\ status'[t] = "LISTEN" => t = Listener \/ (ppc' = "synack" /\ pstream' = t)
      BY <2>1, <2>2 DEF TableInv, TableOK
    <3> QED BY <2>6, <3>1, <3>2, <3>3, <3>4, <3>5 DEF TableInv
  <2> QED BY <2>7, <2>8
<1>6. ASSUME PktSynAck PROVE PktInv' /\ TableInv'
  BY <1>6
     DEF PktSynAck, TableInv, PktInv, Table, TableOK, PktOK, PlaceInv, Transfer,
         AppOK, PktPlaces
<1>7. ASSUME NEW c \in Clients, NEW s \in Streams \cup {NULL}, PktSynRcvd(c, s)
      PROVE  PktInv' /\ TableInv'
  BY <1>7, SearchFinds
     DEF PktSynRcvd, Process, TableInv, PktInv, Table, TableOK, PktOK, PlaceInv,
         Transfer, AppOK, PktPlaces, Ignored
<1>8. ASSUME PktAccept PROVE PktInv' /\ TableInv'
  BY <1>8
     DEF PktAccept, Signal, Woken, TableInv, PktInv, Table, TableOK, PktOK, PlaceInv,
         Transfer, AppOK, PktPlaces
<1>9. ASSUME NEW c \in Clients, NEW s \in Streams \cup {NULL}, PktEstablished(c, s)
      PROVE  PktInv' /\ TableInv'
  BY <1>9, SearchFinds
     DEF PktEstablished, Process, TableInv, PktInv, Table, TableOK, PktOK, PlaceInv,
         Transfer, AppOK, PktPlaces, Ignored
<1>10. ASSUME PktFin PROVE PktInv' /\ TableInv'
  BY <1>10
     DEF PktFin, TableInv, PktInv, Table, TableOK, PktOK, PlaceInv, Transfer, AppOK,
         PktPlaces
<1>11. ASSUME PktEnqueue PROVE PktInv' /\ TableInv'
  BY <1>11
     DEF PktEnqueue, TableInv, PktInv, Table, TableOK, PktOK, PlaceInv, Transfer,
         AppOK, PktPlaces
<1>12. ASSUME PktSignal PROVE PktInv' /\ TableInv'
  BY <1>12
     DEF PktSignal, Signal, Woken, TableInv, PktInv, Table, TableOK, PktOK, PlaceInv,
         Transfer, AppOK, PktPlaces
<1>13. ASSUME PktCount PROVE PktInv' /\ TableInv'
  BY <1>13
     DEF PktCount, TableInv, PktInv, Table, TableOK, PktOK, PlaceInv, Transfer,
         AppOK, PktPlaces
<1>14. ASSUME PktAck PROVE PktInv' /\ TableInv'
  BY <1>14
     DEF PktAck, Enqueue, TableInv, PktInv, Table, TableOK, PktOK, PlaceInv, Transfer,
         AppOK, PktPlaces
<1>15. ASSUME NEW c \in Clients, NEW s \in Streams \cup {NULL}, PktLastAck(c, s)
       PROVE  PktInv' /\ TableInv'
  <2>1. /\ ppc = "idle" /\ s = Search(c) /\ s \in Streams /\ status[s] = "LAST_ACK"
        /\ status' = [status EXCEPT ![s] = "CLOSED"] /\ tcb_set' = Delete(s, tcb_set)
        /\ pstream' = s /\ ppc' = "free" /\ UNCHANGED peer
    BY <1>15 DEF PktLastAck, Process, Ignored
  <2>2. s \in Table /\ s # Listener
    BY <2>1 DEF TableInv
  <2>3. Table' = Table \ {s} /\ Distinct(tcb_set')
    BY <2>1, DeleteMembers DEF Table, TableOK, TableInv
  <2>4. PktInv'
    BY <2>1, <2>2 DEF PktInv
  <2>5. TableInv'
    <3>1. Listener \in Table' /\ status'[Listener] = "LISTEN" /\ peer'[Listener] = NULL
      BY <2>1, <2>2, <2>3 DEF TableInv, TableOK
    <3>2. \A t \in Streams :
             t \in Table' <=> status'[t] # "FREE" /\ ~(ppc' = "free" /\ pstream' = t)
      BY <2>1, <2>3 DEF TableInv, TableOK
    <3>3. /\ \A t \in Table' \ {Listener} : peer'[t] \in Clients
          /\ \A t, u \in Table' : peer'[t] = peer'[u] => t = u
      BY <2>1, <2>3 DEF TableInv
    <3>4. \A t \in Streams :
             /\ status'[t] = "CLOSED" => ppc' = "free" /\ pstream' = t
             /\ status'[t] = "LISTEN" => t = Listener
      BY <2>1 DEF TableInv, TableOK
    <3> QED BY <2>3, <3>1, <3>2, <3>3, <3>4 DEF TableInv
  <2> QED BY <2>4, <2>5
<1>16. ASSUME PktFree PROVE PktInv' /\ TableInv'
  BY <1>16
     DEF PktFree, TableInv, PktInv, Table, TableOK, PktOK, PlaceInv, Transfer, AppOK,
         PktPlaces
<1>17. ASSUME NEW f \in Fds \cup {ListenFd}, AppEvent(f) PROVE PktInv' /\ TableInv'
  BY <1>17 DEF AppEvent, Call, TableInv, PktInv, Table
<1>18. ASSUME AppFindNext PROVE PktInv' /\ TableInv'
  BY <1>18 DEF AppFindNext, Advance, TableInv, PktInv, Table
<1>19. ASSUME AppFound PROVE PktInv' /\ TableInv'
  BY <1>19 DEF AppFound, TableInv, PktInv, Table
<1>20. ASSUME AppNotFound PROVE PktInv' /\ TableInv'
  BY <1>20 DEF AppNotFound, TableInv, PktInv, Table
<1>21. ASSUME AcceptLock PROVE PktInv' /\ TableInv'
  BY <1>21 DEF AcceptLock, Live, TableInv, PktInv, Table
<1>22. ASSUME AcceptScan PROVE PktInv' /\ TableInv'
  BY <1>22 DEF AcceptScan, Advance, TableInv, PktInv, Table
<1>23. ASSUME RecvLock PROVE PktInv' /\ TableInv'
  BY <1>23 DEF RecvLock, Live, TableInv, PktInv, Table
<1>24. ASSUME RecvEmpty PROVE PktInv' /\ TableInv'
  BY <1>24 DEF RecvEmpty, TableInv, PktInv, Table
<1>25. ASSUME RecvWait PROVE PktInv' /\ TableInv'
  BY <1>25 DEF RecvWait, TableInv, PktInv, Table
<1>26. ASSUME RecvTake PROVE PktInv' /\ TableInv'
  BY <1>26 DEF RecvTake, TableInv, PktInv, Table
<1>27. ASSUME RecvRequeue PROVE PktInv' /\ TableInv'
  BY <1>27 DEF RecvRequeue, Live, TableInv, PktInv, Table
<1>28. ASSUME RecvDone PROVE PktInv' /\ TableInv'
  BY <1>28 DEF RecvDone, Call, TableInv, PktInv, Table
<1>29. ASSUME SendBuild PROVE PktInv' /\ TableInv'
  BY <1>29 DEF SendBuild, Live, TableInv, PktInv, Table
<1>30. ASSUME SendEnqueue PROVE PktInv' /\ TableInv'
  BY <1>30 DEF SendEnqueue, Enqueue, Live, TableInv, PktInv, Table
<1>31. ASSUME CloseFin PROVE PktInv' /\ TableInv'
  BY <1>31 DEF CloseFin, Live, Enqueue, TableInv, PktInv, Table
<1>40. ASSUME CloseBuild PROVE PktInv' /\ TableInv'
  BY <1>40 DEF CloseBuild, Live, TableInv, PktInv, Table
<1>32. ASSUME PktOut PROVE PktInv' /\ TableInv'
  BY <1>32 DEF PktOut, Sending, TableInv, PktInv, Table
<1>33. ASSUME NEW c \in Clients, ClientConnect(c) PROVE PktInv' /\ TableInv'
  BY <1>33 DEF ClientConnect, Transmit, TableInv, PktInv, Table
<1>34. ASSUME NEW c \in Clients, ClientSend(c) PROVE PktInv' /\ TableInv'
  BY <1>34 DEF ClientSend, Transmit, TableInv, PktInv, Table
<1>35. ASSUME NEW c \in Clients, ClientClose(c) PROVE PktInv' /\ TableInv'
  BY <1>35 DEF ClientClose, Transmit, TableInv, PktInv, Table
<1>36. ASSUME NEW c \in Clients, ClientRecv(c) PROVE PktInv' /\ TableInv'
  BY <1>36 DEF ClientRecv, Transmit, TableInv, PktInv, Table
<1>37. ASSUME NEW c \in Clients, WireLose(c) PROVE PktInv' /\ TableInv'
  BY <1>37 DEF WireLose, TableInv, PktInv, Table
<1>38. ASSUME NEW c \in Clients, WireDuplicate(c) PROVE PktInv' /\ TableInv'
  BY <1>38 DEF WireDuplicate, TableInv, PktInv, Table
<1>39. ASSUME UNCHANGED vars PROVE PktInv' /\ TableInv'
  BY <1>39 DEF vars, TableInv, PktInv, Table
<1> QED BY <1>1, <1>2, <1>3, <1>4, <1>5, <1>6, <1>7, <1>8, <1>9, <1>10, <1>11, <1>12,
           <1>13, <1>14, <1>15, <1>16, <1>17, <1>18, <1>19, <1>20, <1>21, <1>22,
           <1>23, <1>24, <1>25, <1>26, <1>27, <1>28, <1>29, <1>30, <1>31, <1>32,
           <1>33, <1>34, <1>35, <1>36, <1>37, <1>38, <1>39, <1>40
           DEF Next, App, PktContinue, PktRecv, Client

\* Every step keeps the inductive invariant.
LEMMA StepIInv == IInv /\ [Next]_vars => IInv'
BY StepTypeOK, StepPlaceInv, StepTableInv DEF IInv

\* The inductive invariant holds in every behaviour.
LEMMA Invariant == Spec => []IInv
BY InitIInv, StepIInv, PTL DEF Spec

\* Types of the stack's state, for any number of clients and streams.
THEOREM TypeCorrect == Spec => []TypeOK
<1>1. IInv => TypeOK
  BY DEF IInv
<1> QED BY <1>1, Invariant, PTL

\* However SYNs are lost, repeated and reordered, the table never holds two
\* streams of a peer, nor a stream that was closed or given back.
THEOREM StreamPerPeer == Spec => []OneStreamPerPeer
<1>1. ASSUME IInv PROVE OneStreamPerPeer
  <2>1. Table \subseteq Streams
    BY <1>1 DEF IInv, TypeOK, TableOK, Table, Members
  <2>2. \A s \in Table : status[s] \notin {"FREE", "CLOSED"}
    BY <1>1, <2>1 DEF IInv, TableInv
  <2>3. \A s, t \in Table : peer[s] = peer[t] => s = t
    BY <1>1 DEF IInv, TableInv
  <2> QED BY <2>2, <2>3 DEF OneStreamPerPeer
<1> QED BY <1>1, Invariant, PTL
\* What the packet lcore sends, the clients and the wire leave as it is.
LEMMA OutsideStep ==
    ASSUME \/ PktOut \/ UNCHANGED vars
           \/ \E c \in Clients : Client(c) \/ WireLose(c) \/ WireDuplicate(c)
    PROVE  UNCHANGED <<tableVars, rcvbuf, taken, appVars, pktVars>>
<1> USE DEF stackVars, bufVars
<1>1. CASE PktOut \/ UNCHANGED vars
  BY <1>1 DEF PktOut, vars
<1>2. ASSUME NEW c \in Clients, Client(c) PROVE UNCHANGED stackVars
  BY <1>2 DEF Client, ClientConnect, ClientSend, ClientClose, ClientRecv
<1>3. ASSUME NEW c \in Clients, WireLose(c) \/ WireDuplicate(c) PROVE UNCHANGED stackVars
  BY <1>3 DEF WireLose, WireDuplicate
<1> QED BY <1>1, <1>2, <1>3

-----------------------------------------------------------------------------
\* From the test of the ring to the end of the wait, a payload in the ring is one
\* the packet lcore has yet to signal.
RecvInv ==
    apc \in {"recv-sleep", "recv-wait"} /\ rcvbuf[ahost] # <<>> =>
        pstream = ahost /\ ppc \in {"signal", "fin-signal"}

\* The packet lcore cannot signal between the test and the wait: it needs the mutex.
LEMMA StepRecvInv == IInv /\ RecvInv /\ [Next]_vars => RecvInv'
<1> SUFFICES ASSUME IInv, RecvInv, [Next]_vars PROVE RecvInv'
  OBVIOUS
<1> USE DEF IInv, TypeOK, RecvInv, tableVars, seqVars, bufVars, callVars, cursorVars,
        hostVars, localVars, appVars, pktVars, clientVars, wireVars, envVars, stackVars
<1>1. ASSUME \/ \E f \in Fds \cup {ListenFd} : AppEvent(f)
             \/ AppFindNext \/ AppFound \/ AppNotFound
             \/ AcceptLock \/ AcceptScan \/ AcceptAssign
      PROVE  apc' \notin {"recv-sleep", "recv-wait"}
  <2>1. CASE AppFound
    BY <2>1 DEF AppFound, AppOK
  <2>2. CASE AppFindNext \/ AppNotFound \/ \E f \in Fds \cup {ListenFd} : AppEvent(f)
    BY <2>2 DEF AppFindNext, AppNotFound, AppEvent, Call, Advance
  <2>3. CASE AcceptLock \/ AcceptScan \/ AcceptAssign
    BY <2>3 DEF AcceptLock, AcceptScan, AcceptAssign, Advance
  <2> QED BY <1>1, <2>1, <2>2, <2>3
<1>2. ASSUME \/ RecvLock \/ RecvTake \/ RecvRequeue \/ RecvDone \/ SendBuild
             \/ SendEnqueue \/ CloseBuild \/ CloseFin \/ CloseStatus \/ CloseFd
      PROVE  apc' \notin {"recv-sleep", "recv-wait"}
  BY <1>2 DEF RecvLock, RecvTake, RecvRequeue, RecvDone, SendBuild, SendEnqueue,
              CloseBuild, CloseFin, CloseStatus, CloseFd, Call
<1>3. ASSUME RecvEmpty \/ RecvWait PROVE RecvInv'
  BY <1>3 DEF RecvEmpty, RecvWait
<1>4. ASSUME NEW c \in Clients, PktRecv(c) PROVE RecvInv'
  BY <1>4 DEF PktRecv, PktIgnore, PktListen, PktSynRcvd, PktEstablished, PktLastAck,
              Process
<1>5. ASSUME PktSynAck \/ PktFin \/ PktCount \/ PktAck PROVE RecvInv'
  BY <1>5 DEF PktSynAck, PktFin, PktCount, PktAck, Enqueue
<1>6. ASSUME PktAccept PROVE RecvInv'
  BY <1>6 DEF PktAccept, Signal, Woken
<1>7. ASSUME PktEnqueue PROVE RecvInv'
  BY <1>7 DEF PktEnqueue, BuffersOK, PktInv
<1>8. ASSUME PktSignal PROVE RecvInv'
  BY <1>8 DEF PktSignal, Signal, Woken, AppHolds
<1>9. ASSUME PktFree PROVE RecvInv'
  BY <1>9 DEF PktFree, BuffersOK
<1>10. ASSUME \/ PktOut \/ UNCHANGED vars
              \/ \E c \in Clients : Client(c) \/ WireLose(c) \/ WireDuplicate(c)
       PROVE  RecvInv'
  BY <1>10, OutsideStep
<1> QED BY <1>1, <1>2, <1>3, <1>4, <1>5, <1>6, <1>7, <1>8, <1>9, <1>10
           DEF Next, App, PktContinue

\* nrecv never sleeps on a payload: the ring is filled outside the mutex, but the
\* signal is sent under it.
THEOREM WakeUpIsNotMissed == Spec => []RecvNotMissed
<1>1. Init => RecvInv
  BY DEF Init, RecvInv
<1>2. RecvInv => RecvNotMissed
  BY DEF RecvInv, RecvNotMissed
<1> QED BY <1>1, <1>2, Invariant, StepRecvInv, PTL DEF Spec
-----------------------------------------------------------------------------
\* The places of the packet lcore at which it works on data that arrived.
DataPath == {"enqueue", "signal", "count", "ack", "fin"}

\* What each lcore knows of the stream it is at, whatever the other does.
FieldInv ==
    /\ \A s \in Streams \ {Listener} : fd[s] # ListenFd
    /\ \A s \in Streams : status[s] = "FREE" => fd[s] = 0
    /\ acall = "accept" => afd = ListenFd
    /\ apc \in Holding => ahost = Listener
    /\ apc = "accept-wait" => acur = NULL
    /\ ppc \in DataPath => status[pstream] \notin {"LISTEN", "SYN_RCVD"}

\* No step of one lcore takes from the other what it knows of its stream.
LEMMA StepFieldInv == IInv /\ FieldInv /\ [Next]_vars => FieldInv'
<1> SUFFICES ASSUME IInv, FieldInv, [Next]_vars PROVE FieldInv'
  OBVIOUS
<1> USE UstackAssumption
    DEF IInv, TypeOK, FieldInv, tableVars, seqVars, bufVars, callVars, cursorVars,
        hostVars, localVars, appVars, pktVars, clientVars, wireVars, envVars, stackVars
<1>1. CASE (\E f \in Fds \cup {ListenFd} : AppEvent(f)) \/ RecvDone
  BY <1>1 DEF AppEvent, RecvDone, Call, Holding, PlaceInv, Transfer
<1>2. CASE AppFindNext \/ AppNotFound
  BY <1>2 DEF AppFindNext, AppNotFound, Advance, Holding
<1>3. CASE AppFound
  BY <1>3 DEF AppFound, Holding, AppOK
<1>4. CASE AcceptLock \/ AcceptScan
  BY <1>4 DEF AcceptLock, AcceptScan, Advance, Holding
<1>5. CASE AcceptAssign
  BY <1>5, LowestFdFree DEF AcceptAssign, Live, Holding, PlaceInv, TableOK, FreeFds
<1>6. CASE RecvLock \/ RecvEmpty \/ RecvWait \/ RecvTake \/ RecvRequeue
  BY <1>6 DEF RecvLock, RecvEmpty, RecvWait, RecvTake, RecvRequeue, Holding
<1>7. CASE SendBuild \/ SendEnqueue \/ CloseBuild \/ CloseFin \/ CloseFd
  BY <1>7 DEF SendBuild, SendEnqueue, CloseBuild, CloseFin, CloseFd, Enqueue, Holding
<1>8. CASE CloseStatus
  BY <1>8 DEF CloseStatus, Live, Holding, PlaceInv, Transfer, TableOK
<1>9. ASSUME NEW c \in Clients, NEW s \in Streams \cup {NULL},
             \/ PktIgnore(c, s) \/ PktSynRcvd(c, s) \/ PktEstablished(c, s)
             \/ PktLastAck(c, s)
      PROVE  FieldInv'
  BY <1>9 DEF PktIgnore, PktSynRcvd, PktEstablished, PktLastAck, Process, Ignored,
              TableOK, DataPath
<1>10. ASSUME NEW c \in Clients, NEW s \in Streams \cup {NULL}, PktListen(c, s)
       PROVE  FieldInv'
  BY <1>10 DEF PktListen, Process, TableOK, DataPath
<1>11. CASE PktSynAck \/ PktFin \/ PktFree
  BY <1>11 DEF PktSynAck, PktFin, PktFree, PktInv, TableOK, DataPath
<1>12. CASE PktAccept \/ PktSignal
  BY <1>12 DEF PktAccept, PktSignal, Signal, Woken, DataPath, Holding
<1>13. CASE PktEnqueue \/ PktCount \/ PktAck
  BY <1>13 DEF PktEnqueue, PktCount, PktAck, Enqueue, DataPath
<1>14. CASE \/ PktOut \/ UNCHANGED vars
            \/ \E c \in Clients : Client(c) \/ WireLose(c) \/ WireDuplicate(c)
  BY <1>14, OutsideStep
<1> QED BY <1>1, <1>2, <1>3, <1>4, <1>5, <1>6, <1>7, <1>8, <1>9, <1>10, <1>11, <1>12,
           <1>13, <1>14 DEF Next, App, PktContinue, PktRecv

\* The streams the traversal has passed, unless its cursor is at a stream that was
\* removed under it.
Passed == IF acur \in Table THEN Before(acur, tcb_set)
          ELSE IF acur = NULL /\ ~cut THEN Table ELSE {}

\* The traversal for a descriptor has not passed a stream that has it.
FindInv == apc = "find" => \A s \in Passed : fd[s] # afd

\* A stream that waits for an accept, but that the packet lcore has yet to announce.
Unready(s) == fd[s] = -1 => \/ status[s] \in {"LISTEN", "SYN_RCVD"}
                            \/ ppc = "accept" /\ pstream = s

\* The traversal of naccept has passed no stream it could have taken.
AcceptInv == apc \in {"accept-scan", "accept-wait"} => \A s \in Passed : Unready(s)

\* A traversal begins: nothing is passed.
LEMMA PassedNothing ==
    ASSUME IInv, acur' = First(tcb_set, NULL), UNCHANGED tcb_set
    PROVE  Passed' = {}
<1>1. tcb_set \in Seq(Streams) /\ Distinct(tcb_set) /\ NULL \notin Streams
  BY UstackAssumption DEF IInv, TypeOK, TableOK, TableInv
<1>2. Members(tcb_set) # {}
  BY DEF IInv, TableInv, Table
<1> QED BY <1>1, <1>2, BeforeFirst DEF Passed, Table

\* A traversal goes on: it passes at most the stream it was at.
LEMMA PassedOne ==
    ASSUME IInv, acur # NULL, Advance, UNCHANGED tcb_set
    PROVE  Passed' \subseteq Passed \cup {acur}
<1>1. /\ tcb_set \in Seq(Streams) /\ Distinct(tcb_set) /\ NULL \notin Streams
      /\ Table \subseteq Streams
  BY UstackAssumption DEF IInv, TypeOK, TableOK, TableInv, Table, Members
<1>2. CASE acur \in Table
  BY <1>1, <1>2, BeforeSuccessor DEF Passed, Table, Advance
<1>3. CASE acur \notin Table
  <2>1. acur' = NULL /\ cut' = TRUE
    BY <1>3 DEF Advance, Successor, Table
  <2> QED BY <1>1, <2>1 DEF Passed, Table
<1> QED BY <1>2, <1>3

\* A stream is added in front, and a traversal does not meet it.
LEMMA PassedInsert ==
    ASSUME IInv, NEW syn \in Streams \ Table, tcb_set' = Insert(syn, tcb_set),
           UNCHANGED <<acur, cut>>
    PROVE  Passed' \subseteq Passed \cup {syn}
<1>1. tcb_set \in Seq(Streams) /\ Distinct(tcb_set) /\ NULL \notin Streams
  BY UstackAssumption DEF IInv, TypeOK, TableOK, TableInv
<1>2. Table' = Table \cup {syn}
  BY <1>1, InsertItems DEF Table
<1>3. CASE acur = syn
  BY <1>1, <1>2, <1>3, BeforeInsert DEF Passed, Table
<1>4. CASE acur \in Table
  BY <1>1, <1>2, <1>4, BeforeInsert DEF Passed, Table
<1>5. CASE acur \notin Table \cup {syn}
  BY <1>2, <1>5 DEF Passed
<1> QED BY <1>3, <1>4, <1>5

\* A stream is removed: a traversal that was at it ends.
LEMMA PassedDelete ==
    ASSUME IInv, NEW s \in Table, tcb_set' = Delete(s, tcb_set), UNCHANGED <<acur, cut>>
    PROVE  Passed' \subseteq Passed
<1>1. /\ tcb_set \in Seq(Streams) /\ Distinct(tcb_set) /\ NULL \notin Streams
      /\ Table \subseteq Streams
  BY UstackAssumption DEF IInv, TypeOK, TableOK, TableInv, Table, Members
<1>2. Table' = Table \ {s}
  BY <1>1, DeleteMembers DEF Table
<1>3. CASE acur \in Table \ {s}
  BY <1>1, <1>2, <1>3, BeforeDelete DEF Passed, Table
<1>4. CASE acur \notin Table \ {s}
  BY <1>1, <1>2, <1>4 DEF Passed
<1> QED BY <1>3, <1>4

\* The steps that touch neither the table nor the traversal.
LEMMA StillPassed ==
    ASSUME UNCHANGED <<tcb_set, acur, cut>>
    PROVE  Passed' = Passed
BY DEF Passed, Table

\* A traversal for a descriptor: streams are added in front of it, unaccepted, and a
\* removal under it ends it.
LEMMA StepFindInv == IInv /\ FieldInv /\ FindInv /\ [Next]_vars => FindInv'
<1> SUFFICES ASSUME IInv, FieldInv, FindInv, [Next]_vars, apc' = "find"
             PROVE  \A s \in Passed' : fd'[s] # afd'
  BY DEF FindInv
<1> USE DEF tableVars, seqVars, bufVars, callVars, cursorVars, hostVars, localVars,
            appVars, pktVars
<1>1. afd \in Nat \ {0} /\ Passed \subseteq Streams /\ Table \subseteq Streams
      /\ fd \in [Streams -> Fds \cup {ListenFd, -1, 0}]
  <2>1. tcb_set \in Seq(Streams) /\ afd \in Fds \cup {ListenFd}
    BY DEF IInv, TypeOK, TableOK, AppOK
  <2>2. Table \subseteq Streams
    BY <2>1 DEF Table, Members
  <2>3. acur \in Table => Before(acur, tcb_set) \subseteq Streams
    <3> SUFFICES ASSUME acur \in Table, NEW i \in 1 .. Position(acur, tcb_set) - 1
                 PROVE  tcb_set[i] \in Streams
      BY DEF Before
    <3>1. Position(acur, tcb_set) \in 1 .. Len(tcb_set)
      BY PositionOf DEF Table
    <3> QED BY <2>1, <3>1
  <2> QED BY <2>1, <2>2, <2>3, UstackAssumption DEF Passed, IInv, TypeOK, TableOK
<1>2. CASE (\E f \in Fds \cup {ListenFd} : AppEvent(f)) \/ RecvDone
  <2>1. acur' = First(tcb_set, NULL) /\ UNCHANGED tcb_set
    BY <1>2 DEF AppEvent, RecvDone, Call
  <2> QED BY <2>1, PassedNothing
<1>3. CASE AppFindNext
  <2>1. Passed' \subseteq Passed \cup {acur} /\ apc = "find" /\ fd[acur] # afd
        /\ UNCHANGED <<fd, afd>>
    BY <1>3, PassedOne DEF AppFindNext
  <2> QED BY <2>1 DEF FindInv
<1>4. CASE AppFound
  BY <1>4 DEF AppFound, IInv, TypeOK, AppOK
<1>5. CASE \/ AppNotFound \/ AcceptLock \/ AcceptScan \/ AcceptAssign
           \/ RecvLock \/ RecvEmpty \/ RecvWait \/ RecvTake \/ RecvRequeue
           \/ SendBuild \/ SendEnqueue \/ CloseBuild \/ CloseFin \/ CloseStatus \/ CloseFd
  BY <1>5 DEF AppNotFound, AcceptLock, AcceptScan, AcceptAssign, RecvLock, RecvEmpty,
              RecvWait, RecvTake, RecvRequeue, SendBuild, SendEnqueue, CloseBuild, CloseFin,
              CloseStatus, CloseFd
<1>6. ASSUME NEW c \in Clients, NEW s \in Streams \cup {NULL}, PktListen(c, s)
      PROVE  \A t \in Passed' : fd'[t] # afd'
  <2>1. PICK syn \in Streams :
          /\ status[syn] = "FREE" /\ tcb_set' = Insert(syn, tcb_set)
          /\ fd' = [fd EXCEPT ![syn] = -1]
    BY <1>6 DEF PktListen
  <2>2. syn \notin Table /\ UNCHANGED <<acur, cut, afd, apc>>
    BY <1>6, <2>1 DEF PktListen, Process, IInv, TableInv
  <2>3. Passed' \subseteq Passed \cup {syn}
    BY <2>1, <2>2, PassedInsert
  <2> QED BY <1>1, <2>1, <2>2, <2>3 DEF FindInv
<1>7. ASSUME NEW c \in Clients, NEW s \in Streams \cup {NULL}, PktLastAck(c, s)
      PROVE  \A t \in Passed' : fd'[t] # afd'
  <2>1. /\ s \in Streams /\ status[s] = "LAST_ACK" /\ ppc = "idle"
        /\ tcb_set' = Delete(s, tcb_set) /\ UNCHANGED <<fd, acur, cut, afd, apc>>
    BY <1>7 DEF PktLastAck, Process, Ignored
  <2>2. s \in Table
    BY <2>1 DEF IInv, TableInv
  <2>3. Passed' \subseteq Passed
    BY <2>1, <2>2, PassedDelete
  <2> QED BY <2>1, <2>3 DEF FindInv
<1>8. CASE PktFree
  <2>1. UNCHANGED <<tcb_set, acur, cut, afd, apc>> /\ fd' = [fd EXCEPT ![pstream] = 0]
    BY <1>8 DEF PktFree
  <2>2. Passed' = Passed
    BY <2>1, StillPassed
  <2> QED BY <1>1, <2>1, <2>2 DEF FindInv
<1>9. CASE \/ PktSynAck \/ PktAccept \/ PktFin \/ PktEnqueue \/ PktSignal \/ PktCount
           \/ PktAck
           \/ \E c \in Clients, s \in Streams \cup {NULL} :
                 PktIgnore(c, s) \/ PktSynRcvd(c, s) \/ PktEstablished(c, s)
  <2>1. UNCHANGED <<tcb_set, fd, acur, cut, afd>>
    BY <1>9 DEF PktSynAck, PktAccept, PktFin, PktEnqueue, PktSignal, PktCount, PktAck,
                PktIgnore, PktSynRcvd, PktEstablished, Process, Signal
  <2>2. apc = "find"
    BY <1>9 DEF PktSynAck, PktAccept, PktFin, PktEnqueue, PktSignal, PktCount, PktAck,
                PktIgnore, PktSynRcvd, PktEstablished, Process, Signal, Woken
  <2> QED BY <2>1, <2>2, StillPassed DEF FindInv
<1>10. CASE \/ PktOut \/ UNCHANGED vars
            \/ \E c \in Clients : Client(c) \/ WireLose(c) \/ WireDuplicate(c)
  BY <1>10, OutsideStep, StillPassed DEF FindInv
<1> QED BY <1>2, <1>3, <1>4, <1>5, <1>6, <1>7, <1>8, <1>9, <1>10
           DEF Next, App, PktContinue, PktRecv

\* The traversal of naccept, while statuses change under it: the handler that
\* establishes a connection cannot signal before the wait, which holds the mutex.
LEMMA StepAcceptInv == IInv /\ FieldInv /\ AcceptInv /\ [Next]_vars => AcceptInv'
<1> SUFFICES ASSUME IInv, FieldInv, AcceptInv, [Next]_vars,
                    apc' \in {"accept-scan", "accept-wait"}
             PROVE  \A s \in Passed' : Unready(s)'
  BY DEF AcceptInv
<1> USE DEF tableVars, seqVars, bufVars, callVars, cursorVars, hostVars, localVars,
            appVars, pktVars
<1>1. tcb_set \in Seq(Streams) /\ Table \subseteq Streams
      /\ fd \in [Streams -> Fds \cup {ListenFd, -1, 0}] /\ status \in [Streams -> Statuses]
  BY DEF IInv, TypeOK, TableOK, Table, Members
<1>2. Passed \subseteq Streams
  <2>1. acur \in Table => Before(acur, tcb_set) \subseteq Streams
    <3> SUFFICES ASSUME acur \in Table, NEW i \in 1 .. Position(acur, tcb_set) - 1
                 PROVE  tcb_set[i] \in Streams
      BY DEF Before
    <3>1. Position(acur, tcb_set) \in 1 .. Len(tcb_set)
      BY PositionOf DEF Table
    <3> QED BY <1>1, <3>1
  <2> QED BY <1>1, <2>1 DEF Passed
<1>3. CASE AcceptLock
  <2>1. acur' = First(tcb_set, NULL) /\ UNCHANGED tcb_set
    BY <1>3 DEF AcceptLock
  <2> QED BY <2>1, PassedNothing
<1>4. CASE AcceptScan
  <2>1. /\ UNCHANGED <<tcb_set, fd, status, ppc, pstream>> /\ apc = "accept-scan"
        /\ \/ acur # NULL /\ fd[acur] # -1 /\ Advance
           \/ UNCHANGED <<acur, cut>>
    BY <1>4 DEF AcceptScan
  <2>2. Passed' \subseteq Passed \/ (Passed' \subseteq Passed \cup {acur} /\ fd[acur] # -1)
    BY <2>1, PassedOne, StillPassed
  <2> QED BY <2>1, <2>2 DEF AcceptInv, Unready
<1>5. CASE \/ \E f \in Fds \cup {ListenFd} : AppEvent(f)
           \/ AppFindNext \/ AppNotFound \/ AcceptAssign
           \/ RecvLock \/ RecvEmpty \/ RecvWait \/ RecvTake \/ RecvRequeue \/ RecvDone
           \/ SendBuild \/ SendEnqueue \/ CloseBuild \/ CloseFin \/ CloseStatus \/ CloseFd
  BY <1>5 DEF AppEvent, Call, AppFindNext, AppNotFound, AcceptAssign, RecvLock,
              RecvEmpty, RecvWait, RecvTake, RecvRequeue, RecvDone, SendBuild,
              SendEnqueue, CloseBuild, CloseFin, CloseStatus, CloseFd
<1>6. CASE AppFound
  BY <1>6 DEF AppFound, IInv, TypeOK, AppOK
<1>7. ASSUME NEW c \in Clients, NEW s \in Streams \cup {NULL}, PktListen(c, s)
      PROVE  \A t \in Passed' : Unready(t)'
  <2>1. PICK syn \in Streams :
          /\ status[syn] = "FREE" /\ tcb_set' = Insert(syn, tcb_set)
          /\ status' = [status EXCEPT ![syn] = "LISTEN"]
          /\ fd' = [fd EXCEPT ![syn] = -1]
    BY <1>7 DEF PktListen
  <2>2. syn \notin Table /\ UNCHANGED <<acur, cut, apc>> /\ ppc = "idle"
    BY <1>7, <2>1 DEF PktListen, Process, IInv, TableInv
  <2>3. Passed' \subseteq Passed \cup {syn}
    BY <2>1, <2>2, PassedInsert
  <2> QED BY <1>1, <1>2, <2>1, <2>2, <2>3 DEF AcceptInv, Unready
<1>8. ASSUME NEW c \in Clients, NEW s \in Streams \cup {NULL}, PktLastAck(c, s)
      PROVE  \A t \in Passed' : Unready(t)'
  <2>1. /\ s \in Streams /\ status[s] = "LAST_ACK" /\ ppc = "idle"
        /\ tcb_set' = Delete(s, tcb_set) /\ status' = [status EXCEPT ![s] = "CLOSED"]
        /\ UNCHANGED <<fd, acur, cut, apc>>
    BY <1>8 DEF PktLastAck, Process, Ignored
  <2>2. s \in Table
    BY <2>1 DEF IInv, TableInv
  <2>3. Passed' \subseteq Passed
    BY <2>1, <2>2, PassedDelete
  <2> QED BY <1>1, <1>2, <2>1, <2>3 DEF AcceptInv, Unready
<1>9. CASE PktSynAck \/ PktFin \/ PktFree
  <2>1. UNCHANGED <<tcb_set, acur, cut, apc>> /\ pstream \in Streams /\ ppc # "accept"
    BY <1>9 DEF PktSynAck, PktFin, PktFree, IInv, PktInv
  <2>2. \/ fd' = fd /\ status' = [status EXCEPT ![pstream] = "SYN_RCVD"]
        \/ /\ fd' = fd /\ status' = [status EXCEPT ![pstream] = "CLOSE_WAIT"]
           /\ status[pstream] \notin {"LISTEN", "SYN_RCVD"}
        \/ /\ fd' = [fd EXCEPT ![pstream] = 0]
           /\ status' = [status EXCEPT ![pstream] = "FREE"]
    BY <1>9 DEF PktSynAck, PktFin, PktFree, FieldInv, DataPath
  <2>3. Passed' = Passed
    BY <2>1, StillPassed
  <2> QED BY <1>1, <1>2, <2>1, <2>2, <2>3 DEF AcceptInv, Unready
<1>10. CASE PktAccept
  <2>1. Search(NULL) = Listener
    <3>1. Search(NULL) # NULL /\ ppc = "accept" /\ NULL \notin Streams
      BY <1>10, UstackAssumption DEF PktAccept
    <3>2. Search(NULL) \in Table
          /\ (status[Search(NULL)] = "LISTEN" \/ peer[Search(NULL)] = NULL)
      BY <1>1, <3>1, SearchFinds
    <3> QED BY <1>1, <3>1, <3>2, UstackAssumption DEF IInv, TableInv
  <2>2. /\ apc \in Holding => ahost = Listener
        /\ ~AppHolds(Listener) /\ apc' = Woken(Listener)
    BY <1>10, <2>1 DEF PktAccept, Signal, FieldInv
  <2>3. apc' \notin {"accept-scan", "accept-wait"}
    BY <2>2 DEF AppHolds, Woken, Holding
  <2> QED BY <2>3
<1>11. ASSUME NEW c \in Clients, NEW s \in Streams \cup {NULL}, PktSynRcvd(c, s)
       PROVE  \A t \in Passed' : Unready(t)'
  <2>1. /\ UNCHANGED <<tcb_set, fd, acur, cut, apc>> /\ ppc = "idle" /\ s \in Streams
        /\ status' = [status EXCEPT ![s] = "ESTABLISHED"] /\ ppc' = "accept" /\ pstream' = s
    BY <1>11 DEF PktSynRcvd, Process, Ignored
  <2>2. Passed' = Passed
    BY <2>1, StillPassed
  <2> QED BY <1>1, <1>2, <2>1, <2>2 DEF AcceptInv, Unready
<1>12. CASE \/ PktEnqueue \/ PktSignal \/ PktCount \/ PktAck
            \/ \E c \in Clients, s \in Streams \cup {NULL} :
                  PktIgnore(c, s) \/ PktEstablished(c, s)
  <2>1. UNCHANGED <<tcb_set, fd, status, acur, cut>> /\ ppc # "accept"
    BY <1>12 DEF PktEnqueue, PktSignal, PktCount, PktAck, PktIgnore, PktEstablished,
                 Process, Signal
  <2>2. apc \in {"accept-scan", "accept-wait"}
    BY <1>12 DEF PktEnqueue, PktSignal, PktCount, PktAck, PktIgnore, PktEstablished,
                 Process, Signal, Woken
  <2> QED BY <2>1, <2>2, StillPassed DEF AcceptInv, Unready
<1>13. CASE \/ PktOut \/ UNCHANGED vars
            \/ \E c \in Clients : Client(c) \/ WireLose(c) \/ WireDuplicate(c)
  BY <1>13, OutsideStep, StillPassed DEF AcceptInv, Unready
<1> QED BY <1>3, <1>4, <1>5, <1>6, <1>7, <1>8, <1>9, <1>10, <1>11, <1>12, <1>13
           DEF Next, App, PktContinue, PktRecv

\* What the two traversals have passed.
ScanInv == FieldInv /\ FindInv /\ AcceptInv

\* It holds in every behaviour.
LEMMA ScanInvariant == Spec => []ScanInv
<1>1. Init => ScanInv
  BY UstackAssumption
     DEF Init, ScanInv, FieldInv, FindInv, AcceptInv, Holding, DataPath
<1>2. IInv /\ ScanInv /\ [Next]_vars => ScanInv'
  BY StepFieldInv, StepFindInv, StepAcceptInv DEF ScanInv
<1> QED BY <1>1, <1>2, Invariant, PTL DEF Spec

\* get_hostinfo_fromfd takes no lock, and what is added goes in front: it misses a
\* stream that has the descriptor only when one is removed under it.
THEOREM LookupIsComplete == Spec => []LookupFindsOpen
<1>1. IInv /\ ScanInv => LookupFindsOpen
  <2> SUFFICES ASSUME IInv, FindInv, apc = "find", acur = NULL, ~cut
               PROVE  \A s \in Table : fd[s] # afd
    BY DEF ScanInv, LookupFindsOpen
  <2>1. NULL \notin Table
    BY UstackAssumption DEF IInv, TypeOK, TableOK, Table, Members
  <2> QED BY <2>1 DEF FindInv, Passed
<1> QED BY <1>1, Invariant, ScanInvariant, PTL

\* naccept does not sleep on an established connection: the packet lcore changes a
\* status outside the listener's mutex, but signals under it.
THEOREM AcceptIsNotMissed == Spec => []AcceptNotMissed
<1>1. IInv /\ ScanInv => AcceptNotMissed
  <2> SUFFICES ASSUME IInv, FieldInv, AcceptInv, apc = "accept-wait", ~cut, ppc # "accept",
                      NEW s \in Table, fd[s] = -1
               PROVE  status[s] \notin {"ESTABLISHED", "CLOSE_WAIT"}
    BY DEF ScanInv, AcceptNotMissed
  <2>1. acur = NULL /\ NULL \notin Table
    BY UstackAssumption DEF FieldInv, IInv, TypeOK, TableOK, Table, Members
  <2> QED BY <2>1 DEF AcceptInv, Passed, Unready
<1> QED BY <1>1, Invariant, ScanInvariant, PTL

\* A segment flagged as carrying payload carries some.
Filled == {seg \in Segments : "PSH" \in seg.flags => seg.data # <<>>}

\* A payload without length is put in a receive ring for a FIN and for nothing else.
PayloadInv ==
    /\ to_stack \in [Clients -> Seq(Filled)]
    /\ ppc = "enqueue" => pseg.data # <<>>
    /\ apc = "recv-requeue" => Len(abuf) > BufLen

\* A segment made with a payload wherever its flags say so.
LEMMA FilledType ==
    ASSUME NEW flags \in SUBSET Flags, NEW seq \in Nat, NEW ack \in Nat,
           NEW data \in Seq(Nat), "PSH" \in flags => data # <<>>
    PROVE  Segment(flags, seq, ack, data) \in Filled
<1>1. Segment(flags, seq, ack, data) \in Segments
  BY SegmentType
<1>2. /\ Segment(flags, seq, ack, data).flags = flags
      /\ Segment(flags, seq, ack, data).data = data
  BY DEF Segment
<1> QED BY <1>1, <1>2 DEF Filled

\* No step puts a flagged segment without payload on the wire, or in a handler.
LEMMA StepPayloadInv == IInv /\ PayloadInv /\ [Next]_vars => PayloadInv'
<1> SUFFICES ASSUME IInv, PayloadInv, [Next]_vars PROVE PayloadInv'
  OBVIOUS
<1> USE DEF tableVars, seqVars, bufVars, callVars, cursorVars, hostVars, localVars,
            appVars, pktVars, clientVars, wireVars, envVars, stackVars
<1>1. CASE App
  <2>1. UNCHANGED <<to_stack, ppc, pseg>>
    BY <1>1 DEF App, AppEvent, AppFindNext, AppFound, AppNotFound, AcceptLock, AcceptScan,
                AcceptAssign, RecvLock, RecvEmpty, RecvWait, RecvTake, RecvRequeue,
                RecvDone, SendBuild, SendEnqueue, CloseBuild, CloseFin, CloseStatus, CloseFd
  <2>2. CASE RecvTake
    BY <2>1, <2>2 DEF RecvTake, PayloadInv
  <2>3. CASE AppFound
    BY <2>1, <2>3 DEF AppFound, PayloadInv, IInv, TypeOK, AppOK
  <2>4. CASE \/ AppFindNext \/ AppNotFound \/ AcceptLock \/ AcceptScan \/ AcceptAssign
             \/ RecvLock \/ RecvEmpty \/ RecvWait \/ RecvRequeue \/ RecvDone
             \/ SendBuild \/ SendEnqueue \/ CloseBuild \/ CloseFin \/ CloseStatus \/ CloseFd
             \/ \E f \in Fds \cup {ListenFd} : AppEvent(f)
    <3>1. apc' # "recv-requeue"
      BY <2>4 DEF AppEvent, Call, AppFindNext, AppNotFound, AcceptLock, AcceptScan,
                  AcceptAssign, RecvLock, RecvEmpty, RecvWait, RecvRequeue, RecvDone,
                  SendBuild, SendEnqueue, CloseBuild, CloseFin, CloseStatus, CloseFd
    <3> QED BY <2>1, <3>1 DEF PayloadInv
  <2> QED BY <1>1, <2>2, <2>3, <2>4 DEF App
<1>2. ASSUME NEW c \in Clients, PktRecv(c) PROVE PayloadInv'
  <2>1. PICK s \in Streams \cup {NULL} :
          \/ PktIgnore(c, s) \/ PktListen(c, s) \/ PktSynRcvd(c, s)
          \/ PktEstablished(c, s) \/ PktLastAck(c, s)
    BY <1>2 DEF PktRecv
  <2>2. /\ to_stack[c] # <<>> /\ pseg' = Head(to_stack[c])
        /\ to_stack' = [to_stack EXCEPT ![c] = Tail(@)] /\ UNCHANGED <<apc, abuf>>
    BY <2>1 DEF PktIgnore, PktListen, PktSynRcvd, PktEstablished, PktLastAck, Process
  <2>3. pseg' \in Filled /\ to_stack' \in [Clients -> Seq(Filled)]
    BY <2>2, QueueTake DEF PayloadInv
  <2>4. ppc' = "enqueue" => "PSH" \in pseg'.flags
    BY <2>1, <2>2 DEF PktIgnore, PktListen, PktSynRcvd, PktEstablished, PktLastAck,
                      Process, Has
  <2> QED BY <2>2, <2>3, <2>4 DEF PayloadInv, Filled
<1>3. CASE PktContinue
  <2>1. UNCHANGED <<to_stack, pseg, abuf>> /\ ppc' # "enqueue"
    BY <1>3 DEF PktContinue, PktSynAck, PktAccept, PktFin, PktEnqueue, PktSignal,
                PktCount, PktAck, PktFree, Signal, Enqueue
  <2>2. apc' = "recv-requeue" => apc = "recv-requeue"
    BY <1>3 DEF PktContinue, PktSynAck, PktAccept, PktFin, PktEnqueue, PktSignal,
                PktCount, PktAck, PktFree, Signal, Woken
  <2> QED BY <2>1, <2>2 DEF PayloadInv
<1>4. CASE PktOut \/ UNCHANGED vars
  BY <1>4 DEF PktOut, vars, PayloadInv
<1>5. ASSUME NEW c \in Clients, Client(c) \/ WireLose(c) \/ WireDuplicate(c)
      PROVE  PayloadInv'
  <2>1. UNCHANGED <<ppc, pseg, apc, abuf>>
    BY <1>5, OutsideStep
  <2>2. to_stack' \in [Clients -> Seq(Filled)]
    <3>1. CASE ClientConnect(c) \/ ClientClose(c) \/ ClientRecv(c)
      <4>1. \/ \E flags \in {{"SYN"}, {"ACK", "FIN"}, {"ACK"}}, seq \in Nat :
                  Transmit(c, flags, seq, <<>>)
            \/ UNCHANGED to_stack
        <5>1. csent[c] \in Nat
          BY UstackAssumption DEF IInv, TypeOK, ClientOK
        <5>2. CASE ClientConnect(c) \/ ClientClose(c)
          <6>1. csent[c] + 1 \in Nat
            BY <5>1
          <6> QED BY <5>2, <6>1 DEF ClientConnect, ClientClose
        <5>3. CASE ClientRecv(c)
          <6>1. csent[c] + (IF cst[c] = "estab" THEN 1 ELSE 2) \in Nat
            BY <5>1
          <6>2. \/ Transmit(c, {"ACK"}, 1, <<>>)
                \/ Transmit(c, {"ACK"}, csent[c] + (IF cst[c] = "estab" THEN 1 ELSE 2), <<>>)
                \/ UNCHANGED to_stack
            BY <5>3 DEF ClientRecv
          <6> QED BY <6>1, <6>2
        <5> QED BY <3>1, <5>2, <5>3
      <4>2. ASSUME NEW flags \in {{"SYN"}, {"ACK", "FIN"}, {"ACK"}}, NEW seq \in Nat,
                   Transmit(c, flags, seq, <<>>)
            PROVE  to_stack' \in [Clients -> Seq(Filled)]
        <5>1. ClientOK'
          BY StepTypeOK DEF TypeOK
        <5>2. crcv'[c] \in Nat /\ flags \in SUBSET Flags /\ "PSH" \notin flags
          BY <5>1 DEF ClientOK, Flags
        <5>3. Segment(flags, seq, crcv'[c], <<>>) \in Filled
          <6>1. <<>> \in Seq(Nat) /\ seq \in Nat
            OBVIOUS
          <6> QED BY <5>2, <6>1, FilledType
        <5> QED BY <4>2, <5>3, QueueAppend DEF Transmit, PayloadInv
      <4> QED BY <4>1, <4>2 DEF PayloadInv
    <3>2. CASE ClientSend(c)
      <4>1. PICK n \in 1 .. MaxSeg, flags \in {{"ACK"}, {"ACK", "PSH"}} :
               Transmit(c, flags, csent[c] + 1, [i \in 1 .. n |-> csent[c] + i])
        BY <3>2 DEF ClientSend
      <4>2. csent[c] \in Nat /\ n \in Nat /\ n >= 1 /\ crcv' \in [Clients -> Nat]
        BY <3>2, <4>1, UstackAssumption DEF IInv, TypeOK, ClientOK, ClientSend
      <4> DEFINE data == [i \in 1 .. n |-> csent[c] + i]
      <4>3. data \in Seq(Nat) /\ Len(data) = n
        BY <4>2
      <4>4. data # <<>>
        BY <4>2, <4>3
      <4> HIDE DEF data
      <4>5. Segment(flags, csent[c] + 1, crcv'[c], data) \in Filled
        <5>1. csent[c] + 1 \in Nat /\ crcv'[c] \in Nat /\ flags \in SUBSET Flags
          BY <4>2 DEF Flags
        <5> QED BY <4>3, <4>4, <5>1, FilledType
      <4>6. to_stack' = [to_stack EXCEPT ![c] =
                            Append(@, Segment(flags, csent[c] + 1, crcv'[c], data))]
        BY <4>1 DEF Transmit, data
      <4> QED BY <4>5, <4>6, QueueAppend DEF PayloadInv
    <3>3. CASE WireLose(c)
      <4>1. to_stack[c] # <<>> => [to_stack EXCEPT ![c] = Tail(@)] \in [Clients -> Seq(Filled)]
        BY QueueTake DEF PayloadInv
      <4> QED BY <3>3, <4>1 DEF WireLose, PayloadInv
    <3>4. CASE WireDuplicate(c)
      <4>1. Head(to_stack[c]) \in Filled
        BY <3>4, QueueTake DEF WireDuplicate, PayloadInv
      <4> QED BY <3>4, <4>1, QueueAppend DEF WireDuplicate, PayloadInv
    <3> QED BY <1>5, <3>1, <3>2, <3>3, <3>4 DEF Client
  <2> QED BY <2>1, <2>2 DEF PayloadInv
<1> QED BY <1>1, <1>2, <1>3, <1>4, <1>5 DEF Next
-----------------------------------------------------------------------------
\* A stream of the table that nclose has not closed.
InUse(s) == s \in Table /\ status[s] # "LAST_ACK"

PeerClosed == {"CLOSE_WAIT", "LAST_ACK", "CLOSED"}

\* The stream of a call is in use and has the descriptor of the call; a call of
\* nclose is for a stream whose client has closed.
HoldInv ==
    /\ apc = "accept-assign" => InUse(acur) /\ fd[acur] = -1
    /\ apc \in Transfer => InUse(ahost) /\ fd[ahost] = afd
    /\ (\/ apc = "find" /\ acall = "close"
        \/ apc = "recv-done" /\ abuf = <<>>
        \/ apc \in {"close-build", "close-fin", "close-status"}) =>
          InUse(ahost) /\ fd[ahost] = afd /\ status[ahost] = "CLOSE_WAIT"
    /\ apc = "close-fd" => \A s \in Table : InUse(s) => fd[s] # afd

\* A handler works on a stream in the state it found it in, and the zero length
\* payload is in the ring of a stream whose client has closed.
HandlerInv ==
    /\ ppc = "synack" => status[pstream] = "LISTEN"
    /\ ppc \in DataPath => status[pstream] = "ESTABLISHED"
    /\ ppc = "fin-enqueue" => status[pstream] \in PeerClosed
    /\ ppc = "free" => status[pstream] = "CLOSED"
    /\ \A s \in Streams :
          status[s] \notin PeerClosed => rcvbuf[s] \in Seq(Seq(Nat) \ {<<>>})

\* A descriptor in use names one stream and its bit is set; a stream that was
\* never accepted is never closed.
FdInv ==
    /\ \A s \in Streams : fd[s] = -1 => InUse(s)
    /\ \A s, t \in Table : InUse(s) /\ InUse(t) /\ fd[s] = fd[t] /\ fd[s] # -1 => s = t
    /\ \A s \in Table : InUse(s) /\ fd[s] # -1 => fd[s] \in fd_table

\* All of it until a lookup goes astray.
UseInv == ~stray => HoldInv /\ HandlerInv /\ FdInv

\* The facts about types that the steps below use.
LEMMA TableFacts ==
    ASSUME IInv
    PROVE  /\ tcb_set \in Seq(Streams) /\ Distinct(tcb_set) /\ Table \subseteq Streams
           /\ status \in [Streams -> Statuses]
           /\ fd \in [Streams -> Fds \cup {ListenFd, -1, 0}]
           /\ peer \in [Streams -> Clients \cup {NULL}]
           /\ rcvbuf \in [Streams -> Seq(Seq(Nat))]
           /\ afd \in Nat \ {0} /\ afd # -1 /\ NULL \notin Streams
<1>1. tcb_set \in Seq(Streams) /\ Distinct(tcb_set)
  BY DEF IInv, TypeOK, TableOK, TableInv
<1>2. Table \subseteq Streams
  BY <1>1 DEF Table, Members
<1>3. afd \in Nat \ {0} /\ afd # -1 /\ NULL \notin Streams
  BY UstackAssumption DEF IInv, TypeOK, AppOK
<1> QED BY <1>1, <1>2, <1>3 DEF IInv, TypeOK, TableOK, BuffersOK

\* Whether a stream is in use, where a handler leaves its status and the table alone.
LEMMA SameUse ==
    ASSUME UNCHANGED <<tcb_set, status>>
    PROVE  \A s : InUse(s)' <=> InUse(s)
BY DEF InUse, Table

\* A stream that a lookup finds, and that is not closed, is in use.
LEMMA FoundInUse ==
    ASSUME IInv, FieldInv, HandlerInv, acur # NULL, fd[acur] = afd,
           status[acur] \notin {"LAST_ACK", "CLOSED"}
    PROVE  InUse(acur)
<1>1. acur \in Streams
  BY DEF IInv, TypeOK, AppOK
<1>2. status[acur] # "FREE"
  BY <1>1, TableFacts DEF FieldInv
<1>3. ~(ppc = "free" /\ pstream = acur)
  BY DEF HandlerInv
<1> QED BY <1>1, <1>2, <1>3 DEF InUse, IInv, TableInv

\* How the packet lcore's steps change the streams in use: it adds one, removes one
\* that was closed, and otherwise the ones in use are the same.
LEMMA PacketUse ==
    ASSUME IInv, HandlerInv,
           PktContinue \/ \E c \in Clients : PktRecv(c)
    PROVE  /\ UNCHANGED <<acall, afd, acur, ahost, abuf, fd_table, stray>>
           /\ \/ apc' = apc
              \/ apc = "accept-wait" /\ apc' = "accept-lock"
              \/ apc = "recv-wait" /\ apc' = "recv-lock"
           /\ \/ /\ \A s \in Streams : InUse(s)' <=> InUse(s)
                 /\ \A s \in Streams : fd'[s] = fd[s] \/ (s \notin Table /\ fd'[s] = 0)
                 /\ Table' \subseteq Table
              \/ \E s \in Streams \ Table :
                    /\ fd' = [fd EXCEPT ![s] = -1]
                    /\ \A t \in Streams : InUse(t)' <=> InUse(t) \/ t = s
                    /\ Table' = Table \cup {s}
           /\ \A s \in Streams : InUse(s) /\ status[s] = "CLOSE_WAIT" => status'[s] = "CLOSE_WAIT"
<1> USE DEF tableVars, seqVars, bufVars, callVars, cursorVars, hostVars, localVars,
            appVars, pktVars, clientVars, wireVars, envVars, stackVars
<1>1. CASE PktAccept \/ PktEnqueue \/ PktSignal \/ PktCount \/ PktAck
  <2>1. UNCHANGED <<tcb_set, status, fd, fd_table, acall, afd, acur, ahost, abuf, stray>>
    BY <1>1 DEF PktAccept, PktEnqueue, PktSignal, PktCount, PktAck, Signal, Enqueue
  <2>2. \/ apc' = apc
        \/ apc = "accept-wait" /\ apc' = "accept-lock"
        \/ apc = "recv-wait" /\ apc' = "recv-lock"
    BY <1>1 DEF PktAccept, PktEnqueue, PktSignal, PktCount, PktAck, Signal, Woken
  <2> QED BY <2>1, <2>2, SameUse DEF Table
<1>2. CASE PktSynAck \/ PktFin \/ PktFree
  <2>1. /\ UNCHANGED <<tcb_set, apc, fd_table, acall, afd, acur, ahost, abuf, stray>>
        /\ pstream \in Streams
    BY <1>2 DEF PktSynAck, PktFin, PktFree, IInv, PktInv
  <2>2. \/ /\ UNCHANGED fd /\ status[pstream] = "LISTEN"
           /\ status' = [status EXCEPT ![pstream] = "SYN_RCVD"]
        \/ /\ UNCHANGED fd /\ status[pstream] = "ESTABLISHED"
           /\ status' = [status EXCEPT ![pstream] = "CLOSE_WAIT"]
        \/ /\ pstream \notin Table /\ fd' = [fd EXCEPT ![pstream] = 0]
           /\ status' = [status EXCEPT ![pstream] = "FREE"]
    BY <1>2, <2>1 DEF PktSynAck, PktFin, PktFree, HandlerInv, DataPath, IInv, TableInv
  <2>3. Table' = Table
    BY <2>1 DEF Table
  <2>4. \A s \in Streams : InUse(s)' <=> InUse(s)
    BY <2>1, <2>2, <2>3, TableFacts DEF InUse
  <2>5. \A s \in Streams : fd'[s] = fd[s] \/ (s \notin Table /\ fd'[s] = 0)
    BY <2>1, <2>2, TableFacts
  <2>6. \A s \in Streams : InUse(s) /\ status[s] = "CLOSE_WAIT" => status'[s] = "CLOSE_WAIT"
    BY <2>1, <2>2, TableFacts DEF InUse
  <2> QED BY <2>1, <2>3, <2>4, <2>5, <2>6
<1>3. ASSUME NEW c \in Clients, NEW x \in Streams \cup {NULL}, PktListen(c, x)
      PROVE  \E s \in Streams \ Table :
                /\ UNCHANGED <<apc, fd_table, acall, afd, acur, ahost, abuf, stray>>
                /\ fd' = [fd EXCEPT ![s] = -1]
                /\ status' = [status EXCEPT ![s] = "LISTEN"]
                /\ Table' = Table \cup {s}
                /\ \A t \in Streams : InUse(t)' <=> InUse(t) \/ t = s
  <2>1. PICK s \in Streams :
          /\ status[s] = "FREE" /\ tcb_set' = Insert(s, tcb_set)
          /\ status' = [status EXCEPT ![s] = "LISTEN"]
          /\ fd' = [fd EXCEPT ![s] = -1]
    BY <1>3 DEF PktListen
  <2>2. s \notin Table
    BY <2>1 DEF IInv, TableInv
  <2>3. UNCHANGED <<apc, fd_table, acall, afd, acur, ahost, abuf, stray>>
    BY <1>3 DEF PktListen, Process
  <2>4. Table' = Table \cup {s}
    BY <2>1, InsertItems, TableFacts DEF Table
  <2>5. \A t \in Streams : InUse(t)' <=> InUse(t) \/ t = s
    BY <2>1, <2>2, <2>4, TableFacts DEF InUse
  <2> QED BY <2>1, <2>2, <2>3, <2>4, <2>5
<1>4. ASSUME NEW c \in Clients, NEW x \in Streams \cup {NULL}, PktLastAck(c, x)
      PROVE  /\ UNCHANGED <<apc, fd, fd_table, acall, afd, acur, ahost, abuf, stray>>
             /\ Table' = Table \ {x} /\ x \in Streams /\ status[x] = "LAST_ACK"
             /\ status' = [status EXCEPT ![x] = "CLOSED"]
  <2>1. /\ x \in Streams /\ status[x] = "LAST_ACK" /\ tcb_set' = Delete(x, tcb_set)
        /\ status' = [status EXCEPT ![x] = "CLOSED"]
        /\ UNCHANGED <<apc, fd, fd_table, acall, afd, acur, ahost, abuf, stray>>
    BY <1>4 DEF PktLastAck, Process, Ignored
  <2> QED BY <2>1, DeleteMembers, TableFacts DEF Table
<1>5. ASSUME NEW c \in Clients, NEW x \in Streams \cup {NULL},
             PktIgnore(c, x) \/ PktSynRcvd(c, x) \/ PktEstablished(c, x)
      PROVE  /\ UNCHANGED <<tcb_set, apc, fd, fd_table, acall, afd, acur, ahost, abuf, stray>>
             /\ \/ UNCHANGED status
                \/ /\ x \in Streams /\ status[x] = "SYN_RCVD"
                   /\ status' = [status EXCEPT ![x] = "ESTABLISHED"]
  BY <1>5 DEF PktIgnore, PktSynRcvd, PktEstablished, Process, Ignored
<1>6. CASE \E c \in Clients, x \in Streams \cup {NULL} : PktListen(c, x)
  <2>1. PICK s \in Streams \ Table :
                /\ UNCHANGED <<apc, fd_table, acall, afd, acur, ahost, abuf, stray>>
                /\ fd' = [fd EXCEPT ![s] = -1]
                /\ status' = [status EXCEPT ![s] = "LISTEN"]
                /\ Table' = Table \cup {s}
                /\ \A t \in Streams : InUse(t)' <=> InUse(t) \/ t = s
    BY <1>3, <1>6
  <2> QED BY <2>1, TableFacts DEF InUse
<1>7. CASE \E c \in Clients, x \in Streams \cup {NULL} : PktLastAck(c, x)
  <2>1. PICK x \in Streams :
             /\ UNCHANGED <<apc, fd, fd_table, acall, afd, acur, ahost, abuf, stray>>
             /\ Table' = Table \ {x} /\ status[x] = "LAST_ACK"
             /\ status' = [status EXCEPT ![x] = "CLOSED"]
    BY <1>4, <1>7
  <2> QED BY <2>1, TableFacts DEF InUse
<1>8. CASE \E c \in Clients, x \in Streams \cup {NULL} :
              PktIgnore(c, x) \/ PktSynRcvd(c, x) \/ PktEstablished(c, x)
  <2>1. /\ UNCHANGED <<tcb_set, apc, fd, fd_table, acall, afd, acur, ahost, abuf, stray>>
        /\ \/ UNCHANGED status
           \/ \E x \in Streams : /\ status[x] = "SYN_RCVD"
                                 /\ status' = [status EXCEPT ![x] = "ESTABLISHED"]
    BY <1>5, <1>8
  <2>2. Table' = Table
    BY <2>1 DEF Table
  <2> QED BY <2>1, <2>2, TableFacts DEF InUse
<1> QED BY <1>1, <1>2, <1>6, <1>7, <1>8 DEF PktContinue, PktRecv

\* The packet lcore takes no stream from a call that holds it: it removes only what
\* nclose has put in LAST_ACK.
LEMMA StepHoldInv ==
    ASSUME IInv, FieldInv, PayloadInv, HoldInv, HandlerInv, FdInv, ~stray', [Next]_vars
    PROVE  HoldInv'
<1> USE TableFacts DEF tableVars, seqVars, bufVars, callVars, cursorVars, hostVars,
        localVars, appVars, pktVars, clientVars, wireVars, envVars, stackVars
<1>1. CASE (\E f \in Fds \cup {ListenFd} : AppEvent(f)) \/ AppNotFound \/ AcceptLock
           \/ AcceptAssign \/ SendEnqueue \/ CloseFd
  <2>1. /\ apc' \notin Transfer \cup {"accept-assign", "recv-done", "close-fd"}
        /\ apc' = "find" => acall' # "close"
    BY <1>1 DEF AppEvent, Call, AppNotFound, AcceptLock, AcceptAssign, SendEnqueue,
                CloseFd, Transfer
  <2> QED BY <2>1 DEF HoldInv, Transfer
<1>2. CASE AppFindNext \/ RecvLock \/ RecvEmpty \/ RecvWait \/ RecvRequeue \/ SendBuild
           \/ CloseBuild \/ CloseFin \/ RecvDone
  <2>1. /\ UNCHANGED <<tcb_set, status, fd, afd, ahost>>
        /\ apc \in Transfer \/ (apc = "find" /\ acall' = acall)
        /\ apc' \in Transfer \/ apc' = "find"
        /\ apc' \in Transfer => apc \in Transfer
        /\ apc' = "find" /\ acall' = "close" =>
              (apc = "find" /\ acall = "close") \/ (apc = "recv-done" /\ abuf = <<>>)
        /\ apc' \in {"close-build", "close-fin", "close-status"} =>
              apc \in {"close-build", "close-fin", "close-status"}
        /\ apc' = "recv-done" => abuf' = abuf /\ apc = "recv-requeue"
    BY <1>2 DEF AppFindNext, RecvLock, RecvEmpty, RecvWait, RecvRequeue, SendBuild,
                CloseBuild, CloseFin, RecvDone, Call, Transfer
  <2>2. apc' = "recv-done" => abuf' # <<>>
    BY <2>1, UstackAssumption DEF PayloadInv
  <2>3. \A s : InUse(s)' <=> InUse(s)
    BY <2>1, SameUse
  <2> QED BY <2>1, <2>2, <2>3 DEF HoldInv, Transfer
<1>3. CASE AppFound
  <2>1. /\ UNCHANGED <<tcb_set, status, fd, afd, acall>> /\ ahost' = acur
        /\ acur # NULL /\ fd[acur] = afd /\ status[acur] \notin {"LAST_ACK", "CLOSED"}
        /\ apc = "find" /\ acall \in {"accept", "recv", "send", "close"}
        /\ apc' = CASE acall = "accept" -> "accept-lock"
                    [] acall = "recv" -> "recv-lock"
                    [] acall = "send" -> "send-build"
                    [] acall = "close" -> "close-build"
    BY <1>3 DEF AppFound, IInv, TypeOK, AppOK
  <2>2. InUse(acur)
    BY <2>1, FoundInUse
  <2>3. acall = "close" => status[acur] = "CLOSE_WAIT"
    <3> SUFFICES ASSUME acall = "close" PROVE status[acur] = "CLOSE_WAIT"
      OBVIOUS
    <3>1. InUse(ahost) /\ fd[ahost] = afd /\ status[ahost] = "CLOSE_WAIT"
      BY <2>1 DEF HoldInv
    <3>2. acur = ahost
      BY <2>1, <2>2, <3>1 DEF FdInv, InUse
    <3> QED BY <3>1, <3>2
  <2>4. InUse(ahost)'
    BY <2>1, <2>2 DEF InUse, Table
  <2> QED BY <2>1, <2>3, <2>4 DEF HoldInv, Transfer
<1>4. CASE AcceptScan
  <2>1. /\ UNCHANGED <<tcb_set, status, fd>>
        /\ \/ apc' \in {"accept-scan", "accept-wait"}
           \/ /\ apc' = "accept-assign" /\ acur' = acur /\ acur # NULL
              /\ fd[acur] = -1
    BY <1>4 DEF AcceptScan
  <2>2. apc' = "accept-assign" => InUse(acur)' /\ fd'[acur'] = -1
    BY <2>1, SameUse DEF FdInv, IInv, TypeOK, AppOK, InUse, Table
  <2> QED BY <2>1, <2>2 DEF HoldInv, Transfer
<1>5. CASE RecvTake
  <2>1. /\ UNCHANGED <<tcb_set, status, fd, afd, ahost>>
        /\ apc = "recv-take" /\ rcvbuf[ahost] # <<>> /\ abuf' = Head(rcvbuf[ahost])
        /\ apc' \in {"recv-requeue", "recv-done"}
    BY <1>5 DEF RecvTake
  <2>2. InUse(ahost) /\ fd[ahost] = afd /\ ahost \in Streams
    BY <2>1 DEF HoldInv, Transfer, InUse
  <2>3. abuf' = <<>> => status[ahost] \in PeerClosed
    BY <2>1, <2>2 DEF HandlerInv
  <2>4. status[ahost] # "CLOSED"
    BY <2>2 DEF InUse, IInv, TableInv
  <2>5. \A s : InUse(s)' <=> InUse(s)
    BY <2>1, SameUse
  <2> QED BY <2>1, <2>2, <2>3, <2>4, <2>5 DEF HoldInv, Transfer, PeerClosed, InUse
<1>6. CASE CloseStatus
  <2>1. /\ status' = [status EXCEPT ![ahost] = "LAST_ACK"] /\ apc' = "close-fd"
        /\ apc = "close-status" /\ UNCHANGED <<tcb_set, fd, afd>>
    BY <1>6 DEF CloseStatus
  <2>2. InUse(ahost) /\ fd[ahost] = afd
    BY <2>1 DEF HoldInv, Transfer
  <2>3. ASSUME NEW s \in Table, InUse(s)' PROVE fd[s] # afd
    <3>1. InUse(s) /\ s # ahost
      BY <2>1, <2>3 DEF InUse, Table
    <3> QED BY <2>2, <3>1 DEF FdInv, InUse
  <2> QED BY <2>1, <2>3 DEF HoldInv, Transfer, Table
<1>7. CASE PktContinue \/ \E c \in Clients : PktRecv(c)
  <2>1. /\ UNCHANGED <<acall, afd, acur, ahost, abuf>>
        /\ \/ apc' = apc
           \/ apc = "accept-wait" /\ apc' = "accept-lock"
           \/ apc = "recv-wait" /\ apc' = "recv-lock"
        /\ \A s \in Streams : InUse(s) /\ status[s] = "CLOSE_WAIT" => status'[s] = "CLOSE_WAIT"
    BY <1>7, PacketUse
  <2>2. \A s \in Streams : InUse(s) => InUse(s)' /\ fd'[s] = fd[s]
    BY <1>7, PacketUse DEF InUse
  <2>3. \A s \in Table' : InUse(s)' /\ fd'[s] = afd => InUse(s) /\ s \in Table /\ fd[s] = afd
    BY <1>7, PacketUse DEF InUse
  <2>4. \A s : InUse(s) => s \in Streams
    BY DEF InUse
  <2> QED BY <2>1, <2>2, <2>3, <2>4 DEF HoldInv, Transfer
<1>8. CASE \/ PktOut \/ UNCHANGED vars
           \/ \E c \in Clients : Client(c) \/ WireLose(c) \/ WireDuplicate(c)
  <2>1. UNCHANGED <<tcb_set, status, fd, apc, acall, afd, acur, ahost, abuf>>
    BY <1>8, OutsideStep
  <2> QED BY <2>1, SameUse DEF HoldInv, InUse, Table
<1> QED BY <1>1, <1>2, <1>3, <1>4, <1>5, <1>6, <1>7, <1>8 DEF Next, App

\* Accepting gives out a descriptor of no stream in use; closing returns one.
LEMMA StepFdInv ==
    ASSUME IInv, FieldInv, HoldInv, HandlerInv, FdInv, [Next]_vars
    PROVE  FdInv'
<1> USE TableFacts DEF tableVars, seqVars, bufVars, callVars, cursorVars, hostVars,
        localVars, appVars, pktVars, clientVars, wireVars, envVars, stackVars
<1>1. CASE AcceptAssign
  <2>1. /\ UNCHANGED <<tcb_set, status>> /\ apc = "accept-assign"
        /\ \/ UNCHANGED <<fd, fd_table>>
           \/ /\ FreeFds # {} /\ fd' = [fd EXCEPT ![acur] = LowestFd]
              /\ fd_table' = fd_table \cup {LowestFd}
    BY <1>1 DEF AcceptAssign
  <2>2. InUse(acur) /\ acur \in Streams
    BY <2>1 DEF HoldInv, InUse
  <2>3. FreeFds # {} => LowestFd \in Nat /\ LowestFd \notin fd_table
    BY LowestFdFree, UstackAssumption DEF FreeFds
  <2>4. \A s : InUse(s)' <=> InUse(s)
    BY <2>1, SameUse
  <2>5. Table' = Table
    BY <2>1 DEF Table
  <2>6. CASE UNCHANGED <<fd, fd_table>>
    BY <2>4, <2>5, <2>6 DEF FdInv
  <2>7. CASE /\ FreeFds # {} /\ fd' = [fd EXCEPT ![acur] = LowestFd]
             /\ fd_table' = fd_table \cup {LowestFd}
    <3>1. LowestFd # -1 /\ \A s \in Table : InUse(s) => fd[s] # LowestFd
      BY <2>3, <2>7 DEF FdInv
    <3>2. fd'[acur] = LowestFd /\ \A s \in Streams : s # acur => fd'[s] = fd[s]
      BY <2>2, <2>7
    <3> QED BY <2>2, <2>4, <2>5, <2>7, <3>1, <3>2 DEF FdInv, InUse
  <2> QED BY <2>1, <2>6, <2>7
<1>2. CASE CloseStatus
  <2>1. /\ status' = [status EXCEPT ![ahost] = "LAST_ACK"]
        /\ apc = "close-status" /\ UNCHANGED <<tcb_set, fd, fd_table>>
    BY <1>2 DEF CloseStatus
  <2>2. fd[ahost] = afd
    BY <2>1 DEF HoldInv, Transfer
  <2>3. \A s : InUse(s)' => InUse(s)
    BY <2>1 DEF InUse, Table
  <2>4. \A s : InUse(s) /\ s # ahost => InUse(s)'
    BY <2>1 DEF InUse, Table
  <2>5. Table' = Table
    BY <2>1 DEF Table
  <2> QED BY <2>1, <2>2, <2>3, <2>4, <2>5 DEF FdInv
<1>3. CASE CloseFd
  <2>1. UNCHANGED <<tcb_set, status, fd>> /\ fd_table' = fd_table \ {afd} /\ apc = "close-fd"
    BY <1>3 DEF CloseFd
  <2>2. \A s : InUse(s)' <=> InUse(s)
    BY <2>1, SameUse
  <2> QED BY <2>1, <2>2 DEF FdInv, HoldInv, Table
<1>4. CASE PktContinue \/ \E c \in Clients : PktRecv(c)
  <2>1. fd_table' = fd_table
    BY <1>4, PacketUse
  <2>2. CASE /\ \A s \in Streams : InUse(s)' <=> InUse(s)
             /\ \A s \in Streams : fd'[s] = fd[s] \/ (s \notin Table /\ fd'[s] = 0)
             /\ Table' \subseteq Table
    <3>1. \A s \in Streams : (fd'[s] = -1 => fd[s] = -1) /\ (s \in Table => fd'[s] = fd[s])
      BY <2>2
    <3> QED BY <2>1, <2>2, <3>1 DEF FdInv, InUse
  <2>3. CASE \E s \in Streams \ Table :
                    /\ fd' = [fd EXCEPT ![s] = -1]
                    /\ \A t \in Streams : InUse(t)' <=> InUse(t) \/ t = s
                    /\ Table' = Table \cup {s}
    BY <2>1, <2>3 DEF FdInv, InUse
  <2> QED BY <1>4, <2>2, <2>3, PacketUse
<1>5. CASE \/ \E f \in Fds \cup {ListenFd} : AppEvent(f)
           \/ AppFindNext \/ AppFound \/ AppNotFound \/ AcceptLock \/ AcceptScan
           \/ RecvLock \/ RecvEmpty \/ RecvWait \/ RecvTake \/ RecvRequeue \/ RecvDone
           \/ SendBuild \/ SendEnqueue \/ CloseBuild \/ CloseFin
           \/ PktOut \/ UNCHANGED vars
           \/ \E c \in Clients : Client(c) \/ WireLose(c) \/ WireDuplicate(c)
  <2>1. UNCHANGED <<tcb_set, status, fd, fd_table>>
    BY <1>5, OutsideStep DEF AppEvent, AppFindNext, AppFound, AppNotFound, AcceptLock,
          AcceptScan, RecvLock, RecvEmpty, RecvWait, RecvTake, RecvRequeue, RecvDone,
          SendBuild, SendEnqueue, CloseBuild, CloseFin
  <2> QED BY <2>1 DEF FdInv, InUse, Table
<1> QED BY <1>1, <1>2, <1>3, <1>4, <1>5 DEF Next, App

\* The application changes the status of a stream under a handler only to LAST_ACK.
LEMMA StepHandlerInv ==
    ASSUME IInv, FieldInv, PayloadInv, HoldInv, HandlerInv, FdInv, [Next]_vars
    PROVE  HandlerInv'
<1> USE TableFacts DEF tableVars, seqVars, bufVars, callVars, cursorVars, hostVars,
        localVars, appVars, pktVars, clientVars, wireVars, envVars, stackVars
<1> DEFINE Data == Seq(Nat) \ {<<>>}
<1>1. CASE RecvTake
  <2>1. /\ UNCHANGED <<status, ppc, pstream>> /\ rcvbuf[ahost] # <<>> /\ apc = "recv-take"
        /\ rcvbuf' = [rcvbuf EXCEPT ![ahost] = Tail(@)]
    BY <1>1 DEF RecvTake
  <2>2. ahost \in Streams
    BY <2>1 DEF HoldInv, Transfer, InUse
  <2>3. status[ahost] \notin PeerClosed => Tail(rcvbuf[ahost]) \in Seq(Data)
    BY <2>1, <2>2 DEF HandlerInv
  <2> QED BY <2>1, <2>2, <2>3 DEF HandlerInv
<1>2. CASE RecvRequeue
  <2>1. /\ UNCHANGED <<status, ppc, pstream>> /\ apc = "recv-requeue"
        /\ rcvbuf' = [rcvbuf EXCEPT ![ahost] = Append(@, Remainder(abuf))]
    BY <1>2 DEF RecvRequeue
  <2>2. ahost \in Streams
    BY <2>1 DEF HoldInv, Transfer, InUse
  <2>3. Remainder(abuf) \in Data
    <3>1. abuf \in Seq(Nat) /\ Len(abuf) > BufLen /\ BufLen \in Nat
      BY <2>1, UstackAssumption DEF PayloadInv, IInv, TypeOK, AppOK
    <3>2. Len(Remainder(abuf)) = Len(abuf) - BufLen /\ Remainder(abuf) \in Seq(Nat)
      BY <3>1, ReturnedType DEF Remainder
    <3> QED BY <3>1, <3>2
  <2>4. status[ahost] \notin PeerClosed => Append(rcvbuf[ahost], Remainder(abuf)) \in Seq(Data)
    BY <2>2, <2>3 DEF HandlerInv
  <2> QED BY <2>1, <2>2, <2>4 DEF HandlerInv
<1>3. CASE CloseStatus
  <2>1. /\ status' = [status EXCEPT ![ahost] = "LAST_ACK"] /\ apc = "close-status"
        /\ UNCHANGED <<rcvbuf, ppc, pstream>>
    BY <1>3 DEF CloseStatus
  <2>2. status[ahost] = "CLOSE_WAIT" /\ ahost \in Streams
    BY <2>1 DEF HoldInv, InUse
  <2> QED BY <2>1, <2>2 DEF HandlerInv, DataPath, PeerClosed
<1>4. CASE \/ \E f \in Fds \cup {ListenFd} : AppEvent(f)
           \/ AppFindNext \/ AppFound \/ AppNotFound \/ AcceptLock \/ AcceptScan
           \/ AcceptAssign \/ RecvLock \/ RecvEmpty \/ RecvWait \/ RecvDone
           \/ SendBuild \/ SendEnqueue \/ CloseBuild \/ CloseFin \/ CloseFd
           \/ PktOut \/ UNCHANGED vars
           \/ \E c \in Clients : Client(c) \/ WireLose(c) \/ WireDuplicate(c)
  <2>1. UNCHANGED <<status, rcvbuf, ppc, pstream>>
    BY <1>4, OutsideStep DEF AppEvent, AppFindNext, AppFound, AppNotFound, AcceptLock,
          AcceptScan, AcceptAssign, RecvLock, RecvEmpty, RecvWait, RecvDone, SendBuild,
          SendEnqueue, CloseBuild, CloseFin, CloseFd, Enqueue
  <2> QED BY <2>1 DEF HandlerInv
<1>5. ASSUME NEW c \in Clients, NEW s \in Streams \cup {NULL},
             PktIgnore(c, s) \/ PktSynRcvd(c, s) \/ PktEstablished(c, s) \/ PktLastAck(c, s)
      PROVE  HandlerInv'
  <2>1. /\ rcvbuf' = rcvbuf /\ ppc = "idle"
        /\ \/ ppc' = "idle" /\ status' = status
           \/ /\ ppc' = "accept" /\ s \in Streams /\ status[s] = "SYN_RCVD"
              /\ status' = [status EXCEPT ![s] = "ESTABLISHED"]
           \/ /\ ppc' \in {"enqueue", "fin"} /\ status' = status
              /\ pstream' = s /\ status[s] = "ESTABLISHED"
           \/ /\ ppc' = "free" /\ s \in Streams /\ pstream' = s
              /\ status' = [status EXCEPT ![s] = "CLOSED"]
    BY <1>5 DEF PktIgnore, PktSynRcvd, PktEstablished, PktLastAck, Process, Ignored
  <2> QED BY <2>1 DEF HandlerInv, DataPath, PeerClosed
<1>6. ASSUME NEW c \in Clients, NEW s \in Streams \cup {NULL}, PktListen(c, s)
      PROVE  HandlerInv'
  <2>1. PICK syn \in Streams :
          /\ status[syn] = "FREE" /\ status' = [status EXCEPT ![syn] = "LISTEN"]
          /\ pstream' = syn
    BY <1>6 DEF PktListen
  <2>2. rcvbuf' = rcvbuf /\ ppc' = "synack"
    BY <1>6 DEF PktListen
  <2> QED BY <2>1, <2>2 DEF HandlerInv, DataPath, PeerClosed
<1>7. CASE PktSynAck \/ PktFin
  <2>1. /\ UNCHANGED <<rcvbuf, pstream>> /\ pstream \in Streams
        /\ \/ /\ ppc' = "idle" /\ status[pstream] = "LISTEN"
              /\ status' = [status EXCEPT ![pstream] = "SYN_RCVD"]
           \/ ppc' = "fin-enqueue" /\ status' = [status EXCEPT ![pstream] = "CLOSE_WAIT"]
    BY <1>7 DEF PktSynAck, PktFin, HandlerInv, IInv, PktInv
  <2> QED BY <2>1 DEF HandlerInv, DataPath, PeerClosed
<1>8. CASE PktEnqueue
  <2>1. /\ UNCHANGED <<status, pstream>> /\ pstream \in Streams
        /\ \/ /\ ppc = "enqueue" /\ ppc' = "signal"
              /\ rcvbuf' = [rcvbuf EXCEPT ![pstream] = Append(@, pseg.data)]
           \/ /\ ppc = "fin-enqueue" /\ ppc' = "fin-signal"
              /\ rcvbuf' = [rcvbuf EXCEPT ![pstream] = Append(@, <<>>)]
    BY <1>8 DEF PktEnqueue, IInv, PktInv
  <2>2. CASE ppc = "enqueue"
    <3>1. pseg.data \in Data
      BY <2>2 DEF PayloadInv, IInv, TypeOK, PktOK, Segments
    <3>2. /\ rcvbuf' = [rcvbuf EXCEPT ![pstream] = Append(@, pseg.data)]
          /\ ppc' = "signal" /\ status[pstream] = "ESTABLISHED"
      BY <2>1, <2>2 DEF HandlerInv, DataPath
    <3>3. rcvbuf[pstream] \in Seq(Data)
      BY <2>1, <3>2 DEF HandlerInv, PeerClosed
    <3>4. Append(rcvbuf[pstream], pseg.data) \in Seq(Data)
      BY <3>1, <3>3
    <3> QED BY <2>1, <3>2, <3>4 DEF HandlerInv, DataPath
  <2>3. CASE ppc = "fin-enqueue"
    BY <2>1, <2>3 DEF HandlerInv, DataPath
  <2> QED BY <2>1, <2>2, <2>3
<1>9. CASE PktFree
  <2>1. /\ rcvbuf' = [rcvbuf EXCEPT ![pstream] = <<>>] /\ ppc' = "idle"
        /\ status' = [status EXCEPT ![pstream] = "FREE"] /\ pstream \in Streams
    BY <1>9 DEF PktFree, IInv, PktInv
  <2>2. <<>> \in Seq(Data)
    OBVIOUS
  <2> QED BY <2>1, <2>2 DEF HandlerInv, DataPath
<1>10. CASE PktAccept \/ PktSignal \/ PktCount \/ PktAck
  <2>1. /\ UNCHANGED <<status, rcvbuf, pstream>>
        /\ ppc' \in DataPath => ppc \in DataPath
        /\ ppc' \notin {"synack", "fin-enqueue", "free"}
    BY <1>10 DEF PktAccept, PktSignal, PktCount, PktAck, Enqueue, DataPath
  <2> QED BY <2>1 DEF HandlerInv
<1> QED BY <1>1, <1>2, <1>3, <1>4, <1>5, <1>6, <1>7, <1>8, <1>9, <1>10
           DEF Next, App, PktContinue, PktRecv

\* A lookup that went astray stays on record.
LEMMA StrayStays == ASSUME [Next]_vars, stray PROVE stray'
<1> USE DEF tableVars, seqVars, bufVars, callVars, cursorVars, hostVars, localVars,
            appVars, pktVars, clientVars, wireVars, envVars, stackVars
<1>1. CASE App
  BY <1>1 DEF App, AppEvent, AppFindNext, AppFound, AppNotFound, AcceptLock, AcceptScan,
              AcceptAssign, RecvLock, RecvEmpty, RecvWait, RecvTake, RecvRequeue,
              RecvDone, SendBuild, SendEnqueue, CloseBuild, CloseFin, CloseStatus, CloseFd
<1>2. CASE PktContinue
  BY <1>2 DEF PktContinue, PktSynAck, PktAccept, PktFin, PktEnqueue, PktSignal,
              PktCount, PktAck, PktFree, Signal
<1>3. ASSUME NEW c \in Clients, PktRecv(c) PROVE stray'
  BY <1>3 DEF PktRecv, PktIgnore, PktListen, PktSynRcvd, PktEstablished, PktLastAck,
              Process
<1>4. CASE \/ PktOut \/ UNCHANGED vars
           \/ \E c \in Clients : Client(c) \/ WireLose(c) \/ WireDuplicate(c)
  BY <1>4, OutsideStep
<1> QED BY <1>1, <1>2, <1>3, <1>4 DEF Next

\* The calls of the application up to the first lookup that goes astray.
LEMMA UseInvariant == Spec => []UseInv /\ []FieldInv
<1>1. Init => PayloadInv /\ UseInv
  <2> SUFFICES ASSUME Init PROVE PayloadInv /\ UseInv
    OBVIOUS
  <2>1. PayloadInv
    BY DEF Init, PayloadInv
  <2>2. Table = {Listener} /\ InUse(Listener)
    <3>1. tcb_set = <<Listener>> /\ status[Listener] = "LISTEN"
      BY UstackAssumption DEF Init
    <3>2. Table = {Listener}
      BY <3>1 DEF Table, Members
    <3> QED BY <3>1, <3>2 DEF InUse
  <2>3. HoldInv /\ HandlerInv
    BY DEF Init, HoldInv, HandlerInv, Transfer, DataPath
  <2>4. FdInv
    BY <2>2, UstackAssumption DEF Init, FdInv
  <2> QED BY <2>1, <2>3, <2>4 DEF UseInv
<1>2. IInv /\ FieldInv /\ PayloadInv /\ UseInv /\ [Next]_vars => PayloadInv' /\ UseInv'
  BY StepPayloadInv, StrayStays, StepHoldInv, StepHandlerInv, StepFdInv DEF UseInv
<1>3. Spec => []FieldInv
  <2>1. ScanInv => FieldInv
    BY DEF ScanInv
  <2> QED BY <2>1, ScanInvariant, PTL
<1> QED BY <1>1, <1>2, <1>3, Invariant, PTL DEF Spec

\* get_fd_frombitmap hands out no descriptor that a stream in use still has.
THEOREM DescriptorNamesOne == Spec => []FdNamesOne
<1>1. UseInv => FdNamesOne
  <2> SUFFICES ASSUME UseInv, ~stray PROVE FdNamesOne
    BY DEF FdNamesOne
  <2>1. FdInv
    BY DEF UseInv
  <2> QED BY <2>1 DEF FdInv, FdNamesOne, InUse
<1> QED BY <1>1, UseInvariant, PTL

\* No call works on a stream the packet lcore has given back: a stream in use leaves
\* the table only through LAST_ACK, which nclose sets last.
THEOREM FoundStreamIsLive == Spec => []FoundStreamLive
<1>1. IInv /\ UseInv => FoundStreamLive
  <2> SUFFICES ASSUME IInv, UseInv, ~stray PROVE FoundStreamLive
    BY DEF FoundStreamLive
  <2>1. HoldInv /\ Table \subseteq Streams
    BY TableFacts DEF UseInv
  <2>2. \A s : InUse(s) => status[s] # "FREE"
    BY <2>1 DEF InUse, IInv, TableInv
  <2> QED BY <2>1, <2>2 DEF HoldInv, FoundStreamLive, Transfer
<1> QED BY <1>1, Invariant, UseInvariant, PTL
-----------------------------------------------------------------------------
\* Whether s is the stream of client c; whether the application holds it.
IsStream(c, s) == s \in Table /\ peer[s] = c
Held(c) == HasStream(c) /\ fd[StreamOf(c)] # -1

\* The connection of a client is read off its only stream.
LEMMA ConnectionOf ==
    ASSUME TableInv, NEW c, NEW s, IsStream(c, s)
    PROVE  /\ HasStream(c) /\ StreamOf(c) = s /\ (Held(c) <=> fd[s] # -1)
           /\ status[s] \in {"LISTEN", "SYN_RCVD"} => ConnState(c) = "half"
           /\ status[s] = "ESTABLISHED" => ConnState(c) = "open"
           /\ status[s] = "CLOSE_WAIT" => ConnState(c) = "peer_closed"
           /\ status[s] = "LAST_ACK" => ConnState(c) = "closing"
<1>1. HasStream(c)
  BY DEF IsStream, HasStream
<1>2. StreamOf(c) = s
  BY DEF IsStream, StreamOf, TableInv
<1> QED BY <1>1, <1>2 DEF Held, ConnState

\* A client without a stream has no connection.
LEMMA NoConnection ==
    ASSUME NEW c, \A s : ~IsStream(c, s)
    PROVE  ~HasStream(c) /\ ~Held(c) /\ ConnState(c) = "none"
BY DEF IsStream, HasStream, Held, ConnState

\* A step that leaves the stream of a client as it is leaves its connection so.
LEMMA SameConnection ==
    ASSUME TableInv, TableInv', NEW c,
           \A s : IsStream(c, s)' <=> IsStream(c, s),
           \A s : IsStream(c, s) => status'[s] = status[s] /\ fd'[s] = fd[s]
    PROVE  ConnState(c)' = ConnState(c) /\ (Held(c)' <=> Held(c))
<1>1. CASE \E s : IsStream(c, s)
  <2>1. PICK s : IsStream(c, s)
    BY <1>1
  <2>2. HasStream(c) /\ StreamOf(c) = s
    BY <2>1, ConnectionOf
  <2>3. IsStream(c, s)'
    BY <2>1
  <2>4. HasStream(c)'
    BY <2>3 DEF IsStream, HasStream
  <2>5. StreamOf(c)' = s
    BY <2>3 DEF IsStream, StreamOf, TableInv
  <2> QED BY <2>1, <2>2, <2>4, <2>5 DEF Held, ConnState
<1>2. CASE \A s : ~IsStream(c, s)
  BY <1>2 DEF IsStream, HasStream, Held, ConnState
<1> QED BY <1>1, <1>2

\* What the lifecycle of each client sees.
Connections == [c \in Clients |-> ConnState(c)]
HeldClients == {c \in Clients : HasStream(c) /\ fd[StreamOf(c)] # -1}

\* The connection of client c goes from one state to another.
Moves(c, from, to) ==
    Connections[c] = from /\ Connections' = [Connections EXCEPT ![c] = to]

\* The actions of the lifecycle, in those terms.
LEMMA LifecycleActions ==
    ASSUME NEW c \in Clients
    PROVE  /\ Lifecycle!Open(c) <=> Moves(c, "none", "half") /\ UNCHANGED HeldClients
           /\ Lifecycle!Establish(c) <=> Moves(c, "half", "open") /\ UNCHANGED HeldClients
           /\ Lifecycle!PeerClose(c) <=>
                 Moves(c, "open", "peer_closed") /\ UNCHANGED HeldClients
           /\ Lifecycle!Accept(c) <=>
                 /\ Connections[c] # "none" /\ c \notin HeldClients
                 /\ HeldClients' = HeldClients \cup {c} /\ UNCHANGED Connections
           /\ Lifecycle!Close(c) <=>
                 /\ c \in HeldClients
                 /\ Moves(c, "peer_closed", "closing") /\ UNCHANGED HeldClients
           /\ Lifecycle!Remove(c) <=>
                 Moves(c, "closing", "none") /\ HeldClients' = HeldClients \ {c}
BY DEF Moves, Connections, HeldClients, Lifecycle!Move, Lifecycle!Open,
       Lifecycle!Establish, Lifecycle!PeerClose, Lifecycle!Accept, Lifecycle!Close,
       Lifecycle!Remove

\* A step that changes the connection of client c, or its holding, and nothing else.
OnlyOf(c) == \A d \in Clients \ {c} : ConnState(d)' = ConnState(d) /\ (Held(d)' <=> Held(d))
\* The two functions after such a step.
LEMMA OneConnection ==
    ASSUME NEW c \in Clients, OnlyOf(c)
    PROVE  /\ Connections' = [Connections EXCEPT ![c] = ConnState(c)']
           /\ Connections[c] = ConnState(c)
           /\ c \in HeldClients <=> Held(c)
           /\ HeldClients' = IF Held(c)' THEN HeldClients \cup {c} ELSE HeldClients \ {c}
<1>1. \A d \in Clients : (d \in HeldClients <=> Held(d)) /\ (d \in HeldClients' <=> Held(d)')
  BY DEF HeldClients, Held
<1>2. HeldClients \subseteq Clients /\ HeldClients' \subseteq Clients
  BY DEF HeldClients
<1>3. HeldClients' = IF Held(c)' THEN HeldClients \cup {c} ELSE HeldClients \ {c}
  BY <1>1, <1>2 DEF OnlyOf
<1>4. Connections' = [Connections EXCEPT ![c] = ConnState(c)']
  BY DEF Connections, OnlyOf
<1> QED BY <1>1, <1>3, <1>4 DEF Connections

\* Such a step is one of the lifecycle.
LEMMA LifecycleOf ==
    ASSUME NEW c \in Clients, OnlyOf(c)
    PROVE  /\ ConnState(c) = "none" /\ ConnState(c)' = "half" /\ (Held(c)' <=> Held(c)) =>
                 Lifecycle!Open(c)
           /\ ConnState(c) = "half" /\ ConnState(c)' = "open" /\ (Held(c)' <=> Held(c)) =>
                 Lifecycle!Establish(c)
           /\ ConnState(c) = "open" /\ ConnState(c)' = "peer_closed"
              /\ (Held(c)' <=> Held(c)) =>
                 Lifecycle!PeerClose(c)
           /\ ConnState(c) # "none" /\ ConnState(c)' = ConnState(c) /\ ~Held(c) /\ Held(c)' =>
                 Lifecycle!Accept(c)
           /\ ConnState(c) = "peer_closed" /\ ConnState(c)' = "closing"
              /\ Held(c) /\ Held(c)' =>
                 Lifecycle!Close(c)
           /\ ConnState(c) = "closing" /\ ConnState(c)' = "none" /\ ~Held(c)' =>
                 Lifecycle!Remove(c)
           /\ ConnState(c)' = ConnState(c) /\ (Held(c)' <=> Held(c)) =>
                 UNCHANGED <<Connections, HeldClients>>
<1>1. /\ Connections' = [Connections EXCEPT ![c] = ConnState(c)']
      /\ Connections[c] = ConnState(c)
      /\ c \in HeldClients <=> Held(c)
      /\ HeldClients' = IF Held(c)' THEN HeldClients \cup {c} ELSE HeldClients \ {c}
  BY OneConnection
<1>2. (Held(c)' <=> Held(c)) => UNCHANGED HeldClients
  BY <1>1
<1>3. ConnState(c)' = ConnState(c) => UNCHANGED Connections
  BY <1>1 DEF Connections
<1> QED BY <1>1, <1>2, <1>3, LifecycleActions DEF Moves

\* The same of a step in which only stream s, of client c, changes.
LEMMA OnlyOneStream ==
    ASSUME IInv, IInv', NEW c \in Clients, NEW s \in Streams,
           s \in Table => peer[s] = c, s \in Table' => peer'[s] = c,
           \A t \in Streams \ {s} : /\ t \in Table' <=> t \in Table
                                    /\ t \in Table => peer'[t] = peer[t]
                                    /\ status'[t] = status[t] /\ fd'[t] = fd[t]
    PROVE  OnlyOf(c)
<1>1. Table \subseteq Streams /\ TableInv /\ Table' \subseteq Streams /\ TableInv'
  BY DEF IInv, TypeOK, TableOK, Table, Members
<1> SUFFICES ASSUME NEW d \in Clients \ {c}
             PROVE  ConnState(d)' = ConnState(d) /\ (Held(d)' <=> Held(d))
  BY DEF OnlyOf
<1>2. \A t : IsStream(d, t)' <=> IsStream(d, t)
  BY <1>1 DEF IsStream
<1>3. \A t : IsStream(d, t) => status'[t] = status[t] /\ fd'[t] = fd[t]
  BY <1>1 DEF IsStream
<1> QED BY <1>1, <1>2, <1>3, SameConnection

\* A step that leaves every connection as it is.
LEMMA NoneChanges ==
    ASSUME IInv, IInv',
           \A t \in Streams : /\ t \in Table' <=> t \in Table
                              /\ t \in Table => /\ peer'[t] = peer[t]
                                                /\ status'[t] = status[t] /\ fd'[t] = fd[t]
    PROVE  UNCHANGED <<Connections, HeldClients>>
<1>1. Table \subseteq Streams /\ TableInv /\ Table' \subseteq Streams /\ TableInv'
  BY DEF IInv, TypeOK, TableOK, Table, Members
<1>2. ASSUME NEW d \in Clients
      PROVE  ConnState(d)' = ConnState(d) /\ (Held(d)' <=> Held(d))
  <2>1. \A t : IsStream(d, t)' <=> IsStream(d, t)
    BY <1>1 DEF IsStream
  <2>2. \A t : IsStream(d, t) => status'[t] = status[t] /\ fd'[t] = fd[t]
    BY <1>1 DEF IsStream
  <2> QED BY <1>1, <2>1, <2>2, SameConnection
<1> QED BY <1>2 DEF Connections, HeldClients, Held

\* Each step of the stack is a step of the life of one connection, or of none.
LEMMA LifecycleStep ==
    ASSUME IInv, UseInv, ~stray, [Next]_vars
    PROVE  [Lifecycle!Next]_(Lifecycle!vars)
<1> USE TableFacts DEF tableVars, seqVars, bufVars, callVars, cursorVars, hostVars,
        localVars, appVars, pktVars, clientVars, wireVars, envVars, stackVars
<1>1. IInv' /\ TableInv /\ TableInv'
  BY StepIInv DEF IInv
<1>2. HoldInv /\ HandlerInv /\ FdInv
  BY DEF UseInv
<1>3. UNCHANGED <<Connections, HeldClients>> => UNCHANGED Lifecycle!vars
  BY DEF Lifecycle!vars, Connections, HeldClients
<1>4. ASSUME NEW c \in Clients, NEW s \in Streams \cup {NULL}, PktListen(c, s)
      PROVE  Lifecycle!Open(c)
  <2>1. PICK syn \in Streams :
          /\ status[syn] = "FREE" /\ tcb_set' = Insert(syn, tcb_set)
          /\ status' = [status EXCEPT ![syn] = "LISTEN"]
          /\ fd' = [fd EXCEPT ![syn] = -1] /\ peer' = [peer EXCEPT ![syn] = c]
    BY <1>4 DEF PktListen
  <2>2. syn \notin Table /\ Table' = Table \cup {syn} /\ peer'[syn] = c
    <3>1. peer \in [Streams -> Clients \cup {NULL}]
      BY DEF IInv, TypeOK, TableOK
    <3> QED BY <1>1, <2>1, <3>1, InsertItems DEF Table, TableInv
  <2>3. \A t : ~IsStream(c, t)
    <3>1. s = Search(c) /\ s # NULL /\ status[s] = "LISTEN" /\ ppc = "idle"
      BY <1>4 DEF PktListen, Process, Ignored
    <3>2. s = Listener /\ peer[s] # c
      BY <1>1, <3>1, UstackAssumption DEF TableInv
    <3> QED BY <3>1, <3>2, SearchFinds DEF IsStream
  <2>4. OnlyOf(c)
    BY <1>1, <2>1, <2>2, OnlyOneStream
  <2>5. ConnState(c) = "none" /\ ~Held(c)
    BY <2>3, NoConnection
  <2>6. ConnState(c)' = "half" /\ ~Held(c)'
    <3>1. IsStream(c, syn)' /\ status'[syn] = "LISTEN" /\ fd'[syn] = -1
      BY <2>1, <2>2 DEF IsStream
    <3>2. HasStream(c)' /\ StreamOf(c)' = syn
      BY <1>1, <3>1 DEF IsStream, HasStream, StreamOf, TableInv
    <3> QED BY <3>1, <3>2 DEF ConnState, Held
  <2> QED BY <2>4, <2>5, <2>6, LifecycleOf
<1>5. ASSUME NEW c \in Clients, NEW s \in Streams \cup {NULL}, PktSynRcvd(c, s)
      PROVE  Lifecycle!Establish(c)
  <2>1. /\ s = Search(c) /\ s \in Streams /\ status[s] = "SYN_RCVD"
        /\ status' = [status EXCEPT ![s] = "ESTABLISHED"] /\ UNCHANGED <<tcb_set, peer, fd>>
    BY <1>5 DEF PktSynRcvd, Process, Ignored
  <2>2. IsStream(c, s) /\ Table' = Table
    BY <2>1, SearchFinds DEF IsStream, Table
  <2>3. OnlyOf(c)
    BY <1>1, <2>1, <2>2, OnlyOneStream DEF IsStream
  <2>4. ConnState(c) = "half" /\ (Held(c) <=> fd[s] # -1)
    BY <1>1, <2>1, <2>2, ConnectionOf
  <2>5. ConnState(c)' = "open" /\ (Held(c)' <=> fd'[s] # -1)
    <3>1. HasStream(c)' /\ StreamOf(c)' = s
      BY <1>1, <2>1, <2>2 DEF IsStream, HasStream, StreamOf, TableInv
    <3> QED BY <2>1, <3>1 DEF ConnState, Held
  <2> QED BY <2>1, <2>3, <2>4, <2>5, LifecycleOf
<1>6. ASSUME PktFin PROVE \E c \in Clients : Lifecycle!PeerClose(c)
  <2>1. /\ pstream \in Table \ {Listener} /\ status[pstream] = "ESTABLISHED"
        /\ status' = [status EXCEPT ![pstream] = "CLOSE_WAIT"]
        /\ UNCHANGED <<tcb_set, peer, fd>>
    BY <1>2, <1>6 DEF PktFin, HandlerInv, DataPath, IInv, PktInv
  <2>2. PICK c \in Clients, s \in Streams : s = pstream /\ IsStream(c, s) /\ Table' = Table
    BY <1>1, <2>1 DEF IsStream, TableInv, Table
  <2>3. OnlyOf(c)
    BY <1>1, <2>1, <2>2, OnlyOneStream DEF IsStream
  <2>4. ConnState(c) = "open" /\ (Held(c) <=> fd[s] # -1)
    BY <1>1, <2>1, <2>2, ConnectionOf
  <2>5. ConnState(c)' = "peer_closed" /\ (Held(c)' <=> fd'[s] # -1)
    <3>1. HasStream(c)' /\ StreamOf(c)' = s
      BY <1>1, <2>1, <2>2 DEF IsStream, HasStream, StreamOf, TableInv
    <3> QED BY <2>1, <2>2, <3>1 DEF ConnState, Held
  <2>6. Lifecycle!PeerClose(c)
    BY <2>1, <2>2, <2>3, <2>4, <2>5, LifecycleOf
  <2> QED BY <2>2, <2>6
<1>7. ASSUME AcceptAssign
      PROVE  \/ \E c \in Clients : Lifecycle!Accept(c)
             \/ UNCHANGED <<Connections, HeldClients>>
  <2>1. /\ apc = "accept-assign" /\ UNCHANGED <<tcb_set, status, peer>>
        /\ \/ UNCHANGED fd
           \/ FreeFds # {} /\ fd' = [fd EXCEPT ![acur] = LowestFd]
    BY <1>7 DEF AcceptAssign
  <2>2. InUse(acur) /\ fd[acur] = -1 /\ acur \in Streams \ {Listener} /\ Table' = Table
    BY <1>2, <2>1 DEF HoldInv, IInv, PlaceInv, Table
  <2>3. CASE UNCHANGED fd
    BY <1>1, <2>1, <2>2, <2>3, NoneChanges
  <2>4. CASE FreeFds # {} /\ fd' = [fd EXCEPT ![acur] = LowestFd]
    <3>1. PICK c \in Clients, s \in Streams : s = acur /\ IsStream(c, s)
      BY <1>1, <2>2 DEF IsStream, TableInv, InUse
    <3>2. fd'[s] = LowestFd /\ LowestFd # -1
      BY <2>2, <2>4, <3>1, LowestFdFree, UstackAssumption DEF FreeFds
    <3>3. OnlyOf(c)
      BY <1>1, <2>1, <2>2, <2>4, <3>1, OnlyOneStream DEF IsStream
    <3>4. StreamOf(c) = s /\ HasStream(c) /\ ~Held(c)
      BY <1>1, <2>2, <3>1, ConnectionOf
    <3>5. HasStream(c)' /\ StreamOf(c)' = s
      BY <1>1, <2>1, <2>2, <3>1 DEF IsStream, HasStream, StreamOf, TableInv
    <3>6. ConnState(c)' = ConnState(c) /\ Held(c)'
      BY <2>1, <3>2, <3>4, <3>5 DEF ConnState, Held
    <3>7. ConnState(c) # "none"
      <4>1. status[s] \notin {"FREE", "LAST_ACK", "CLOSED"}
        BY <1>1, <2>2, <3>1 DEF InUse, TableInv
      <4>2. status[s] \in {"LISTEN", "SYN_RCVD", "ESTABLISHED", "CLOSE_WAIT"}
        BY <2>2, <4>1 DEF Statuses
      <4> QED BY <1>1, <3>1, <4>2, ConnectionOf
    <3>8. Lifecycle!Accept(c)
      BY <3>3, <3>4, <3>6, <3>7, LifecycleOf
    <3> QED BY <3>8
  <2> QED BY <2>1, <2>3, <2>4
<1>8. ASSUME CloseStatus PROVE \E c \in Clients : Lifecycle!Close(c)
  <2>1. /\ apc = "close-status" /\ UNCHANGED <<tcb_set, fd, peer>>
        /\ status' = [status EXCEPT ![ahost] = "LAST_ACK"]
    BY <1>8 DEF CloseStatus
  <2>2. /\ InUse(ahost) /\ fd[ahost] = afd /\ status[ahost] = "CLOSE_WAIT"
        /\ ahost \in Streams \ {Listener} /\ Table' = Table
    BY <1>2, <2>1 DEF HoldInv, IInv, PlaceInv, Transfer, Table
  <2>3. PICK c \in Clients, s \in Streams : s = ahost /\ IsStream(c, s)
    BY <1>1, <2>2 DEF IsStream, TableInv, InUse
  <2>4. OnlyOf(c)
    BY <1>1, <2>1, <2>2, <2>3, OnlyOneStream DEF IsStream
  <2>5. ConnState(c) = "peer_closed" /\ Held(c)
    BY <1>1, <2>2, <2>3, ConnectionOf
  <2>6. ConnState(c)' = "closing" /\ Held(c)'
    <3>1. HasStream(c)' /\ StreamOf(c)' = s
      BY <1>1, <2>1, <2>2, <2>3 DEF IsStream, HasStream, StreamOf, TableInv
    <3> QED BY <2>1, <2>2, <2>3, <3>1 DEF ConnState, Held
  <2>7. Lifecycle!Close(c)
    BY <2>3, <2>4, <2>5, <2>6, LifecycleOf
  <2> QED BY <2>3, <2>7
<1>9. ASSUME NEW c \in Clients, NEW s \in Streams \cup {NULL}, PktLastAck(c, s)
      PROVE  Lifecycle!Remove(c)
  <2>1. /\ s = Search(c) /\ s \in Streams /\ status[s] = "LAST_ACK"
        /\ status' = [status EXCEPT ![s] = "CLOSED"] /\ tcb_set' = Delete(s, tcb_set)
        /\ UNCHANGED <<peer, fd>>
    BY <1>9 DEF PktLastAck, Process, Ignored
  <2>2. IsStream(c, s) /\ Table' = Table \ {s}
    BY <2>1, SearchFinds, DeleteMembers DEF IsStream, Table
  <2>3. OnlyOf(c)
    BY <1>1, <2>1, <2>2, OnlyOneStream DEF IsStream
  <2>4. ConnState(c) = "closing"
    BY <1>1, <2>1, <2>2, ConnectionOf
  <2>5. ~HasStream(c)'
    BY <1>1, <2>1, <2>2 DEF IsStream, HasStream, TableInv
  <2>6. ConnState(c)' = "none" /\ ~Held(c)'
    BY <2>5 DEF ConnState, Held
  <2> QED BY <2>3, <2>4, <2>6, LifecycleOf
<1>10. ASSUME PktSynAck PROVE UNCHANGED <<Connections, HeldClients>>
  <2>1. /\ pstream \in Table \ {Listener} /\ status[pstream] = "LISTEN"
        /\ status' = [status EXCEPT ![pstream] = "SYN_RCVD"]
        /\ UNCHANGED <<tcb_set, peer, fd>>
    BY <1>2, <1>10 DEF PktSynAck, HandlerInv, IInv, PktInv
  <2>2. PICK c \in Clients, s \in Streams : s = pstream /\ IsStream(c, s) /\ Table' = Table
    BY <1>1, <2>1 DEF IsStream, TableInv, Table
  <2>3. OnlyOf(c)
    BY <1>1, <2>1, <2>2, OnlyOneStream DEF IsStream
  <2>4. ConnState(c) = "half" /\ (Held(c) <=> fd[s] # -1)
    BY <1>1, <2>1, <2>2, ConnectionOf
  <2>5. ConnState(c)' = "half" /\ (Held(c)' <=> fd'[s] # -1)
    <3>1. HasStream(c)' /\ StreamOf(c)' = s
      BY <1>1, <2>1, <2>2 DEF IsStream, HasStream, StreamOf, TableInv
    <3> QED BY <2>1, <2>2, <3>1 DEF ConnState, Held
  <2> QED BY <2>1, <2>2, <2>3, <2>4, <2>5, LifecycleOf
<1>11. ASSUME PktFree PROVE UNCHANGED <<Connections, HeldClients>>
  <2>1. /\ ppc = "free" /\ pstream \in Streams /\ UNCHANGED tcb_set
        /\ status' = [status EXCEPT ![pstream] = "FREE"]
        /\ fd' = [fd EXCEPT ![pstream] = 0] /\ peer' = [peer EXCEPT ![pstream] = NULL]
    BY <1>11 DEF PktFree, IInv, PktInv
  <2>2. pstream \notin Table /\ Table' = Table
    BY <1>1, <2>1 DEF TableInv, Table
  <2>3. peer \in [Streams -> Clients \cup {NULL}]
    BY DEF IInv, TypeOK, TableOK
  <2> QED BY <1>1, <2>1, <2>2, <2>3, NoneChanges
<1>12. ASSUME \/ \E f \in Fds \cup {ListenFd} : AppEvent(f)
              \/ AppFindNext \/ AppFound \/ AppNotFound \/ AcceptLock \/ AcceptScan
              \/ RecvLock \/ RecvEmpty \/ RecvWait \/ RecvTake \/ RecvRequeue \/ RecvDone
              \/ SendBuild \/ SendEnqueue \/ CloseBuild \/ CloseFin \/ CloseFd
              \/ PktAccept \/ PktEnqueue \/ PktSignal \/ PktCount \/ PktAck
              \/ PktOut \/ UNCHANGED vars
              \/ \E c \in Clients : Client(c) \/ WireLose(c) \/ WireDuplicate(c)
              \/ \E c \in Clients, s \in Streams \cup {NULL} :
                    PktIgnore(c, s) \/ PktEstablished(c, s)
       PROVE  UNCHANGED <<Connections, HeldClients>>
  <2>1. UNCHANGED <<tcb_set, status, fd, peer>>
    BY <1>12, OutsideStep DEF AppEvent, AppFindNext, AppFound, AppNotFound, AcceptLock,
          AcceptScan, RecvLock, RecvEmpty, RecvWait, RecvTake, RecvRequeue, RecvDone,
          SendBuild, SendEnqueue, CloseBuild, CloseFin, CloseFd, PktAccept, PktEnqueue, PktSignal,
          PktCount, PktAck, PktIgnore, PktEstablished
  <2>2. Table' = Table
    BY <2>1 DEF Table
  <2> QED BY <1>1, <2>1, <2>2, NoneChanges
<1> DEFINE Lives == \E c \in Clients :
                       \/ Lifecycle!Open(c) \/ Lifecycle!Establish(c)
                       \/ Lifecycle!PeerClose(c) \/ Lifecycle!Accept(c)
                       \/ Lifecycle!Close(c) \/ Lifecycle!Remove(c)
           Stays == UNCHANGED <<Connections, HeldClients>>
<1>13. ASSUME App PROVE Lives \/ Stays
  BY <1>7, <1>8, <1>12, <1>13 DEF App
<1>14. ASSUME PktContinue PROVE Lives \/ Stays
  BY <1>6, <1>10, <1>11, <1>12, <1>14 DEF PktContinue
<1>15. ASSUME NEW c \in Clients, PktRecv(c) PROVE Lives \/ Stays
  <2>1. PICK s \in Streams \cup {NULL} :
          \/ PktIgnore(c, s) \/ PktListen(c, s) \/ PktSynRcvd(c, s)
          \/ PktEstablished(c, s) \/ PktLastAck(c, s)
    BY <1>15 DEF PktRecv
  <2> QED BY <1>4, <1>5, <1>9, <1>12, <2>1
<1>16. Lives \/ Stays
  BY <1>12, <1>13, <1>14, <1>15 DEF Next
<1>17. Lives => Lifecycle!Next
  BY DEF Lifecycle!Next
<1> QED BY <1>3, <1>16, <1>17

\* Up to the first lookup that goes astray, each connection goes through the passive
\* side of TCP's states, and nclose closes only what naccept gave out.
THEOREM LifecycleImplemented == Spec => ImplementsLifecycle
<1>1. Init => Lifecycle!Init
  <2> SUFFICES ASSUME Init, NEW c \in Clients PROVE ~HasStream(c)
    BY DEF Lifecycle!Init, ConnState
  <2>1. tcb_set = <<Listener>> /\ peer[Listener] = NULL
    BY UstackAssumption DEF Init
  <2>2. Table = {Listener}
    BY <2>1 DEF Table, Members
  <2> QED BY <2>1, <2>2, UstackAssumption DEF HasStream
<1>2. IInv /\ UseInv /\ [Next]_vars => [~stray => [Lifecycle!Next]_(Lifecycle!vars)]_vars
  BY LifecycleStep
<1> QED BY <1>1, <1>2, Invariant, UseInvariant, PTL DEF Spec, ImplementsLifecycle
-----------------------------------------------------------------------------
Talking == {"estab", "fin_wait"}
Closing == {"CLOSE_WAIT", "LAST_ACK"}

\* The segments that clients send.
IsSyn(seg) == seg.flags = {"SYN"} /\ seg.seq = 0 /\ seg.data = <<>>
IsAck(seg) == seg.flags = {"ACK"} /\ seg.data = <<>>
IsFin(seg) == seg.flags = {"ACK", "FIN"} /\ seg.data = <<>>
IsData(seg) == /\ seg.flags \in {{"ACK"}, {"ACK", "PSH"}} /\ Len(seg.data) \in 1 .. MaxSeg
               /\ \A i \in 1 .. Len(seg.data) : seg.data[i] = seg.seq - 1 + i
ClientSegments == {seg \in Segments : IsSyn(seg) \/ IsAck(seg) \/ IsFin(seg) \/ IsData(seg)}

\* What a handler has in hand.
AtData == {"enqueue", "signal", "count"}
AtFin == {"fin", "fin-enqueue", "fin-signal", "fin-count"}

KindInv ==
    /\ to_stack \in [Clients -> Seq(ClientSegments)]
    /\ ppc = "synack" => IsSyn(pseg)
    /\ ppc \in AtData \cup {"ack"} => IsData(pseg)
    /\ ppc \in AtFin => IsFin(pseg)

\* A new stream begins with empty rings, and a FIN is counted once it was noted.
FreshInv ==
    /\ \A s \in Streams \ {Listener} :
          /\ status[s] \in {"FREE", "LISTEN"} => sndbuf[s] = <<>>
          /\ status[s] \in {"FREE", "LISTEN", "SYN_RCVD"} => rcvbuf[s] = <<>>
          /\ status[s] = "SYN_RCVD" => rcv_nxt[s] = 1
          /\ status[s] \in {"LISTEN", "SYN_RCVD"} => skipped[s] = 0
    /\ ppc \in {"fin-enqueue", "fin-signal", "fin-count", "fin-ack"} => status[pstream] \in Closing

\* The application sends on a stream that had payload, and has not closed it.
SenderInv ==
    /\ apc \in {"recv-requeue", "recv-done", "send-build", "send-enqueue"} =>
          status[ahost] \in {"ESTABLISHED", "CLOSE_WAIT"}
    /\ apc = "find" /\ acall = "send" =>
          /\ InUse(ahost) /\ fd[ahost] = afd
          /\ status[ahost] \in {"ESTABLISHED", "CLOSE_WAIT"}

UpInv == IInv /\ FieldInv /\ PayloadInv /\ HoldInv /\ HandlerInv /\ FdInv
-----------------------------------------------------------------------------
\* A segment with the fields of one of the kinds.
LEMMA KindType ==
    ASSUME NEW flags \in SUBSET Flags, NEW seq \in Nat, NEW ack \in Nat, NEW data \in Seq(Nat)
    PROVE  /\ Segment(flags, seq, ack, data) \in Segments
           /\ Segment(flags, seq, ack, data).flags = flags
           /\ Segment(flags, seq, ack, data).seq = seq
           /\ Segment(flags, seq, ack, data).ack = ack
           /\ Segment(flags, seq, ack, data).data = data
BY SegmentType DEF Segment

\* A segment that a client sends without payload.
LEMMA SentEmpty ==
    ASSUME NEW c \in Clients, crcv'[c] \in Nat,
           NEW flags \in {{"SYN"}, {"ACK", "FIN"}, {"ACK"}}, NEW seq \in Nat,
           flags = {"SYN"} => seq = 0, Transmit(c, flags, seq, <<>>)
    PROVE  \E seg \in ClientSegments :
              /\ seg.flags = flags /\ seg.seq = seq /\ seg.data = <<>>
              /\ to_stack' = [to_stack EXCEPT ![c] = Append(@, seg)]
<1> DEFINE none == <<>>
           seg == Segment(flags, seq, crcv'[c], none)
<1>1. flags \in SUBSET Flags /\ none \in Seq(Nat)
  BY DEF Flags
<1>2. to_stack' = [to_stack EXCEPT ![c] = Append(@, seg)]
  BY DEF Transmit
<1>3. none = <<>>
  OBVIOUS
<1> HIDE DEF none
<1>4. seg \in Segments /\ seg.flags = flags /\ seg.seq = seq /\ seg.data = <<>>
  <2>1. ASSUME NEW ack \in Nat, NEW data \in Seq(Nat)
        PROVE  /\ Segment(flags, seq, ack, data) \in Segments
               /\ Segment(flags, seq, ack, data).flags = flags
               /\ Segment(flags, seq, ack, data).seq = seq
               /\ Segment(flags, seq, ack, data).data = data
    BY <1>1, KindType
  <2> QED BY <1>1, <1>3, <2>1
<1> HIDE DEF seg
<1>5. seg \in ClientSegments
  BY <1>4 DEF ClientSegments, IsSyn, IsAck, IsFin
<1> QED BY <1>2, <1>4, <1>5

\* A segment of payload: its units are numbered as its bytes are.
LEMMA SentData ==
    ASSUME NEW c \in Clients, crcv'[c] \in Nat, csent[c] \in Nat, NEW n \in 1 .. MaxSeg,
           NEW flags \in {{"ACK"}, {"ACK", "PSH"}},
           Transmit(c, flags, csent[c] + 1, [i \in 1 .. n |-> csent[c] + i])
    PROVE  \E seg \in ClientSegments :
              /\ IsData(seg) /\ seg.seq = csent[c] + 1 /\ Len(seg.data) = n
              /\ to_stack' = [to_stack EXCEPT ![c] = Append(@, seg)]
<1>1. n \in Nat /\ n >= 1 /\ MaxSeg \in Nat
  BY UstackAssumption
<1> DEFINE data == [i \in 1 .. n |-> csent[c] + i]
           seg == Segment(flags, csent[c] + 1, crcv'[c], data)
<1>2. data \in Seq(Nat) /\ Len(data) = n /\ \A i \in 1 .. n : data[i] = csent[c] + i
  BY <1>1
<1>3. to_stack' = [to_stack EXCEPT ![c] = Append(@, seg)]
  BY DEF Transmit
<1> HIDE DEF data
<1>4. csent[c] + 1 \in Nat /\ flags \in SUBSET Flags
  BY DEF Flags
<1>5. /\ seg \in Segments /\ seg.flags = flags
      /\ seg.seq = csent[c] + 1 /\ seg.data = data
  BY <1>2, <1>4, KindType
<1> HIDE DEF seg
<1>6. Len(seg.data) = n /\ n \in 1 .. MaxSeg
  BY <1>2, <1>5
<1>7. ASSUME NEW i \in 1 .. n PROVE seg.data[i] = seg.seq - 1 + i
  <2>1. seg.data[i] = csent[c] + i /\ i \in Nat
    BY <1>1, <1>2, <1>5
  <2> QED BY <1>5, <2>1
<1>8. IsData(seg)
  BY <1>5, <1>6, <1>7 DEF IsData
<1> QED BY <1>3, <1>5, <1>6, <1>8 DEF ClientSegments

\* What a client sends.
LEMMA SentKind ==
    ASSUME IInv, NEW c \in Clients, Client(c), [Next]_vars
    PROVE  \/ to_stack' = to_stack
           \/ \E seg \in ClientSegments : to_stack' = [to_stack EXCEPT ![c] = Append(@, seg)]
<1>1. csent[c] \in Nat /\ crcv'[c] \in Nat
  <2>1. ClientOK'
    BY StepTypeOK DEF TypeOK
  <2> QED BY <2>1, UstackAssumption DEF IInv, TypeOK, ClientOK
<1>2. CASE ClientConnect(c)
  BY <1>1, <1>2, SentEmpty DEF ClientConnect
<1>3. CASE ClientClose(c)
  <2>1. csent[c] + 1 \in Nat
    BY <1>1
  <2> QED BY <1>1, <1>3, <2>1, SentEmpty DEF ClientClose
<1>4. CASE ClientRecv(c)
  <2>1. csent[c] + (IF cst[c] = "estab" THEN 1 ELSE 2) \in Nat
    BY <1>1
  <2>2. \/ Transmit(c, {"ACK"}, 1, <<>>)
        \/ Transmit(c, {"ACK"}, csent[c] + (IF cst[c] = "estab" THEN 1 ELSE 2), <<>>)
        \/ UNCHANGED to_stack
    BY <1>4 DEF ClientRecv
  <2> QED BY <1>1, <2>1, <2>2, SentEmpty
<1>5. CASE ClientSend(c)
  <2>1. PICK n \in 1 .. MaxSeg, flags \in {{"ACK"}, {"ACK", "PSH"}} :
          Transmit(c, flags, csent[c] + 1, [i \in 1 .. n |-> csent[c] + i])
    BY <1>5 DEF ClientSend
  <2> QED BY <1>1, <2>1, SentData
<1> QED BY <1>2, <1>3, <1>4, <1>5 DEF Client

\* A wire that has not lost or repeated anything after a step did not do so before or in it.
LEMMA NoFaults ==
    ASSUME IInv, [Next]_vars, faults' = 0
    PROVE  faults = 0 /\ \A c \in Clients : ~WireLose(c) /\ ~WireDuplicate(c)
<1> USE DEF tableVars, seqVars, bufVars, callVars, cursorVars, hostVars, localVars,
            appVars, pktVars, clientVars, wireVars, envVars, stackVars
<1>1. faults \in Nat
  BY DEF IInv, TypeOK, WireOK
<1>2. ASSUME NEW c \in Clients PROVE ~WireLose(c) /\ ~WireDuplicate(c)
  BY <1>1 DEF WireLose, WireDuplicate
<1>3. CASE App
  <2>1. faults' = faults
    BY <1>3 DEF App, AppEvent, AppFindNext, AppFound, AppNotFound, AcceptLock, AcceptScan,
                AcceptAssign, RecvLock, RecvEmpty, RecvWait, RecvTake, RecvRequeue,
                RecvDone, SendBuild, SendEnqueue, CloseBuild, CloseFin, CloseStatus, CloseFd
  <2> QED BY <1>2, <2>1
<1>4. CASE PktContinue
  <2>1. faults' = faults
    BY <1>4 DEF PktContinue, PktSynAck, PktAccept, PktFin, PktEnqueue, PktSignal,
                PktCount, PktAck, PktFree, Signal
  <2> QED BY <1>2, <2>1
<1>5. ASSUME NEW c \in Clients, PktRecv(c) PROVE faults' = faults
  BY <1>5 DEF PktRecv, PktIgnore, PktListen, PktSynRcvd, PktEstablished, PktLastAck,
              Process
<1>6. ASSUME NEW c \in Clients, Client(c) PROVE faults' = faults
  BY <1>6 DEF Client, ClientConnect, ClientSend, ClientClose, ClientRecv
<1>7. CASE PktOut \/ UNCHANGED vars
  <2>1. faults' = faults
    BY <1>7 DEF PktOut, vars
  <2> QED BY <1>2, <2>1
<1> QED BY <1>2, <1>3, <1>4, <1>5, <1>6, <1>7 DEF Next

\* Without losses and repetitions only the kinds of segments that clients send
\* reach the handlers.
LEMMA StepKindInv == IInv /\ KindInv /\ [Next]_vars => KindInv'
<1> SUFFICES ASSUME IInv, KindInv, [Next]_vars PROVE KindInv'
  OBVIOUS
<1> USE DEF tableVars, seqVars, bufVars, callVars, cursorVars, hostVars,
        localVars, appVars, pktVars, clientVars, wireVars, envVars, stackVars
<1>1. CASE App
  <2>1. UNCHANGED <<to_stack, ppc, pseg>>
    BY <1>1 DEF App, AppEvent, AppFindNext, AppFound, AppNotFound, AcceptLock, AcceptScan,
              AcceptAssign, RecvLock, RecvEmpty, RecvWait, RecvTake, RecvRequeue,
              RecvDone, SendBuild, SendEnqueue, CloseBuild, CloseFin, CloseStatus, CloseFd
  <2> QED BY <2>1 DEF KindInv
<1>2. CASE PktContinue
  <2>1. /\ UNCHANGED <<to_stack, pseg>>
        /\ ppc' \in AtData \cup {"ack"} => ppc \in AtData
        /\ ppc' \in AtFin \ {"fin"} => ppc \in AtFin
        /\ ppc' = "fin" => ppc = "ack" /\ "FIN" \in pseg.flags
        /\ ppc' # "synack"
    BY <1>2 DEF PktContinue, PktSynAck, PktAccept, PktFin, PktEnqueue, PktSignal,
              PktCount, PktAck, PktFree, Signal, AtData, AtFin
  <2>2. ppc' # "fin"
    BY <2>1 DEF KindInv, IsData
  <2>3. AtData \subseteq AtData \cup {"ack"}
    OBVIOUS
  <2> QED BY <2>1, <2>2, <2>3 DEF KindInv, IsData, IsFin, IsSyn
<1>3. ASSUME NEW c \in Clients, PktRecv(c) PROVE KindInv'
  <2>1. PICK s \in Streams \cup {NULL} :
                 \/ PktIgnore(c, s) \/ PktListen(c, s) \/ PktSynRcvd(c, s)
                 \/ PktEstablished(c, s) \/ PktLastAck(c, s)
    BY <1>3 DEF PktRecv
  <2>2. /\ to_stack[c] # <<>> /\ pseg' = Head(to_stack[c])
        /\ to_stack' = [to_stack EXCEPT ![c] = Tail(@)]
    BY <2>1 DEF PktIgnore, PktListen, PktSynRcvd, PktEstablished, PktLastAck, Process
  <2>3. pseg' \in ClientSegments /\ to_stack' \in [Clients -> Seq(ClientSegments)]
    BY <2>2, QueueTake DEF KindInv
  <2>4. /\ ppc = "idle"
        /\ ppc' = "synack" => "SYN" \in pseg'.flags
        /\ ppc' \in AtData \cup {"ack"} => "PSH" \in pseg'.flags
        /\ ppc' \in AtFin => "FIN" \in pseg'.flags
    BY <2>1, <2>2 DEF PktIgnore, PktListen, PktSynRcvd, PktEstablished, PktLastAck, Process,
                      Ignored, Has, AtData, AtFin
  <2>5. /\ "SYN" \in pseg'.flags => IsSyn(pseg)'
        /\ "PSH" \in pseg'.flags => IsData(pseg)'
        /\ "FIN" \in pseg'.flags => IsFin(pseg)'
    BY <2>3 DEF ClientSegments, IsSyn, IsAck, IsFin, IsData
  <2> QED BY <2>3, <2>4, <2>5 DEF KindInv
<1>4. ASSUME NEW c \in Clients, Client(c) \/ WireLose(c) \/ WireDuplicate(c) PROVE KindInv'
  <2>1. UNCHANGED <<ppc, pseg>>
    BY <1>4, OutsideStep
  <2>2. to_stack' \in [Clients -> Seq(ClientSegments)]
    <3>1. CASE Client(c)
      <4>1. CASE UNCHANGED to_stack
        BY <4>1 DEF KindInv
      <4>2. ASSUME NEW seg \in ClientSegments, to_stack' = [to_stack EXCEPT ![c] = Append(@, seg)]
            PROVE  to_stack' \in [Clients -> Seq(ClientSegments)]
        BY <4>2, QueueAppend DEF KindInv
      <4>3. \/ to_stack' = to_stack
            \/ \E seg \in ClientSegments : to_stack' = [to_stack EXCEPT ![c] = Append(@, seg)]
        BY <3>1, SentKind, Zenon
      <4> QED BY <4>1, <4>2, <4>3, Zenon
    <3>2. CASE WireLose(c)
      <4>1. to_stack[c] # <<>> => [to_stack EXCEPT ![c] = Tail(@)] \in [Clients -> Seq(ClientSegments)]
        BY QueueTake DEF KindInv
      <4> QED BY <3>2, <4>1 DEF WireLose, KindInv
    <3>3. CASE WireDuplicate(c)
      <4>1. Head(to_stack[c]) \in ClientSegments
        BY <3>3, QueueTake DEF WireDuplicate, KindInv
      <4> QED BY <3>3, <4>1, QueueAppend DEF WireDuplicate, KindInv
    <3> QED BY <1>4, <3>1, <3>2, <3>3
  <2> QED BY <2>1, <2>2 DEF KindInv
<1>5. CASE PktOut \/ UNCHANGED vars
  <2>1. UNCHANGED <<to_stack, ppc, pseg>>
    BY <1>5 DEF PktOut, vars
  <2> QED BY <2>1 DEF KindInv
<1> QED BY <1>1, <1>2, <1>3, <1>4, <1>5 DEF Next
-----------------------------------------------------------------------------
\* The facts about types that the steps below use.
LEMMA RingFacts ==
    ASSUME IInv
    PROVE  /\ sndbuf \in [Streams -> Seq(Segments)] /\ rcvbuf \in [Streams -> Seq(Seq(Nat))]
           /\ rcv_nxt \in [Streams -> Nat] /\ snd_nxt \in [Streams -> Nat]
           /\ skipped \in [Streams -> Nat]
           /\ status \in [Streams -> Statuses] /\ peer \in [Streams -> Clients \cup {NULL}]
           /\ ppc # "idle" => pstream \in Streams \ {Listener}
           /\ ppc \notin {"idle", "free"} => pstream \in Table
           /\ apc \in Transfer => ahost \in Streams \ {Listener}
           /\ afrag \in Segments /\ pseg \in Segments
BY DEF IInv, TypeOK, BuffersOK, TableOK, PktInv, PlaceInv, AppOK, PktOK

\* The rings of a stream are filled only after it is made, and emptied when it is freed.
LEMMA StepFreshInv == UpInv /\ KindInv /\ FreshInv /\ SenderInv /\ [Next]_vars => FreshInv'
<1> SUFFICES ASSUME UpInv, KindInv, FreshInv, SenderInv, [Next]_vars PROVE FreshInv'
  OBVIOUS
<1> USE RingFacts
    DEF tableVars, seqVars, bufVars, callVars, cursorVars, hostVars, localVars, appVars,
        pktVars, clientVars, wireVars, envVars, stackVars, UpInv
<1>1. CASE RecvTake
  <2>1. /\ UNCHANGED <<status, sndbuf, rcv_nxt, skipped, ppc, pstream>> /\ rcvbuf[ahost] # <<>>
        /\ ahost \in Streams \ {Listener}
        /\ rcvbuf' = [rcvbuf EXCEPT ![ahost] = Tail(@)]
    BY <1>1 DEF RecvTake, Transfer
  <2> QED BY <2>1 DEF FreshInv
<1>2. CASE RecvRequeue \/ SendEnqueue \/ CloseFin
  <2>1. /\ UNCHANGED <<status, rcv_nxt, skipped, ppc, pstream>>
        /\ ahost \in Streams /\ status[ahost] \in {"ESTABLISHED", "CLOSE_WAIT"}
    BY <1>2 DEF RecvRequeue, SendEnqueue, CloseFin, Transfer, SenderInv, HoldInv
  <2>2. \A s \in Streams : s # ahost => sndbuf'[s] = sndbuf[s] /\ rcvbuf'[s] = rcvbuf[s]
    BY <1>2 DEF RecvRequeue, SendEnqueue, CloseFin, Enqueue
  <2> QED BY <2>1, <2>2 DEF FreshInv
<1>3. CASE CloseStatus
  <2>1. /\ UNCHANGED <<sndbuf, rcvbuf, rcv_nxt, skipped, ppc, pstream>> /\ ahost \in Streams
        /\ status' = [status EXCEPT ![ahost] = "LAST_ACK"]
    BY <1>3 DEF CloseStatus, Transfer
  <2> QED BY <2>1 DEF FreshInv, Closing
<1>4. CASE \/ \E f \in Fds \cup {ListenFd} : AppEvent(f)
           \/ AppFindNext \/ AppFound \/ AppNotFound \/ AcceptLock \/ AcceptScan
           \/ AcceptAssign \/ RecvLock \/ RecvEmpty \/ RecvWait \/ RecvDone
           \/ SendBuild \/ CloseBuild \/ CloseFd \/ UNCHANGED vars
           \/ \E c \in Clients : Client(c) \/ WireLose(c) \/ WireDuplicate(c)
  <2>1. UNCHANGED <<status, rcvbuf, ppc, pstream>>
    BY <1>4, OutsideStep DEF AppEvent, AppFindNext, AppFound, AppNotFound, AcceptLock,
          AcceptScan, AcceptAssign, RecvLock, RecvEmpty, RecvWait, RecvDone, SendBuild,
          CloseBuild, CloseFd
  <2>2. UNCHANGED <<sndbuf, rcv_nxt, skipped>>
    BY <1>4 DEF AppEvent, AppFindNext, AppFound, AppNotFound, AcceptLock,
          AcceptScan, AcceptAssign, RecvLock, RecvEmpty, RecvWait, RecvDone, SendBuild,
          CloseBuild, CloseFd, vars, Client, ClientConnect, ClientSend, ClientClose, ClientRecv,
          WireLose, WireDuplicate
  <2> QED BY <2>1, <2>2 DEF FreshInv
<1>5. CASE PktOut
  <2>1. UNCHANGED <<status, rcvbuf, rcv_nxt, skipped, ppc, pstream>>
    BY <1>5 DEF PktOut
  <2>2. \A s \in Streams : sndbuf[s] = <<>> => sndbuf'[s] = <<>>
    BY <1>5 DEF PktOut, Sending
  <2> QED BY <2>1, <2>2 DEF FreshInv
<1>6. ASSUME NEW c \in Clients, NEW s \in Streams \cup {NULL},
             PktIgnore(c, s) \/ PktSynRcvd(c, s) \/ PktEstablished(c, s) \/ PktLastAck(c, s)
      PROVE  FreshInv'
  <2>1. /\ UNCHANGED <<sndbuf, rcvbuf, rcv_nxt>> /\ ppc = "idle"
        /\ ppc' \in {"idle", "accept", "enqueue", "fin", "free"}
        /\ \/ status' = status
           \/ s \in Streams /\ status' = [status EXCEPT ![s] = "ESTABLISHED"]
           \/ s \in Streams /\ status' = [status EXCEPT ![s] = "CLOSED"]
    BY <1>6 DEF PktIgnore, PktSynRcvd, PktEstablished, PktLastAck, Process, Ignored
  <2>2. CASE skipped' = skipped
    BY <2>1, <2>2 DEF FreshInv
  <2>3. CASE skipped' # skipped
    <3>1. /\ PktIgnore(c, s) /\ s # NULL /\ status[s] = "ESTABLISHED"
          /\ skipped' = [skipped EXCEPT ![s] = @ + Len(pseg'.data)]
      BY <1>6, <2>3 DEF PktIgnore, PktSynRcvd, PktEstablished, PktLastAck
    <3>2. status' = status /\ \A t \in Streams : t # s => skipped'[t] = skipped[t]
      BY <3>1 DEF PktIgnore
    <3> QED BY <2>1, <3>1, <3>2 DEF FreshInv
  <2> QED BY <2>2, <2>3
<1>7. ASSUME NEW c \in Clients, NEW s \in Streams \cup {NULL}, PktListen(c, s)
      PROVE  FreshInv'
  <2>1. PICK syn \in Streams :
          /\ status[syn] = "FREE" /\ status' = [status EXCEPT ![syn] = "LISTEN"]
          /\ skipped' = [skipped EXCEPT ![syn] = 0]
    BY <1>7 DEF PktListen
  <2>2. UNCHANGED <<sndbuf, rcvbuf, rcv_nxt>> /\ ppc' = "synack"
    BY <1>7 DEF PktListen
  <2> QED BY <2>1, <2>2 DEF FreshInv
<1>8. CASE PktSynAck
  <2>1. /\ rcvbuf' = rcvbuf /\ pstream \in Streams \ {Listener} /\ ppc' = "idle"
        /\ status' = [status EXCEPT ![pstream] = "SYN_RCVD"] /\ status[pstream] = "LISTEN"
        /\ rcv_nxt' = [rcv_nxt EXCEPT ![pstream] = pseg.seq + 1] /\ skipped' = skipped
        /\ \A s \in Streams : s # pstream => sndbuf'[s] = sndbuf[s]
    BY <1>8 DEF PktSynAck, HandlerInv
  <2>2. pseg.seq + 1 = 1
    BY <1>8 DEF PktSynAck, KindInv, IsSyn
  <2> QED BY <2>1, <2>2 DEF FreshInv
<1>9. CASE PktFin
  <2>1. /\ UNCHANGED <<sndbuf, rcvbuf, rcv_nxt, skipped, pstream>> /\ ppc' = "fin-enqueue"
        /\ pstream \in Streams /\ status' = [status EXCEPT ![pstream] = "CLOSE_WAIT"]
    BY <1>9 DEF PktFin
  <2> QED BY <2>1 DEF FreshInv, Closing
<1>10. CASE PktEnqueue \/ PktCount \/ PktAck
  <2>1. /\ UNCHANGED <<status, skipped, pstream>> /\ pstream \in Streams
        /\ ppc' \in {"fin-enqueue", "fin-signal", "fin-count", "fin-ack"} =>
              ppc \in {"fin-enqueue", "fin-signal", "fin-count", "fin-ack"}
        /\ \A s \in Streams : s # pstream =>
              sndbuf'[s] = sndbuf[s] /\ rcvbuf'[s] = rcvbuf[s] /\ rcv_nxt'[s] = rcv_nxt[s]
    BY <1>10 DEF PktEnqueue, PktCount, PktAck, Enqueue
  <2>2. status[pstream] \notin {"FREE", "LISTEN", "SYN_RCVD"}
    BY <1>10 DEF PktEnqueue, PktCount, PktAck, HandlerInv, DataPath, FreshInv, Closing
  <2> QED BY <2>1, <2>2 DEF FreshInv
<1>11. CASE PktFree
  <2>1. /\ rcvbuf' = [rcvbuf EXCEPT ![pstream] = <<>>] /\ ppc' = "idle"
        /\ sndbuf' = [sndbuf EXCEPT ![pstream] = <<>>] /\ UNCHANGED <<rcv_nxt, skipped>>
        /\ status' = [status EXCEPT ![pstream] = "FREE"] /\ pstream \in Streams
    BY <1>11 DEF PktFree
  <2> QED BY <2>1 DEF FreshInv
<1>12. CASE PktAccept \/ PktSignal
  <2>1. /\ UNCHANGED <<status, sndbuf, rcvbuf, rcv_nxt, skipped, pstream>>
        /\ ppc' \in {"fin-enqueue", "fin-signal", "fin-count", "fin-ack"} =>
              ppc \in {"fin-enqueue", "fin-signal", "fin-count", "fin-ack"}
    BY <1>12 DEF PktAccept, PktSignal
  <2> QED BY <2>1 DEF FreshInv
<1> QED BY <1>1, <1>2, <1>3, <1>4, <1>5, <1>6, <1>7, <1>8, <1>9, <1>10, <1>11, <1>12
           DEF Next, App, PktContinue, PktRecv

\* No step of the packet lcore takes a stream in use away, or its descriptor.
LEMMA PacketKeepsUse ==
    ASSUME IInv, HandlerInv, PktContinue \/ \E c \in Clients : PktRecv(c),
           NEW s \in Streams, InUse(s)
    PROVE  InUse(s)' /\ fd'[s] = fd[s]
<1>1. s \in Table
  BY DEF InUse
<1>2. CASE /\ \A t \in Streams : InUse(t)' <=> InUse(t)
           /\ \A t \in Streams : fd'[t] = fd[t] \/ (t \notin Table /\ fd'[t] = 0)
  BY <1>1, <1>2
<1>3. ASSUME NEW u \in Streams \ Table, fd' = [fd EXCEPT ![u] = -1],
             \A t \in Streams : InUse(t)' <=> InUse(t) \/ t = u
      PROVE  InUse(s)' /\ fd'[s] = fd[s]
  <2>1. s # u /\ fd \in [Streams -> Fds \cup {ListenFd, -1, 0}]
    BY <1>1, TableFacts
  <2> QED BY <1>3, <2>1
<1>4. \/ /\ \A t \in Streams : InUse(t)' <=> InUse(t)
         /\ \A t \in Streams : fd'[t] = fd[t] \/ (t \notin Table /\ fd'[t] = 0)
      \/ \E u \in Streams \ Table :
            /\ fd' = [fd EXCEPT ![u] = -1]
            /\ \A t \in Streams : InUse(t)' <=> InUse(t) \/ t = u
  BY PacketUse
<1> QED BY <1>2, <1>3, <1>4, Zenon

\* A payload in a ring is of a stream that was established, and only the application closes it.
LEMMA StepSenderInv ==
    UpInv /\ FreshInv /\ SenderInv /\ ~stray' /\ [Next]_vars => SenderInv'
<1> SUFFICES ASSUME UpInv, FreshInv, SenderInv, ~stray', [Next]_vars PROVE SenderInv'
  OBVIOUS
<1> USE RingFacts
    DEF tableVars, seqVars, bufVars, callVars, cursorVars, hostVars, localVars, appVars,
        pktVars, clientVars, wireVars, envVars, stackVars, UpInv
<1> DEFINE Open == {"ESTABLISHED", "CLOSE_WAIT"}
<1>1. CASE RecvTake
  <2>1. /\ UNCHANGED <<status, ahost>> /\ rcvbuf[ahost] # <<>> /\ apc = "recv-take"
        /\ ahost \in Streams \ {Listener} /\ apc' # "find"
    BY <1>1 DEF RecvTake, Transfer
  <2>2. status[ahost] \in Open
    <3>1. InUse(ahost) /\ ahost \in Streams
      BY <2>1 DEF HoldInv, Transfer
    <3>2. status[ahost] \notin {"FREE", "CLOSED", "LAST_ACK"}
      BY <2>1, <3>1 DEF InUse, IInv, TableInv, HandlerInv
    <3>3. status[ahost] \notin {"LISTEN", "SYN_RCVD"}
      BY <2>1 DEF FreshInv
    <3> QED BY <3>1, <3>2, <3>3 DEF Statuses
  <2> QED BY <2>1, <2>2 DEF SenderInv
<1>2. CASE AppFound
  <2>1. /\ UNCHANGED <<status>> /\ ahost' = acur /\ fd[acur] = afd /\ apc = "find" /\ apc' # "find"
        /\ apc' \in {"recv-requeue", "recv-done", "send-build", "send-enqueue"} => acall = "send"
        /\ acur # NULL /\ status[acur] \notin {"LAST_ACK", "CLOSED"}
    BY <1>2 DEF AppFound, IInv, TypeOK, AppOK
  <2>2. CASE acall = "send"
    <3>1. InUse(ahost) /\ fd[ahost] = afd /\ status[ahost] \in Open
      BY <2>1, <2>2 DEF SenderInv
    <3>2. InUse(acur) /\ afd # -1
      BY <2>1, FoundInUse, TableFacts
    <3>3. acur = ahost
      BY <2>1, <3>1, <3>2 DEF FdInv, InUse
    <3> QED BY <2>1, <3>1, <3>3 DEF SenderInv
  <2> QED BY <2>1, <2>2 DEF SenderInv
<1>3. CASE RecvDone
  <2>1. /\ UNCHANGED <<status, ahost, fd, tcb_set, afd>> /\ apc = "recv-done" /\ apc' = "find"
    BY <1>3 DEF RecvDone, Call
  <2>2. InUse(ahost) /\ fd[ahost] = afd /\ status[ahost] \in Open
    BY <2>1 DEF SenderInv, HoldInv, Transfer
  <2> QED BY <2>1, <2>2, SameUse DEF SenderInv
<1>4. CASE \E f \in Fds \cup {ListenFd} : AppEvent(f)
  <2>1. apc' = "find" /\ acall' # "send"
    BY <1>4 DEF AppEvent, Call
  <2> QED BY <2>1 DEF SenderInv
<1>5. CASE \/ AppNotFound \/ AcceptLock \/ AcceptScan
           \/ AcceptAssign \/ RecvLock \/ RecvEmpty \/ RecvWait 
           \/ SendEnqueue \/ CloseBuild \/ CloseFin \/ CloseStatus \/ CloseFd
  <2>1. apc' \notin {"find", "recv-requeue", "recv-done", "send-build", "send-enqueue"}
    BY <1>5 DEF AppNotFound, AcceptLock, AcceptScan, AcceptAssign, RecvLock, RecvEmpty,
                RecvWait, SendEnqueue, CloseBuild, CloseFin, CloseStatus, CloseFd
  <2> QED BY <2>1 DEF SenderInv
<1>6. CASE \/ AppFindNext \/ RecvRequeue \/ SendBuild \/ PktOut \/ UNCHANGED vars
           \/ \E c \in Clients : Client(c) \/ WireLose(c) \/ WireDuplicate(c)
  <2>1. /\ UNCHANGED <<status, ahost, fd, tcb_set, afd, acall>>
        /\ \/ apc' = apc
           \/ apc = "recv-requeue" /\ apc' = "recv-done"
           \/ apc = "send-build" /\ apc' = "send-enqueue"
    BY <1>6, OutsideStep DEF AppFindNext, Advance, RecvRequeue, SendBuild
  <2> QED BY <2>1, SameUse DEF SenderInv
<1>7. CASE PktContinue \/ \E c \in Clients : PktRecv(c)
  <2>1. /\ UNCHANGED <<acall, afd, ahost>>
        /\ \/ apc' = apc
           \/ apc = "accept-wait" /\ apc' = "accept-lock"
           \/ apc = "recv-wait" /\ apc' = "recv-lock"
    BY <1>7, PacketUse
  <2>2. \A s \in Streams : status[s] \in Open => status'[s] \in Open
    <3>1. CASE PktContinue
      BY <3>1 DEF PktContinue, PktSynAck, PktAccept, PktFin, PktEnqueue, PktSignal,
              PktCount, PktAck, PktFree, Signal, HandlerInv
    <3>2. ASSUME NEW c \in Clients, PktRecv(c)
          PROVE  \A s \in Streams : status[s] \in Open => status'[s] \in Open
      BY <3>2 DEF PktRecv, PktIgnore, PktListen, PktSynRcvd, PktEstablished, PktLastAck, Process
    <3> QED BY <1>7, <3>1, <3>2
  <2>3. CASE apc = "find" /\ acall = "send"
    <3>1. InUse(ahost) /\ fd[ahost] = afd /\ status[ahost] \in Open /\ ahost \in Streams
      BY <2>3, TableFacts DEF SenderInv, InUse
    <3>2. InUse(ahost)' /\ fd'[ahost] = fd[ahost]
      <4>1. HandlerInv
        OBVIOUS
      <4>2. ahost' = ahost
        BY <2>1
      <4> QED BY <1>7, <3>1, <4>1, <4>2, PacketKeepsUse
    <3> QED BY <2>1, <2>2, <2>3, <3>1, <3>2 DEF SenderInv
  <2>4. CASE ~(apc = "find" /\ acall = "send")
    <3>1. apc' \in {"recv-requeue", "recv-done", "send-build", "send-enqueue"} => 
             ahost \in Streams /\ apc' = apc
      BY <2>1 DEF Transfer
    <3>2. ~(apc' = "find" /\ acall' = "send")
      BY <2>1, <2>4
    <3> QED BY <2>1, <2>2, <3>1, <3>2 DEF SenderInv
  <2> QED BY <2>3, <2>4
<1> QED BY <1>1, <1>2, <1>3, <1>4, <1>5, <1>6, <1>7 DEF Next, App
-----------------------------------------------------------------------------
\* The sequence number after a segment, and after all that a client has sent.
After(seg) == seg.seq + (Len(seg.data) + IF "FIN" \in seg.flags THEN 1 ELSE 0)
SentUpTo(c) == csent[c] + IF cst[c] = "estab" THEN 1 ELSE 2

\* What is under way to the stack: a SYN after all else, a FIN before nothing but
\* ACKs, payload that was counted; and segments that follow on one another.
HasSyn(q) == \E i \in 1 .. Len(q) : IsSyn(q[i])
HasLoad(q) == \E i \in 1 .. Len(q) : IsFin(q[i]) \/ IsData(q[i])
WireOrder(q, state, sent) ==
    \A i \in 1 .. Len(q) :
       /\ IsSyn(q[i]) => state = "syn_sent" /\ i = Len(q)
       /\ IsFin(q[i]) => state = "fin_wait" /\ \A j \in (i + 1) .. Len(q) : IsAck(q[j])
       /\ IsData(q[i]) => After(q[i]) <= sent + 1
Chain(q, from, upto) ==
    /\ q = <<>> => from = upto
    /\ q # <<>> => q[1].seq = from /\ After(q[Len(q)]) = upto
    /\ \A i \in 1 .. Len(q) : After(q[i]) <= upto
    /\ \A i \in 1 .. Len(q) : i < Len(q) => q[i + 1].seq = After(q[i])

\* What is under way to a client, or waits in a send ring.
HasFlag(flag, q) == \E i \in 1 .. Len(q) : flag \in q[i].flags
Once(flag, q) ==
    \A i, j \in 1 .. Len(q) : flag \in q[i].flags /\ flag \in q[j].flags => i = j
OnlyLast(flag, q) == \A i \in 1 .. Len(q) : flag \in q[i].flags => i = Len(q)
Acked(q, upto) == \A i \in 1 .. Len(q) : q[i].ack <= upto
-----------------------------------------------------------------------------
\* What is left of a sequence without its first element.
LEMMA TailItems ==
    ASSUME NEW S, NEW q \in Seq(S), q # <<>>
    PROVE  /\ Tail(q) \in Seq(S) /\ Len(q) \in Nat \ {0} /\ Len(Tail(q)) = Len(q) - 1
           /\ 1 \in 1 .. Len(q) /\ Len(q) \in 1 .. Len(q) /\ Head(q) = q[1]
           /\ Tail(q) = <<>> <=> Len(Tail(q)) = 0
           /\ \A i \in 1 .. Len(Tail(q)) : i + 1 \in 1 .. Len(q) /\ Tail(q)[i] = q[i + 1]
<1>1. /\ Tail(q) \in Seq(S) /\ Len(q) \in Nat \ {0} /\ Len(Tail(q)) = Len(q) - 1
      /\ 1 \in 1 .. Len(q) /\ Len(q) \in 1 .. Len(q) /\ Head(q) = q[1]
      /\ \A i \in 1 .. Len(Tail(q)) : i + 1 \in 1 .. Len(q) /\ Tail(q)[i] = q[i + 1]
  OBVIOUS
<1>2. \A r \in Seq(S) : r = <<>> <=> Len(r) = 0
  OBVIOUS
<1> QED BY <1>1, <1>2

\* A sequence with one element more.
LEMMA AppendItems ==
    ASSUME NEW S, NEW q \in Seq(S), NEW x \in S
    PROVE  /\ Append(q, x) \in Seq(S) /\ Len(q) \in Nat /\ Len(Append(q, x)) = Len(q) + 1
           /\ Append(q, x) # <<>>
           /\ \A i \in 1 .. Len(q) : i \in 1 .. Len(Append(q, x)) /\ Append(q, x)[i] = q[i]
           /\ Append(q, x)[Len(q) + 1] = x
           /\ \A i \in 1 .. Len(Append(q, x)) : i \in 1 .. Len(q) \/ i = Len(q) + 1
OBVIOUS

\* One segment is of one kind.
LEMMA SegmentKind ==
    ASSUME NEW seg \in ClientSegments
    PROVE  /\ seg.seq \in Nat /\ After(seg) \in Nat /\ After(seg) >= seg.seq
           /\ IsSyn(seg) \/ IsAck(seg) \/ IsFin(seg) \/ IsData(seg)
           /\ IsAck(seg) => ~IsSyn(seg) /\ ~IsFin(seg) /\ ~IsData(seg) /\ After(seg) = seg.seq
           /\ IsFin(seg) => ~IsSyn(seg) /\ ~IsData(seg) /\ After(seg) = seg.seq + 1
           /\ IsData(seg) => ~IsSyn(seg) /\ After(seg) = seg.seq + Len(seg.data)
           /\ "ACK" \notin seg.flags <=> IsSyn(seg)
           /\ "SYN" \in seg.flags <=> IsSyn(seg)
           /\ "PSH" \in seg.flags => IsData(seg)
           /\ "FIN" \in seg.flags <=> IsFin(seg)
<1>1. /\ seg.seq \in Nat /\ seg.data \in Seq(Nat) /\ Len(seg.data) \in Nat
      /\ IsSyn(seg) \/ IsAck(seg) \/ IsFin(seg) \/ IsData(seg)
  BY DEF ClientSegments, Segments
<1>2. /\ seg.data = <<>> => Len(seg.data) = 0
      /\ IsData(seg) => seg.data # <<>>
  <2>1. seg.data = <<>> => Len(seg.data) = 0
    OBVIOUS
  <2>2. IsData(seg) => Len(seg.data) # 0
    BY UstackAssumption DEF IsData
  <2> QED BY <2>1, <2>2
<1>3. After(seg) \in Nat /\ After(seg) >= seg.seq
  <2>1. ASSUME NEW n \in Nat, NEW m \in Nat, NEW f \in {0, 1}
        PROVE  n + (m + f) \in Nat /\ n + (m + f) >= n
    OBVIOUS
  <2>2. (IF "FIN" \in seg.flags THEN 1 ELSE 0) \in {0, 1}
    OBVIOUS
  <2> QED BY <1>1, <2>1, <2>2 DEF After
<1>4. /\ "ACK" \notin seg.flags <=> IsSyn(seg)
      /\ "SYN" \in seg.flags <=> IsSyn(seg)
      /\ "PSH" \in seg.flags => IsData(seg)
      /\ "FIN" \in seg.flags <=> IsFin(seg)
  BY <1>1 DEF IsSyn, IsAck, IsFin, IsData
<1>5. IsAck(seg) => /\ ~IsSyn(seg) /\ ~IsFin(seg) /\ ~IsData(seg)
                    /\ After(seg) = seg.seq
  <2>1. IsAck(seg) => /\ "FIN" \notin seg.flags /\ "SYN" \notin seg.flags
                      /\ Len(seg.data) = 0
    BY <1>2 DEF IsAck
  <2>2. IsAck(seg) => ~IsSyn(seg) /\ ~IsFin(seg) /\ ~IsData(seg)
    BY <1>2, <1>4, <2>1 DEF IsAck
  <2>3. IsAck(seg) => After(seg) = seg.seq
    BY <1>1, <2>1 DEF After
  <2> QED BY <2>2, <2>3
<1>6. IsFin(seg) => ~IsSyn(seg) /\ ~IsData(seg) /\ After(seg) = seg.seq + 1
  <2>1. IsFin(seg) => Len(seg.data) = 0 /\ "FIN" \in seg.flags
    BY <1>2 DEF IsFin
  <2>2. IsFin(seg) => ~IsSyn(seg) /\ ~IsData(seg)
    BY <1>2, <1>4 DEF IsFin, IsData, IsSyn
  <2>3. ASSUME IsFin(seg) PROVE After(seg) = seg.seq + 1
    <3>1. After(seg) = seg.seq + (Len(seg.data) + 1)
      BY <2>1, <2>3 DEF After
    <3>2. Len(seg.data) = 0
      BY <2>1, <2>3
    <3> QED BY <1>1, <3>1, <3>2
  <2> QED BY <2>2, <2>3
<1>7. IsData(seg) => ~IsSyn(seg) /\ After(seg) = seg.seq + Len(seg.data)
  <2>1. IsData(seg) => "FIN" \notin seg.flags /\ "SYN" \notin seg.flags
    BY DEF IsData
  <2> QED BY <1>1, <1>4, <2>1 DEF After
<1> QED BY <1>1, <1>3, <1>4, <1>5, <1>6, <1>7

\* What is left when the first segment is taken.
LEMMA TakeOrder ==
    ASSUME NEW q \in Seq(ClientSegments), q # <<>>, NEW state, NEW sent \in Nat,
           WireOrder(q, state, sent)
    PROVE  /\ WireOrder(Tail(q), state, sent)
           /\ HasSyn(Tail(q)) => HasSyn(q)
           /\ HasLoad(Tail(q)) => HasLoad(q)
           /\ IsFin(Head(q)) => ~HasLoad(Tail(q))
           /\ IsSyn(Head(q)) => Tail(q) = <<>>
           /\ Tail(q) # <<>> => Tail(q)[Len(Tail(q))] = q[Len(q)]
<1> DEFINE r == Tail(q)
<1>1. /\ r \in Seq(ClientSegments) /\ Len(q) \in Nat \ {0} /\ Len(r) = Len(q) - 1
      /\ \A i \in 1 .. Len(r) : i + 1 \in 1 .. Len(q) /\ r[i] = q[i + 1]
      /\ Head(q) = q[1] /\ 1 \in 1 .. Len(q)
      /\ r # <<>> => Len(r) \in 1 .. Len(r)
  BY TailItems
<1> HIDE DEF r
<1>2. \A i \in 1 .. Len(q) :
       /\ IsSyn(q[i]) => state = "syn_sent" /\ i = Len(q)
       /\ IsFin(q[i]) => state = "fin_wait" /\ \A j \in (i + 1) .. Len(q) : IsAck(q[j])
       /\ IsData(q[i]) => After(q[i]) <= sent + 1
  BY DEF WireOrder
<1>3. WireOrder(r, state, sent)
  <2> SUFFICES ASSUME NEW i \in 1 .. Len(r)
               PROVE  /\ IsSyn(r[i]) => state = "syn_sent" /\ i = Len(r)
                      /\ IsFin(r[i]) => state = "fin_wait"
                                        /\ \A j \in (i + 1) .. Len(r) : IsAck(r[j])
                      /\ IsData(r[i]) => After(r[i]) <= sent + 1
    BY DEF WireOrder
  <2>1. i + 1 \in 1 .. Len(q) /\ r[i] = q[i + 1] /\ i \in Nat
    BY <1>1
  <2>2. ASSUME IsFin(r[i]), NEW j \in (i + 1) .. Len(r) PROVE IsAck(r[j])
    <3>1. j \in 1 .. Len(r) /\ j + 1 \in ((i + 1) + 1) .. Len(q) /\ r[j] = q[j + 1]
      BY <1>1, <2>1
    <3> QED BY <1>2, <2>1, <2>2, <3>1
  <2>3. i + 1 = Len(q) => i = Len(r)
    BY <1>1, <2>1
  <2> QED BY <1>2, <2>1, <2>2, <2>3
<1>4. HasSyn(r) => HasSyn(q)
  BY <1>1 DEF HasSyn
<1>5. HasLoad(r) => HasLoad(q)
  BY <1>1 DEF HasLoad
<1>6. ASSUME IsFin(q[1]) PROVE ~HasLoad(r)
  <2>1. ASSUME NEW i \in 1 .. Len(r) PROVE ~IsFin(r[i]) /\ ~IsData(r[i])
    <3>1. i + 1 \in (1 + 1) .. Len(q) /\ r[i] = q[i + 1] /\ r[i] \in ClientSegments
      BY <1>1
    <3>2. IsAck(r[i])
      BY <1>1, <1>2, <1>6, <3>1
    <3> QED BY <3>1, <3>2, SegmentKind
  <2> QED BY <2>1 DEF HasLoad
<1>7. IsSyn(q[1]) => r = <<>>
  BY <1>1, <1>2
<1>8. r # <<>> => r[Len(r)] = q[Len(q)]
  BY <1>1
<1> QED BY <1>1, <1>3, <1>4, <1>5, <1>6, <1>7, <1>8 DEF r

\* A chain from which the first segment is taken goes on after it.
LEMMA TakeChain ==
    ASSUME NEW q \in Seq(ClientSegments), q # <<>>, NEW from \in Nat, NEW upto \in Nat,
           Chain(q, from, upto)
    PROVE  /\ Head(q).seq = from /\ After(Head(q)) <= upto
           /\ Chain(Tail(q), After(Head(q)), upto)
<1> DEFINE r == Tail(q)
<1>1. /\ r \in Seq(ClientSegments) /\ Len(q) \in Nat \ {0} /\ Len(r) = Len(q) - 1
      /\ \A i \in 1 .. Len(r) : i + 1 \in 1 .. Len(q) /\ r[i] = q[i + 1]
      /\ Head(q) = q[1] /\ 1 \in 1 .. Len(q)
      /\ r = <<>> <=> Len(r) = 0
  BY TailItems
<1> HIDE DEF r
<1>2. /\ q[1].seq = from /\ After(q[Len(q)]) = upto
      /\ \A i \in 1 .. Len(q) : After(q[i]) <= upto
      /\ \A i \in 1 .. Len(q) : i < Len(q) => q[i + 1].seq = After(q[i])
  BY DEF Chain
<1>3. CASE r = <<>>
  BY <1>1, <1>2, <1>3 DEF Chain, r
<1>4. CASE r # <<>>
  <2>1. r[1].seq = After(q[1]) /\ After(r[Len(r)]) = upto
    <3>1. 1 \in 1 .. Len(r) /\ Len(r) \in 1 .. Len(r) /\ 1 < Len(q) /\ r[1] = q[1 + 1]
          /\ r[Len(r)] = q[Len(q)]
      BY <1>1, <1>4
    <3> QED BY <1>1, <1>2, <3>1
  <2>2. ASSUME NEW i \in 1 .. Len(r)
        PROVE  After(r[i]) <= upto /\ (i < Len(r) => r[i + 1].seq = After(r[i]))
    <3>1. i + 1 \in 1 .. Len(q) /\ r[i] = q[i + 1] /\ i \in Nat
      BY <1>1
    <3>2. i < Len(r) => i + 1 < Len(q) /\ r[i + 1] = q[(i + 1) + 1]
      BY <1>1, <3>1
    <3> QED BY <1>2, <3>1, <3>2
  <2>3. Chain(r, After(q[1]), upto)
    BY <1>4, <2>1, <2>2 DEF Chain
  <2> QED BY <1>1, <1>2, <2>3 DEF r
<1> QED BY <1>3, <1>4

\* How far a chain is from its end.
LEMMA ChainBound ==
    ASSUME NEW q \in Seq(ClientSegments), NEW from \in Nat, NEW upto \in Nat,
           Chain(q, from, upto)
    PROVE  from <= upto
<1>1. CASE q = <<>>
  BY <1>1 DEF Chain
<1>2. CASE q # <<>>
  <2>1. 1 \in 1 .. Len(q) /\ q[1] \in ClientSegments
    BY <1>2
  <2>2. q[1].seq \in Nat /\ After(q[1]) \in Nat /\ After(q[1]) >= q[1].seq
    BY <2>1, SegmentKind
  <2> QED BY <1>2, <2>1, <2>2 DEF Chain
<1> QED BY <1>1, <1>2

\* What there is when a client sends one segment more.
LEMMA SendChain ==
    ASSUME NEW q \in Seq(ClientSegments), NEW from \in Nat, NEW upto \in Nat,
           Chain(q, from, upto), NEW seg \in ClientSegments, seg.seq = upto
    PROVE  Chain(Append(q, seg), from, After(seg))
<1> DEFINE r == Append(q, seg)
           n == Len(q)
<1>1. /\ r \in Seq(ClientSegments) /\ n \in Nat /\ Len(r) = n + 1 /\ r # <<>>
      /\ \A i \in 1 .. n : r[i] = q[i]
      /\ r[n + 1] = seg
      /\ \A i \in 1 .. Len(r) : i \in 1 .. n \/ i = n + 1
      /\ q = <<>> <=> n = 0
  BY AppendItems
<1>2. After(seg) \in Nat /\ After(seg) >= upto
  BY SegmentKind
<1>3. \A i \in 1 .. n : After(q[i]) \in Nat
  BY SegmentKind
<1> HIDE DEF r, n
<1>4. /\ n = 0 => from = upto
      /\ n # 0 => q[1].seq = from /\ After(q[n]) = upto
      /\ \A i \in 1 .. n : After(q[i]) <= upto
      /\ \A i \in 1 .. n : i < n => q[i + 1].seq = After(q[i])
  BY <1>1 DEF Chain, n
<1>5. r[1].seq = from
  BY <1>1, <1>4
<1>6. ASSUME NEW i \in 1 .. Len(r)
      PROVE  After(r[i]) <= After(seg) /\ (i < Len(r) => r[i + 1].seq = After(r[i]))
  <2>1. CASE i = n + 1
    BY <1>1, <1>2, <2>1
  <2>2. CASE i \in 1 .. n
    <3>1. r[i] = q[i] /\ After(q[i]) <= After(seg)
      BY <1>1, <1>2, <1>3, <1>4, <2>2
    <3>2. CASE i < n
      <4>1. i + 1 \in 1 .. n
        BY <1>1, <2>2, <3>2
      <4> QED BY <1>1, <1>4, <2>2, <3>1, <3>2, <4>1
    <3>3. CASE i = n
      BY <1>1, <1>4, <2>2, <3>1, <3>3
    <3> QED BY <1>1, <2>2, <3>2, <3>3
  <2> QED BY <1>1, <2>1, <2>2
<1>7. After(r[Len(r)]) = After(seg)
  BY <1>1
<1> QED BY <1>1, <1>5, <1>6, <1>7 DEF Chain, r

\* A client that sends keeps the order of what it has sent: a SYN alone, a FIN
\* once, payload before it.
LEMMA SendOrder ==
    ASSUME NEW q \in Seq(ClientSegments), NEW seg \in ClientSegments, ~HasSyn(q),
           NEW state, NEW sent \in Nat, WireOrder(q, state, sent),
           NEW next, NEW more \in Nat,
           state = "fin_wait" => IsAck(seg) /\ (HasLoad(q) => next = "fin_wait"),
           HasLoad(q) => sent <= more,
           IsSyn(seg) => next = "syn_sent",
           IsFin(seg) => next = "fin_wait",
           IsData(seg) => After(seg) <= more + 1
    PROVE  /\ WireOrder(Append(q, seg), next, more)
           /\ HasSyn(Append(q, seg)) => IsSyn(seg)
           /\ HasLoad(Append(q, seg)) => HasLoad(q) \/ IsFin(seg) \/ IsData(seg)
           /\ Append(q, seg) # <<>> /\ Append(q, seg)[Len(Append(q, seg))] = seg
           /\ q # <<>> => Append(q, seg)[1] = q[1]
<1> DEFINE r == Append(q, seg)
           n == Len(q)
<1>1. /\ r \in Seq(ClientSegments) /\ n \in Nat /\ Len(r) = n + 1 /\ r # <<>>
      /\ \A i \in 1 .. n : r[i] = q[i] /\ q[i] \in ClientSegments
      /\ r[n + 1] = seg
      /\ \A i \in 1 .. Len(r) : i \in 1 .. n \/ i = n + 1
      /\ q # <<>> => 1 \in 1 .. n
  BY AppendItems
<1>2. \A i \in 1 .. n :
       /\ IsSyn(q[i]) => state = "syn_sent" /\ i = n
       /\ IsFin(q[i]) => state = "fin_wait" /\ \A j \in (i + 1) .. n : IsAck(q[j])
       /\ IsData(q[i]) => After(q[i]) <= sent + 1
  BY DEF WireOrder
<1>3. \A i \in 1 .. n : /\ ~IsSyn(q[i])
                        /\ IsFin(q[i]) \/ IsData(q[i]) => HasLoad(q)
                        /\ After(q[i]) \in Nat
  BY <1>1, SegmentKind DEF HasSyn, HasLoad
<1> HIDE DEF r, n
<1>4. WireOrder(r, next, more)
  <2> SUFFICES ASSUME NEW i \in 1 .. Len(r)
               PROVE  /\ IsSyn(r[i]) => next = "syn_sent" /\ i = Len(r)
                      /\ IsFin(r[i]) => next = "fin_wait"
                                        /\ \A j \in (i + 1) .. Len(r) : IsAck(r[j])
                      /\ IsData(r[i]) => After(r[i]) <= more + 1
    BY DEF WireOrder
  <2>1. CASE i = n + 1
    <3>1. (i + 1) .. Len(r) = {}
      BY <1>1, <2>1
    <3> QED BY <1>1, <2>1, <3>1
  <2>2. CASE i \in 1 .. n
    <3>1. r[i] = q[i] /\ ~IsSyn(r[i])
      BY <1>1, <1>3, <2>2
    <3>2. ASSUME IsData(r[i]) PROVE After(r[i]) <= more + 1
      BY <1>2, <1>3, <2>2, <3>1, <3>2
    <3>3. ASSUME IsFin(r[i]), NEW j \in (i + 1) .. Len(r) PROVE IsAck(r[j])
      <4>1. j \in (i + 1) .. n \/ j = n + 1
        BY <1>1, <2>2
      <4>2. j \in (i + 1) .. n => j \in 1 .. n
        BY <1>1, <2>2
      <4> QED BY <1>1, <1>2, <2>2, <3>1, <3>3, <4>1, <4>2
    <3> QED BY <1>2, <1>3, <2>2, <3>1, <3>2, <3>3
  <2> QED BY <1>1, <2>1, <2>2
<1>5. HasSyn(r) => IsSyn(seg)
  BY <1>1, <1>3 DEF HasSyn
<1>6. ASSUME HasLoad(r), ~IsFin(seg), ~IsData(seg) PROVE HasLoad(q)
  <2>1. PICK i \in 1 .. Len(r) : IsFin(r[i]) \/ IsData(r[i])
    BY <1>6 DEF HasLoad
  <2>2. i \in 1 .. n
    BY <1>1, <1>6, <2>1
  <2> QED BY <1>1, <1>3, <2>1, <2>2
<1>7. r[Len(r)] = seg
  BY <1>1
<1>8. q # <<>> => r[1] = q[1]
  BY <1>1
<1> QED BY <1>1, <1>4, <1>5, <1>6, <1>7, <1>8 DEF r

\* A ring or a wire from which the first segment is taken.
LEMMA TakeFlow ==
    ASSUME NEW q \in Seq(Segments), q # <<>>, NEW flag
    PROVE  /\ Tail(q) \in Seq(Segments) /\ Head(q) \in Segments
           /\ HasFlag(flag, Tail(q)) => HasFlag(flag, q)
           /\ flag \in Head(q).flags => HasFlag(flag, q)
           /\ Once(flag, q) => Once(flag, Tail(q))
           /\ Once(flag, q) /\ flag \in Head(q).flags => ~HasFlag(flag, Tail(q))
           /\ OnlyLast(flag, q) => OnlyLast(flag, Tail(q))
           /\ OnlyLast(flag, q) /\ flag \in Head(q).flags => Tail(q) = <<>>
           /\ \A upto : Acked(q, upto) => Acked(Tail(q), upto) /\ Head(q).ack <= upto
<1> DEFINE r == Tail(q)
<1>1. /\ r \in Seq(Segments) /\ Len(q) \in Nat \ {0} /\ Len(r) = Len(q) - 1
      /\ \A i \in 1 .. Len(r) : i + 1 \in 1 .. Len(q) /\ r[i] = q[i + 1] /\ i \in Nat
      /\ Head(q) = q[1] /\ 1 \in 1 .. Len(q) /\ q[1] \in Segments
      /\ r = <<>> <=> Len(r) = 0
  BY TailItems
<1> HIDE DEF r
<1>2. HasFlag(flag, r) => HasFlag(flag, q)
  BY <1>1 DEF HasFlag
<1>3. flag \in q[1].flags => HasFlag(flag, q)
  BY <1>1 DEF HasFlag
<1>4. ASSUME Once(flag, q) PROVE Once(flag, r)
  <2>1. ASSUME NEW i \in 1 .. Len(r), NEW j \in 1 .. Len(r),
               flag \in r[i].flags, flag \in r[j].flags
        PROVE  i = j
    <3>1. /\ i + 1 \in 1 .. Len(q) /\ r[i] = q[i + 1] /\ i \in Nat
          /\ j + 1 \in 1 .. Len(q) /\ r[j] = q[j + 1] /\ j \in Nat
      BY <1>1
    <3>2. i + 1 = j + 1
      BY <1>4, <2>1, <3>1 DEF Once
    <3> QED BY <3>1, <3>2
  <2> QED BY <2>1 DEF Once
<1>5. ASSUME Once(flag, q), flag \in q[1].flags PROVE ~HasFlag(flag, r)
  <2>1. ASSUME NEW i \in 1 .. Len(r) PROVE flag \notin r[i].flags
    <3>1. i + 1 \in 1 .. Len(q) /\ r[i] = q[i + 1] /\ i \in Nat /\ i # 0
      BY <1>1
    <3>2. i + 1 # 1
      BY <3>1
    <3> QED BY <1>1, <1>5, <3>1, <3>2 DEF Once
  <2> QED BY <2>1 DEF HasFlag
<1>6. ASSUME OnlyLast(flag, q) PROVE OnlyLast(flag, r)
  <2>1. ASSUME NEW i \in 1 .. Len(r), flag \in r[i].flags PROVE i = Len(r)
    <3>1. i + 1 \in 1 .. Len(q) /\ r[i] = q[i + 1] /\ i \in Nat
      BY <1>1
    <3>2. i + 1 = Len(q)
      BY <1>6, <2>1, <3>1 DEF OnlyLast
    <3> QED BY <1>1, <3>1, <3>2
  <2> QED BY <2>1 DEF OnlyLast
<1>7. ASSUME OnlyLast(flag, q), flag \in q[1].flags PROVE r = <<>>
  <2>1. Len(q) = 1
    BY <1>1, <1>7 DEF OnlyLast
  <2> QED BY <1>1, <2>1
<1>8. ASSUME NEW upto, Acked(q, upto) PROVE Acked(r, upto) /\ q[1].ack <= upto
  BY <1>1, <1>8 DEF Acked
<1> QED BY <1>1, <1>2, <1>3, <1>4, <1>5, <1>6, <1>7, <1>8 DEF r

\* A ring or a wire in which a segment is put.
LEMMA PutFlow ==
    ASSUME NEW q \in Seq(Segments), NEW seg \in Segments, NEW flag
    PROVE  /\ Append(q, seg) \in Seq(Segments)
           /\ HasFlag(flag, Append(q, seg)) => HasFlag(flag, q) \/ flag \in seg.flags
           /\ Once(flag, q) /\ (flag \in seg.flags => ~HasFlag(flag, q)) =>
                 Once(flag, Append(q, seg))
           /\ ~HasFlag(flag, q) => OnlyLast(flag, Append(q, seg))
           /\ \A upto : Acked(q, upto) /\ seg.ack <= upto => Acked(Append(q, seg), upto)
<1> DEFINE r == Append(q, seg)
           n == Len(q)
<1>1. /\ r \in Seq(Segments) /\ n \in Nat /\ Len(r) = n + 1
      /\ \A i \in 1 .. n : r[i] = q[i]
      /\ r[n + 1] = seg
      /\ \A i \in 1 .. Len(r) : i \in 1 .. n \/ i = n + 1
  BY AppendItems
<1> HIDE DEF r, n
<1>2. HasFlag(flag, r) => HasFlag(flag, q) \/ flag \in seg.flags
  BY <1>1 DEF HasFlag, n
<1>3. \A i \in 1 .. n : ~HasFlag(flag, q) => flag \notin r[i].flags
  BY <1>1 DEF HasFlag, n
<1>4. ASSUME Once(flag, q), flag \in seg.flags => ~HasFlag(flag, q) PROVE Once(flag, r)
  <2>1. ASSUME NEW i \in 1 .. Len(r), NEW j \in 1 .. Len(r),
               flag \in r[i].flags, flag \in r[j].flags
        PROVE  i = j
    <3>1. CASE i \in 1 .. n /\ j \in 1 .. n
      BY <1>1, <1>4, <2>1, <3>1 DEF Once, n
    <3>2. CASE i = n + 1 /\ j \in 1 .. n
      BY <1>1, <1>3, <1>4, <2>1, <3>2
    <3>3. CASE j = n + 1 /\ i \in 1 .. n
      BY <1>1, <1>3, <1>4, <2>1, <3>3
    <3> QED BY <1>1, <3>1, <3>2, <3>3
  <2> QED BY <2>1 DEF Once
<1>5. ASSUME ~HasFlag(flag, q) PROVE OnlyLast(flag, r)
  BY <1>1, <1>3, <1>5 DEF OnlyLast
<1>6. ASSUME NEW upto, Acked(q, upto), seg.ack <= upto PROVE Acked(r, upto)
  BY <1>1, <1>6 DEF Acked, n
<1> QED BY <1>1, <1>2, <1>4, <1>5, <1>6 DEF r

\* What is acked up to a number is acked up to a greater one.
LEMMA AckedMore ==
    ASSUME NEW q \in Seq(Segments), NEW upto \in Nat, NEW more \in Nat, upto <= more,
           Acked(q, upto)
    PROVE  Acked(q, more)
<1>1. \A i \in 1 .. Len(q) : q[i] \in Segments
  OBVIOUS
<1>2. \A i \in 1 .. Len(q) : q[i].ack \in Nat
  BY <1>1 DEF Segments
<1> QED BY <1>2 DEF Acked

\* An empty ring or wire carries no flag and acks nothing.
LEMMA EmptyFlow ==
    ASSUME NEW flag, NEW upto
    PROVE  /\ ~HasFlag(flag, <<>>) /\ Once(flag, <<>>) /\ OnlyLast(flag, <<>>)
           /\ Acked(<<>>, upto)
<1>1. 1 .. Len(<<>>) = {}
  OBVIOUS
<1> QED BY <1>1 DEF HasFlag, Once, OnlyLast, Acked
-----------------------------------------------------------------------------
\* What the packet lcore has in hand for stream s, and what it has taken from the
\* wire and not counted: that, and what came without PSH.
InHand(s) == IF pstream # s THEN 0
             ELSE IF ppc \in AtData THEN Len(pseg.data)
             ELSE IF ppc \in AtFin THEN 1 ELSE 0
Uncounted(s) == skipped[s] + InHand(s)

\* Stream s still takes payload; nclose has begun on it; it has sent its FIN.
TakesLoad(s) == status[s] \in {"SYN_RCVD", "ESTABLISHED"} /\ ~(pstream = s /\ ppc = "fin")
Shutting(s) == apc = "close-status" /\ ahost = s
Ended(s) == status[s] = "LAST_ACK" \/ (status[s] = "CLOSE_WAIT" /\ Shutting(s))

OpenAt(c) == \E s \in Streams : IsStream(c, s) /\ TakesLoad(s)
Over(c) == cst[c] = "fin_wait" /\ \A s \in Streams : IsStream(c, s) => Ended(s)

\* What is on its way from client c, which has connected no sooner than its last
\* connection ended.
WireInv(c) ==
    /\ WireOrder(to_stack[c], cst[c], csent[c])
    /\ HasLoad(to_stack[c]) => cst[c] \in Talking /\ OpenAt(c)
    /\ cst[c] = "syn_sent" =>
          /\ csent[c] = 0
          /\ to_stack[c] # <<>> => IsSyn(to_stack[c][Len(to_stack[c])])
    /\ cst[c] = "estab" => OpenAt(c)

\* How far stream s of client c is.
StreamInv(c, s) ==
    /\ cst[c] = "closed" => status[s] \in Closing
    /\ cst[c] = "syn_sent" => status[s] # "ESTABLISHED"
    /\ cst[c] \notin Talking /\ status[s] = "CLOSE_WAIT" => Shutting(s)
    /\ HasSyn(to_stack[c]) => status[s] \in Closing
    /\ cst[c] \in Talking =>
          /\ status[s] # "LISTEN"
          /\ Chain(to_stack[c], rcv_nxt[s] + Uncounted(s), SentUpTo(c))
          /\ status[s] = "SYN_RCVD" => to_stack[c] # <<>> /\ IsAck(to_stack[c][1])

\* What is on its way to client c, and what stream s has for it.
ToClientInv(c) ==
    /\ Once("FIN", to_client[c])
    /\ HasFlag("FIN", to_client[c]) => Over(c)
    /\ HasFlag("SYN", to_client[c]) =>
          /\ cst[c] = "syn_sent" /\ OnlyLast("SYN", to_client[c])
          /\ \E s \in Streams :
                IsStream(c, s) /\ status[s] = "SYN_RCVD" /\ sndbuf[s] = <<>>
    /\ cst[c] \in Talking => Acked(to_client[c], SentUpTo(c))

RingInv(c, s) ==
    /\ Once("FIN", sndbuf[s])
    /\ HasFlag("FIN", sndbuf[s]) => Over(c) /\ ~HasFlag("FIN", to_client[c])
    /\ HasFlag("SYN", sndbuf[s]) =>
          cst[c] = "syn_sent" /\ status[s] = "SYN_RCVD" /\ OnlyLast("SYN", sndbuf[s])
    /\ cst[c] \in Talking => Acked(sndbuf[s], SentUpTo(c))

ClientInv(c) ==
    /\ WireInv(c) /\ ToClientInv(c)
    /\ \A s \in Streams : IsStream(c, s) => StreamInv(c, s) /\ RingInv(c, s)

\* What each lcore has in hand.
PacketInv ==
    /\ ppc = "synack" => cst[peer[pstream]] = "syn_sent" /\ to_stack[peer[pstream]] = <<>>
    /\ ppc = "fin" => cst[peer[pstream]] = "fin_wait"
    /\ ppc \in AtData => /\ pseg.seq = rcv_nxt[pstream] + skipped[pstream]
                         /\ After(pseg) <= MaxUnits + 1
Sealing == {"send-enqueue", "close-fin"}
FragmentInv ==
    apc \in Sealing =>
        /\ afrag.flags = IF apc = "send-enqueue" THEN {"ACK", "PSH"} ELSE {"ACK", "FIN"}
        /\ cst[peer[ahost]] \in Talking => afrag.ack <= SentUpTo(peer[ahost])

TalkInv == (\A c \in Clients : ClientInv(c)) /\ PacketInv /\ FragmentInv
BaseInv == UpInv /\ KindInv /\ FreshInv /\ SenderInv

-----------------------------------------------------------------------------
\* The step that does not touch what concerns a client.
SameView(c) ==
    /\ cst'[c] = cst[c] /\ csent'[c] = csent[c]
    /\ to_stack'[c] = to_stack[c] /\ to_client'[c] = to_client[c]
    /\ \A s \in Streams :
          /\ IsStream(c, s)' <=> IsStream(c, s)
          /\ IsStream(c, s) =>
                /\ status'[s] = status[s] /\ rcv_nxt'[s] = rcv_nxt[s]
                /\ sndbuf'[s] = sndbuf[s]
                /\ Shutting(s)' <=> Shutting(s)
                /\ TakesLoad(s)' <=> TakesLoad(s)
                /\ Uncounted(s)' = Uncounted(s)

\* A step that leaves the view of a client as it is leaves what is under way to
\* and from it.
LEMMA SameClient ==
    ASSUME NEW c \in Clients, ClientInv(c), SameView(c)
    PROVE  ClientInv(c)'
<1>1. /\ cst'[c] = cst[c] /\ csent'[c] = csent[c]
      /\ to_stack'[c] = to_stack[c] /\ to_client'[c] = to_client[c]
      /\ SentUpTo(c)' = SentUpTo(c)
  BY DEF SameView, SentUpTo
<1>2. ASSUME NEW s \in Streams
      PROVE  /\ IsStream(c, s)' <=> IsStream(c, s)
             /\ IsStream(c, s) =>
                   /\ status'[s] = status[s] /\ rcv_nxt'[s] = rcv_nxt[s]
                   /\ sndbuf'[s] = sndbuf[s]
                   /\ Shutting(s)' <=> Shutting(s)
                   /\ TakesLoad(s)' <=> TakesLoad(s)
                   /\ Uncounted(s)' = Uncounted(s)
                   /\ Ended(s)' <=> Ended(s)
  BY DEF SameView, Ended
<1>3. (OpenAt(c)' <=> OpenAt(c)) /\ (Over(c)' <=> Over(c))
  BY <1>1, <1>2 DEF OpenAt, Over
<1>4. WireInv(c)'
  BY <1>1, <1>3 DEF ClientInv, WireInv
<1>5. ToClientInv(c)'
  BY <1>1, <1>2, <1>3 DEF ClientInv, ToClientInv
<1>6. ASSUME NEW s \in Streams, IsStream(c, s)' PROVE StreamInv(c, s)' /\ RingInv(c, s)'
  <2>1. StreamInv(c, s) /\ RingInv(c, s) /\ IsStream(c, s)
    BY <1>2, <1>6 DEF ClientInv
  <2>2. StreamInv(c, s)'
    BY <1>1, <1>2, <2>1 DEF StreamInv
  <2>3. RingInv(c, s)'
    BY <1>1, <1>2, <1>3, <2>1 DEF RingInv
  <2> QED BY <2>2, <2>3
<1> QED BY <1>4, <1>5, <1>6 DEF ClientInv

\* So a step that changes the view of one client has only that one to answer for.
LEMMA OneClient ==
    ASSUME \A d \in Clients : ClientInv(d), NEW c \in Clients, ClientInv(c)',
           \A d \in Clients \ {c} : SameView(d)
    PROVE  \A d \in Clients : ClientInv(d)'
BY SameClient

\* The facts about types that the steps below use.
LEMMA BaseFacts ==
    ASSUME BaseInv
    PROVE  /\ status \in [Streams -> Statuses] /\ peer \in [Streams -> Clients \cup {NULL}]
           /\ rcv_nxt \in [Streams -> Nat] /\ snd_nxt \in [Streams -> Nat]
           /\ skipped \in [Streams -> Nat] /\ sndbuf \in [Streams -> Seq(Segments)]
           /\ to_stack \in [Clients -> Seq(ClientSegments)]
           /\ to_client \in [Clients -> Seq(Segments)]
           /\ cst \in [Clients -> {"closed", "syn_sent", "estab", "fin_wait"}]
           /\ csent \in [Clients -> 0 .. MaxUnits] /\ crcv \in [Clients -> Nat]
           /\ MaxUnits \in Nat /\ NULL \notin Clients \cup Streams
           /\ \A c \in Clients : csent[c] \in Nat /\ SentUpTo(c) \in Nat
           /\ \A s \in Streams : InHand(s) \in Nat /\ Uncounted(s) \in Nat
<1>1. /\ status \in [Streams -> Statuses] /\ peer \in [Streams -> Clients \cup {NULL}]
      /\ rcv_nxt \in [Streams -> Nat] /\ snd_nxt \in [Streams -> Nat]
      /\ skipped \in [Streams -> Nat]
      /\ sndbuf \in [Streams -> Seq(Segments)] /\ pseg \in Segments
  BY RingFacts DEF BaseInv, UpInv
<1>2. to_stack \in [Clients -> Seq(ClientSegments)]
  BY DEF BaseInv, KindInv
<1>3. /\ to_client \in [Clients -> Seq(Segments)]
      /\ cst \in [Clients -> {"closed", "syn_sent", "estab", "fin_wait"}]
      /\ csent \in [Clients -> 0 .. MaxUnits] /\ crcv \in [Clients -> Nat]
  BY DEF BaseInv, UpInv, IInv, TypeOK, ClientOK, WireOK
<1>4. MaxUnits \in Nat /\ NULL \notin Clients \cup Streams
  BY UstackAssumption
<1>5. \A c \in Clients : csent[c] \in Nat /\ SentUpTo(c) \in Nat
  BY <1>3, <1>4 DEF SentUpTo
<1>6. \A s \in Streams : InHand(s) \in Nat /\ Uncounted(s) \in Nat
  <2>1. Len(pseg.data) \in Nat
    BY <1>1 DEF Segments
  <2>2. \A s \in Streams : InHand(s) \in Nat
    BY <2>1 DEF InHand
  <2> QED BY <1>1, <2>2 DEF Uncounted
<1> QED BY <1>1, <1>2, <1>3, <1>4, <1>5, <1>6

\* A client has one stream at most, which is not the listener.
LEMMA StreamFacts ==
    ASSUME BaseInv
    PROVE  /\ \A c \in Clients, s \in Streams : IsStream(c, s) =>
                /\ s # Listener /\ status[s] \notin {"FREE", "CLOSED"} /\ s \in Table
                /\ peer[s] = c /\ \A t \in Streams : IsStream(c, t) => t = s
           /\ \A s \in Table \ {Listener} :
                s \in Streams /\ peer[s] \in Clients /\ IsStream(peer[s], s)
           /\ \A s \in Streams : InUse(s) /\ s # Listener => s \in Table \ {Listener}
<1>1. /\ Table \subseteq Streams /\ NULL \notin Clients
      /\ \A s \in Table \ {Listener} : peer[s] \in Clients
      /\ peer[Listener] = NULL
      /\ \A s, t \in Table : peer[s] = peer[t] => s = t
      /\ \A s \in Streams : s \in Table => status[s] # "FREE"
      /\ \A s \in Streams : s \in Table => status[s] # "CLOSED"
  <2>1. IInv
    BY DEF BaseInv, UpInv
  <2> QED BY <2>1, TableFacts, UstackAssumption DEF IInv, TableInv
<1> QED BY <1>1 DEF IsStream, InUse

\* Payload and FINs that a stream has not counted it will count: it has not yet
\* passed what its client has sent.
LEMMA CountedWasSent ==
    ASSUME BaseInv, NEW c \in Clients, ClientInv(c), NEW s \in Streams, IsStream(c, s),
           cst[c] \in Talking
    PROVE  rcv_nxt[s] + Uncounted(s) <= SentUpTo(c) /\ rcv_nxt[s] <= SentUpTo(c)
<1>1. Chain(to_stack[c], rcv_nxt[s] + Uncounted(s), SentUpTo(c))
  BY DEF ClientInv, StreamInv
<1>2. /\ to_stack[c] \in Seq(ClientSegments) /\ rcv_nxt[s] \in Nat /\ Uncounted(s) \in Nat
      /\ SentUpTo(c) \in Nat
  BY BaseFacts
<1>3. rcv_nxt[s] + Uncounted(s) \in Nat
  BY <1>2
<1>4. rcv_nxt[s] + Uncounted(s) <= SentUpTo(c)
  BY <1>1, <1>2, <1>3, ChainBound
<1> QED BY <1>2, <1>4

\* Where the application neither sends nor closes.
LEMMA AppQuiet ==
    ASSUME BaseInv, TalkInv,
           \/ \E f \in Fds \cup {ListenFd} : AppEvent(f)
           \/ AppFindNext \/ AppFound \/ AppNotFound
           \/ AcceptLock \/ AcceptScan \/ AcceptAssign
           \/ RecvLock \/ RecvEmpty \/ RecvWait \/ RecvTake \/ RecvRequeue \/ RecvDone
           \/ CloseFd \/ UNCHANGED vars
    PROVE  TalkInv'
<1> USE DEF tableVars, seqVars, bufVars, callVars, cursorVars, hostVars, localVars, appVars,
        pktVars, clientVars, wireVars, envVars, stackVars
<1>1. /\ UNCHANGED <<tcb_set, status, peer, rcv_nxt, skipped, sndbuf, pktVars, clientVars, wireVars>>
      /\ \/ UNCHANGED <<apc, ahost, afrag>>
         \/ apc # "close-status" /\ apc' \notin {"close-status"} \cup Sealing
  <2>1. acall \in {"accept", "recv", "send", "close"}
    BY DEF BaseInv, UpInv, IInv, TypeOK, AppOK
  <2> QED BY <2>1 DEF AppEvent, Call, AppFindNext, Advance, AppFound, AppNotFound, AcceptLock, AcceptScan,
         AcceptAssign, RecvLock, RecvEmpty, RecvWait, RecvTake, RecvRequeue, RecvDone,
         CloseFd, Sealing, vars
<1>2. ASSUME NEW c \in Clients PROVE SameView(c)
  BY <1>1 DEF SameView, IsStream, Table, Shutting, TakesLoad, Uncounted, InHand
<1>3. \A c \in Clients : ClientInv(c)'
  BY <1>2, SameClient DEF TalkInv
<1>4. PacketInv'
  BY <1>1 DEF TalkInv, PacketInv
<1>5. FragmentInv'
  BY <1>1 DEF TalkInv, FragmentInv, SentUpTo
<1> QED BY <1>3, <1>4, <1>5 DEF TalkInv

\* nsend or nclose makes a fragment: it takes the number its stream has counted.
LEMMA BuildTalk ==
    ASSUME BaseInv, TalkInv, SendBuild \/ CloseBuild
    PROVE  TalkInv'
<1> USE DEF tableVars, seqVars, bufVars, callVars, cursorVars, hostVars, localVars, appVars,
        pktVars, clientVars, wireVars, envVars, stackVars
<1>1. /\ UNCHANGED <<tcb_set, status, peer, rcv_nxt, skipped, sndbuf, pktVars, clientVars, wireVars>>
      /\ ahost' = ahost
      /\ \/ apc = "send-build" /\ apc' = "send-enqueue" /\ afrag'.flags = {"ACK", "PSH"}
         \/ apc = "close-build" /\ apc' = "close-fin" /\ afrag'.flags = {"ACK", "FIN"}
      /\ afrag'.ack = rcv_nxt[ahost]
  BY DEF SendBuild, CloseBuild, Fragment, Segment
<1>2. ASSUME NEW c \in Clients PROVE SameView(c)
  BY <1>1 DEF SameView, IsStream, Table, Shutting, TakesLoad, Uncounted, InHand
<1>3. \A c \in Clients : ClientInv(c)'
  BY <1>2, SameClient DEF TalkInv
<1>4. PacketInv'
  BY <1>1 DEF TalkInv, PacketInv
<1>5. FragmentInv'
  <2>1. ahost \in Streams /\ ahost # Listener /\ InUse(ahost)
    BY <1>1, RingFacts DEF BaseInv, UpInv, HoldInv, Transfer
  <2>2. peer[ahost] \in Clients /\ IsStream(peer[ahost], ahost)
    BY <2>1, StreamFacts
  <2>4. cst[peer[ahost]] \in Talking => rcv_nxt[ahost] <= SentUpTo(peer[ahost])
    BY <2>1, <2>2, CountedWasSent DEF TalkInv
  <2> QED BY <1>1, <2>4 DEF FragmentInv, SentUpTo
<1> QED BY <1>3, <1>4, <1>5 DEF TalkInv

\* A fragment that is put in the send ring of a stream that is open.
LEMMA PutInRing ==
    ASSUME BaseInv, NEW c \in Clients, ClientInv(c), NEW s \in Streams, IsStream(c, s),
           NEW seg \in Segments,
           "SYN" \notin seg.flags, status[s] # "SYN_RCVD", 
           cst[c] \in Talking => seg.ack <= SentUpTo(c),
           "FIN" \in seg.flags => ~HasFlag("FIN", sndbuf[s]) /\ ~HasFlag("FIN", to_client[c])
    PROVE  LET ring == Append(sndbuf[s], seg)
           IN  /\ Once("FIN", ring) /\ ~HasFlag("SYN", ring)
               /\ HasFlag("FIN", ring) => ~HasFlag("FIN", to_client[c])
               /\ HasFlag("FIN", ring) => "FIN" \in seg.flags \/ Over(c)
               /\ cst[c] \in Talking => Acked(ring, SentUpTo(c))
<1> DEFINE q == sndbuf[s]
           ring == Append(q, seg)
<1>1. q \in Seq(Segments)
  BY BaseFacts
<1>2. /\ Once("FIN", q) /\ ~HasFlag("SYN", q)
      /\ HasFlag("FIN", q) => Over(c) /\ ~HasFlag("FIN", to_client[c])
      /\ cst[c] \in Talking => Acked(q, SentUpTo(c))
  BY DEF ClientInv, RingInv
<1> HIDE DEF q
<1>3. \A flag : /\ HasFlag(flag, ring) => HasFlag(flag, q) \/ flag \in seg.flags
                /\ Once(flag, q) /\ (flag \in seg.flags => ~HasFlag(flag, q)) =>
                      Once(flag, ring)
                /\ \A upto : Acked(q, upto) /\ seg.ack <= upto => Acked(ring, upto)
  BY <1>1, PutFlow
<1>4. "FIN" \in seg.flags => ~HasFlag("FIN", q)
  BY DEF q
<1>5. Once("FIN", ring)
  BY <1>2, <1>3, <1>4
<1>6. /\ ~HasFlag("SYN", ring)
      /\ HasFlag("FIN", ring) => ~HasFlag("FIN", to_client[c])
      /\ HasFlag("FIN", ring) => "FIN" \in seg.flags \/ Over(c)
  BY <1>2, <1>3
<1>7. cst[c] \in Talking => Acked(ring, SentUpTo(c))
  BY <1>2, <1>3
<1> QED BY <1>5, <1>6, <1>7 DEF q

\* No segment of the handshake is on its way to a client whose stream has left SYN_RCVD.
LEMMA NoHandshake ==
    ASSUME BaseInv, NEW c \in Clients, ClientInv(c), NEW s \in Streams, IsStream(c, s),
           status[s] # "SYN_RCVD"
    PROVE  ~HasFlag("SYN", to_client[c]) /\ ~HasFlag("SYN", sndbuf[s])
<1>1. \A t \in Streams : IsStream(c, t) => t = s
  BY StreamFacts
<1> QED BY <1>1 DEF ClientInv, ToClientInv, RingInv

\* What is put in a send ring, where nothing else of the connection changes.
LEMMA PutTalk ==
    ASSUME BaseInv, \A d \in Clients : ClientInv(d),
           NEW c \in Clients, NEW s \in Streams, IsStream(c, s), NEW seg \in Segments,
           "SYN" \notin seg.flags, "FIN" \notin seg.flags, status[s] # "SYN_RCVD",
           cst[c] \in Talking => seg.ack <= SentUpTo(c),
           sndbuf' = [sndbuf EXCEPT ![s] = Append(@, seg)],
           UNCHANGED <<tcb_set, status, peer, rcv_nxt, skipped, cst, csent, to_stack, to_client>>,
           \A t \in Streams : /\ Shutting(t)' <=> Shutting(t)
                              /\ TakesLoad(t)' <=> TakesLoad(t)
                              /\ Uncounted(t)' = Uncounted(t)
    PROVE  \A d \in Clients : ClientInv(d)'
<1>1. /\ \A t \in Streams : t # s => sndbuf'[t] = sndbuf[t]
      /\ sndbuf'[s] = Append(sndbuf[s], seg)
  BY BaseFacts
<1>2. \A d \in Clients, t \in Streams : IsStream(d, t)' <=> IsStream(d, t)
  BY DEF IsStream, Table
<1>3. ASSUME NEW d \in Clients \ {c} PROVE SameView(d)
  <2>1. ~IsStream(d, s)
    BY <1>3 DEF IsStream
  <2> QED BY <1>1, <1>2, <2>1 DEF SameView
<1>4. ClientInv(c)'
  <2>1. ClientInv(c) /\ ~HasFlag("SYN", to_client[c])
    BY NoHandshake
  <2>2. /\ SentUpTo(c)' = SentUpTo(c) /\ (OpenAt(c)' <=> OpenAt(c)) /\ (Over(c)' <=> Over(c))
        /\ \A t \in Streams : Ended(t)' <=> Ended(t)
    BY <1>2 DEF SentUpTo, OpenAt, Over, Ended
  <2>3. WireInv(c)'
    BY <2>1, <2>2 DEF ClientInv, WireInv
  <2>4. ToClientInv(c)'
    BY <2>1, <2>2 DEF ClientInv, ToClientInv
  <2>5. ASSUME NEW t \in Streams, IsStream(c, t)' PROVE StreamInv(c, t)' /\ RingInv(c, t)'
    <3>1. IsStream(c, t) /\ t = s /\ StreamInv(c, s)
      BY <1>2, <2>1, <2>5, StreamFacts DEF ClientInv
    <3>2. StreamInv(c, s)'
      BY <2>2, <3>1 DEF StreamInv
    <3>3. LET ring == Append(sndbuf[s], seg)
          IN  /\ Once("FIN", ring) /\ ~HasFlag("SYN", ring)
              /\ HasFlag("FIN", ring) => ~HasFlag("FIN", to_client[c])
              /\ HasFlag("FIN", ring) => "FIN" \in seg.flags \/ Over(c)
              /\ cst[c] \in Talking => Acked(ring, SentUpTo(c))
      BY <2>1, PutInRing
    <3>4. RingInv(c, s)'
      BY <1>1, <2>2, <3>3 DEF RingInv
    <3> QED BY <3>1, <3>2, <3>4
  <2> QED BY <2>3, <2>4, <2>5 DEF ClientInv
<1> QED BY <1>3, <1>4, OneClient

\* nsend puts its fragment in the send ring of a stream that is established.
LEMMA EnqueueTalk ==
    ASSUME BaseInv, TalkInv, SendEnqueue
    PROVE  TalkInv'
<1> USE DEF tableVars, seqVars, bufVars, callVars, cursorVars, hostVars, localVars, appVars,
        pktVars, clientVars, wireVars, envVars, stackVars
<1>1. /\ UNCHANGED <<tcb_set, status, peer, rcv_nxt, skipped, pktVars, clientVars, wireVars>>
      /\ apc = "send-enqueue" /\ apc' = "idle"
      /\ sndbuf' = [sndbuf EXCEPT ![ahost] = Append(@, afrag)]
  BY DEF SendEnqueue, Enqueue
<1>2. /\ ahost \in Streams /\ IsStream(peer[ahost], ahost) /\ peer[ahost] \in Clients
      /\ status[ahost] # "SYN_RCVD" /\ afrag \in Segments
  <2>1. ahost \in Streams /\ ahost # Listener /\ InUse(ahost) /\ afrag \in Segments
    BY <1>1, RingFacts DEF BaseInv, UpInv, HoldInv, Transfer
  <2>2. status[ahost] # "SYN_RCVD"
    BY <1>1 DEF BaseInv, SenderInv
  <2> QED BY <2>1, <2>2, StreamFacts
<1>3. /\ "SYN" \notin afrag.flags /\ "FIN" \notin afrag.flags
      /\ cst[peer[ahost]] \in Talking => afrag.ack <= SentUpTo(peer[ahost])
  BY <1>1 DEF TalkInv, FragmentInv, Sealing
<1>4. \A t \in Streams : /\ Shutting(t)' <=> Shutting(t)
                         /\ TakesLoad(t)' <=> TakesLoad(t)
                         /\ Uncounted(t)' = Uncounted(t)
  BY <1>1 DEF Shutting, TakesLoad, Uncounted, InHand
<1>5. \A d \in Clients : ClientInv(d)'
  BY <1>1, <1>2, <1>3, <1>4, PutTalk DEF TalkInv
<1>6. PacketInv' /\ FragmentInv'
  BY <1>1 DEF TalkInv, PacketInv, FragmentInv, Sealing
<1> QED BY <1>5, <1>6 DEF TalkInv

\* ng_tcp_send_ackpkt: a handler puts an ACK in the ring of its stream.
LEMMA AckTalk ==
    ASSUME BaseInv, TalkInv, PktAck
    PROVE  TalkInv'
<1> USE DEF tableVars, seqVars, bufVars, callVars, cursorVars, hostVars, localVars, appVars,
        pktVars, clientVars, wireVars, envVars, stackVars
<1> DEFINE none == <<>>
           seg == Segment({"ACK"}, snd_nxt[pstream], rcv_nxt[pstream], none)
<1>1. /\ UNCHANGED <<tcb_set, status, peer, rcv_nxt, skipped, pstream, pseg, appVars, clientVars, wireVars>>
      /\ ppc \in {"ack", "fin-ack"} /\ ppc' \in {"fin", "idle"}
      /\ ppc' = "fin" => ppc = "ack" /\ "FIN" \in pseg.flags
      /\ sndbuf' = [sndbuf EXCEPT ![pstream] = Append(@, seg)]
  BY DEF PktAck, Enqueue, Fragment
<1>2. ppc' = "idle"
  BY <1>1 DEF BaseInv, KindInv, IsData
<1>3. /\ pstream \in Streams /\ IsStream(peer[pstream], pstream) /\ peer[pstream] \in Clients
      /\ status[pstream] # "SYN_RCVD"
  <2>1. pstream \in Streams \ {Listener} /\ pstream \in Table
    BY <1>1, RingFacts DEF BaseInv, UpInv
  <2>2. status[pstream] # "SYN_RCVD"
    BY <1>1 DEF BaseInv, UpInv, FreshInv, HandlerInv, DataPath, Closing
  <2> QED BY <2>1, <2>2, StreamFacts
<1>4. seg \in Segments /\ seg.flags = {"ACK"} /\ seg.ack = rcv_nxt[pstream]
  <2>1. {"ACK"} \in SUBSET Flags /\ none \in Seq(Nat)
    BY DEF Flags
  <2>2. snd_nxt[pstream] \in Nat /\ rcv_nxt[pstream] \in Nat
    BY <1>3, BaseFacts
  <2> HIDE DEF none
  <2> QED BY <2>1, <2>2, KindType
<1> HIDE DEF seg
<1>5. cst[peer[pstream]] \in Talking => seg.ack <= SentUpTo(peer[pstream])
  BY <1>3, <1>4, CountedWasSent DEF TalkInv
<1>6. \A t \in Streams : /\ Shutting(t)' <=> Shutting(t)
                         /\ TakesLoad(t)' <=> TakesLoad(t)
                         /\ Uncounted(t)' = Uncounted(t)
  BY <1>1, <1>2 DEF Shutting, TakesLoad, Uncounted, InHand, AtData, AtFin
<1>7. \A d \in Clients : ClientInv(d)'
  <2>1. "SYN" \notin seg.flags /\ "FIN" \notin seg.flags
    BY <1>4
  <2> QED BY <1>1, <1>3, <1>4, <1>5, <1>6, <2>1, PutTalk DEF TalkInv
<1>8. PacketInv' /\ FragmentInv'
  BY <1>1, <1>2 DEF TalkInv, PacketInv, FragmentInv, SentUpTo, AtData
<1> QED BY <1>7, <1>8 DEF TalkInv

\* nclose puts the only FIN of its stream in the ring, behind what nsend put there.
LEMMA CloseFinTalk ==
    ASSUME BaseInv, TalkInv, CloseFin
    PROVE  TalkInv'
<1> USE DEF tableVars, seqVars, bufVars, callVars, cursorVars, hostVars, localVars, appVars,
        pktVars, clientVars, wireVars, envVars, stackVars
<1> DEFINE seg == afrag
<1>1. /\ UNCHANGED <<tcb_set, status, peer, rcv_nxt, skipped, pktVars, clientVars, wireVars, ahost>>
      /\ apc = "close-fin" /\ apc' = "close-status"
      /\ sndbuf' = [sndbuf EXCEPT ![ahost] = Append(@, seg)]
  BY DEF CloseFin, Enqueue
<1>2. PICK s \in Streams, c \in Clients :
        s = ahost /\ IsStream(c, s) /\ status[s] = "CLOSE_WAIT"
  <2>1. /\ ahost \in Streams /\ ahost # Listener /\ InUse(ahost)
        /\ status[ahost] = "CLOSE_WAIT"
    BY <1>1, RingFacts DEF BaseInv, UpInv, HoldInv, Transfer
  <2> QED BY <2>1, StreamFacts
<1>3. /\ seg \in Segments /\ seg.flags = {"ACK", "FIN"}
      /\ cst[c] \in Talking => seg.ack <= SentUpTo(c)
  <2>1. seg \in Segments /\ peer[ahost] = c
    BY <1>2, RingFacts DEF BaseInv, UpInv, IsStream
  <2> QED BY <1>1, <1>2, <2>1 DEF TalkInv, FragmentInv, Sealing
<1> HIDE DEF seg
<1>4. ClientInv(c) /\ \A t \in Streams : IsStream(c, t) => t = s
  BY <1>2, StreamFacts DEF TalkInv
<1>6. ~Shutting(s) /\ Shutting(s)' /\ \A t \in Streams : t # s => (Shutting(t)' <=> Shutting(t))
  BY <1>1, <1>2 DEF Shutting
<1>7. cst[c] = "fin_wait"
  <2>1. StreamInv(c, s) /\ WireInv(c)
    BY <1>2, <1>4 DEF ClientInv
  <2>2. ~OpenAt(c)
    BY <1>2, <1>4 DEF OpenAt, TakesLoad
  <2>3. cst[c] \in Talking /\ cst[c] # "estab"
    BY <1>2, <1>6, <2>1, <2>2 DEF StreamInv, WireInv
  <2> QED BY <2>3 DEF Talking
<1>8. ~HasFlag("FIN", sndbuf[s]) /\ ~HasFlag("FIN", to_client[c])
  <2>1. ~Over(c)
    BY <1>2, <1>6 DEF Over, Ended
  <2> QED BY <1>2, <1>4, <2>1 DEF ClientInv, RingInv, ToClientInv
<1>9. \A d \in Clients, t \in Streams : IsStream(d, t)' <=> IsStream(d, t)
  BY <1>1 DEF IsStream, Table
<1>10. /\ \A t \in Streams : t # s => sndbuf'[t] = sndbuf[t]
       /\ sndbuf'[s] = Append(sndbuf[s], seg)
       /\ \A t \in Streams : /\ TakesLoad(t)' <=> TakesLoad(t)
                             /\ Uncounted(t)' = Uncounted(t)
  BY <1>1, <1>2, BaseFacts DEF TakesLoad, Uncounted, InHand
<1>11. ASSUME NEW d \in Clients \ {c} PROVE SameView(d)
  <2>1. ~IsStream(d, s)
    BY <1>2, <1>11 DEF IsStream
  <2> QED BY <1>1, <1>6, <1>9, <1>10, <2>1 DEF SameView
<1>12. ClientInv(c)'
  <2>1. SentUpTo(c)' = SentUpTo(c) /\ (OpenAt(c)' <=> OpenAt(c))
    BY <1>1, <1>9, <1>10 DEF SentUpTo, OpenAt
  <2>2. Over(c)'
    BY <1>1, <1>2, <1>4, <1>6, <1>7, <1>9 DEF Over, Ended
  <2>3. ~HasFlag("SYN", to_client[c])
    BY <1>2, <1>4, NoHandshake
  <2>4. WireInv(c)'
    BY <1>1, <1>4, <2>1 DEF ClientInv, WireInv
  <2>5. ToClientInv(c)'
    BY <1>1, <1>4, <2>1, <2>2, <2>3 DEF ClientInv, ToClientInv
  <2>6. StreamInv(c, s)'
    BY <1>1, <1>2, <1>4, <1>6, <1>10, <2>1 DEF ClientInv, StreamInv
  <2>7. RingInv(c, s)'
    <3>1. LET ring == Append(sndbuf[s], seg)
          IN  /\ Once("FIN", ring) /\ ~HasFlag("SYN", ring)
              /\ HasFlag("FIN", ring) => ~HasFlag("FIN", to_client[c])
              /\ HasFlag("FIN", ring) => "FIN" \in seg.flags \/ Over(c)
              /\ cst[c] \in Talking => Acked(ring, SentUpTo(c))
      <4>1. "SYN" \notin seg.flags /\ status[s] # "SYN_RCVD"
        BY <1>2, <1>3
      <4> QED BY <1>2, <1>3, <1>4, <1>8, <4>1, PutInRing
    <3>2. to_client' = to_client /\ cst' = cst /\ SentUpTo(c)' = SentUpTo(c) /\ Over(c)'
          /\ ~HasFlag("FIN", to_client[c])
      BY <1>1, <1>8, <2>1, <2>2
    <3> QED BY <1>10, <3>1, <3>2 DEF RingInv
  <2>8. \A t \in Streams : IsStream(c, t)' => t = s
    BY <1>1, <1>2, <1>4, <1>9
  <2> QED BY <2>4, <2>5, <2>6, <2>7, <2>8 DEF ClientInv
<1>13. \A d \in Clients : ClientInv(d)'
  BY <1>2, <1>11, <1>12, OneClient DEF TalkInv
<1>14. PacketInv' /\ FragmentInv'
  BY <1>1 DEF TalkInv, PacketInv, FragmentInv, Sealing
<1> QED BY <1>13, <1>14 DEF TalkInv

\* Where the packet lcore signals, queues a payload or frees a stream.
LEMMA PacketQuiet ==
    ASSUME BaseInv, TalkInv, PktAccept \/ PktEnqueue \/ PktSignal \/ PktFree
    PROVE  TalkInv'
<1> USE DEF tableVars, seqVars, bufVars, callVars, cursorVars, hostVars, localVars, appVars,
        pktVars, clientVars, wireVars, envVars, stackVars
<1>1. /\ UNCHANGED <<tcb_set, rcv_nxt, skipped, pstream, pseg, ahost, afrag, clientVars, wireVars>>
      /\ apc' = apc \/ (apc \notin {"close-status"} \cup Sealing
                        /\ apc' \notin {"close-status"} \cup Sealing)
      /\ pstream \in Streams
  <2>1. pstream \in Streams
    BY RingFacts DEF BaseInv, UpInv, PktAccept, PktEnqueue, PktSignal, PktFree
  <2> QED BY <2>1 DEF PktAccept, PktEnqueue, PktSignal, PktFree, Signal, Woken, Sealing
<1>2. \/ UNCHANGED <<status, peer, sndbuf>>
      \/ /\ pstream \notin Table
         /\ status' = [status EXCEPT ![pstream] = "FREE"]
         /\ peer' = [peer EXCEPT ![pstream] = NULL]
         /\ sndbuf' = [sndbuf EXCEPT ![pstream] = <<>>]
  <2>1. PktFree => pstream \notin Table
    BY <1>1 DEF PktFree, BaseInv, UpInv, IInv, TableInv
  <2> QED BY <2>1 DEF PktAccept, PktEnqueue, PktSignal, PktFree
<1>3. \A s \in Streams : s \in Table =>
         status'[s] = status[s] /\ peer'[s] = peer[s] /\ sndbuf'[s] = sndbuf[s]
  BY <1>1, <1>2, BaseFacts
<1>4. /\ ppc' # "synack" /\ ppc' # "fin" /\ ppc # "fin"
      /\ ppc' \in AtData <=> ppc \in AtData
      /\ ppc' \in AtFin <=> ppc \in AtFin
  BY DEF PktAccept, PktEnqueue, PktSignal, PktFree, AtData, AtFin
<1>5. ASSUME NEW c \in Clients PROVE SameView(c)
  <2>1. Table' = Table
    BY <1>1 DEF Table
  <2>2. ASSUME NEW s \in Streams
        PROVE  /\ IsStream(c, s)' <=> IsStream(c, s)
               /\ IsStream(c, s) => status'[s] = status[s] /\ sndbuf'[s] = sndbuf[s]
               /\ Shutting(s)' <=> Shutting(s)
               /\ Uncounted(s)' = Uncounted(s)
    <3>1. IsStream(c, s)' <=> IsStream(c, s)
      BY <1>3, <2>1 DEF IsStream
    <3>2. IsStream(c, s) => status'[s] = status[s] /\ sndbuf'[s] = sndbuf[s]
      BY <1>3 DEF IsStream
    <3> QED BY <1>1, <1>4, <3>1, <3>2 DEF Shutting, Uncounted, InHand
  <2> QED BY <1>1, <1>4, <2>2 DEF SameView, TakesLoad
<1>6. \A c \in Clients : ClientInv(c)'
  BY <1>5, SameClient DEF TalkInv
<1>7. PacketInv'
  BY <1>1, <1>4 DEF TalkInv, PacketInv
<1>8. FragmentInv'
  <2>1. SUFFICES ASSUME apc' \in Sealing PROVE FragmentInv'
    BY DEF FragmentInv
  <2>2. apc \in Sealing /\ apc' = apc
    BY <1>1, <2>1
  <2>3. ahost \in Streams /\ ahost \in Table
    BY <2>2, RingFacts DEF BaseInv, UpInv, HoldInv, Transfer, InUse, Sealing
  <2>4. peer'[ahost'] = peer[ahost]
    BY <1>1, <1>3, <2>3
  <2> QED BY <1>1, <2>2, <2>4 DEF TalkInv, FragmentInv, SentUpTo
<1> QED BY <1>6, <1>7, <1>8 DEF TalkInv

\* The number of a stream moves on by what it had not counted.
LEMMA CountTalk ==
    ASSUME BaseInv, TalkInv, PktCount
    PROVE  TalkInv'
<1> USE DEF tableVars, seqVars, bufVars, callVars, cursorVars, hostVars, localVars, appVars,
        pktVars, clientVars, wireVars, envVars, stackVars
<1>1. /\ UNCHANGED <<tcb_set, status, peer, sndbuf, pstream, pseg, appVars, clientVars, wireVars>>
      /\ skipped' = skipped /\ ppc \in {"count", "fin-count"} /\ ppc' \in {"ack", "fin-ack"}
      /\ rcv_nxt' = [rcv_nxt EXCEPT ![pstream] =
                       @ + IF ppc = "count" THEN Len(pseg.data) ELSE 1]
      /\ pstream \in Streams
  BY RingFacts DEF PktCount, BaseInv, UpInv
<1>2. ASSUME NEW t \in Streams
      PROVE  /\ rcv_nxt'[t] + Uncounted(t)' = rcv_nxt[t] + Uncounted(t)
             /\ TakesLoad(t)' <=> TakesLoad(t)
             /\ Shutting(t)' <=> Shutting(t)
             /\ Ended(t)' <=> Ended(t)
  <2>1. CASE t = pstream
    <3>1. InHand(t)' = 0
      BY <1>1, <2>1 DEF InHand, AtData, AtFin
    <3>2. InHand(t) = IF ppc = "count" THEN Len(pseg.data) ELSE 1
      BY <1>1, <2>1 DEF InHand, AtData, AtFin
    <3>3. rcv_nxt'[t] = rcv_nxt[t] + InHand(t)
      BY <1>1, <2>1, <3>2, BaseFacts
    <3>4. rcv_nxt[t] \in Nat /\ InHand(t) \in Nat /\ skipped[t] \in Nat
      BY BaseFacts
    <3>6. Uncounted(t)' = skipped[t] + 0 /\ Uncounted(t) = skipped[t] + InHand(t)
      BY <1>1, <3>1 DEF Uncounted
    <3>5. rcv_nxt'[t] + Uncounted(t)' = rcv_nxt[t] + Uncounted(t)
      BY <3>3, <3>4, <3>6
    <3> QED BY <1>1, <3>5 DEF TakesLoad, Shutting, Ended
  <2>2. CASE t # pstream
    <3>1. rcv_nxt'[t] = rcv_nxt[t]
      BY <1>1, <2>2, BaseFacts
    <3>2. Uncounted(t)' = Uncounted(t)
      BY <1>1, <2>2 DEF Uncounted, InHand
    <3> QED BY <1>1, <3>1, <3>2 DEF TakesLoad, Shutting, Ended
  <2> QED BY <2>1, <2>2
<1>3. ASSUME NEW c \in Clients PROVE ClientInv(c)'
  <2>1. ClientInv(c) /\ SentUpTo(c)' = SentUpTo(c)
        /\ \A t \in Streams : IsStream(c, t)' <=> IsStream(c, t)
    BY <1>1 DEF TalkInv, SentUpTo, IsStream, Table
  <2>2. (OpenAt(c)' <=> OpenAt(c)) /\ (Over(c)' <=> Over(c))
    BY <1>1, <1>2, <2>1 DEF OpenAt, Over
  <2>3. WireInv(c)' /\ ToClientInv(c)'
    BY <1>1, <2>1, <2>2 DEF ClientInv, WireInv, ToClientInv
  <2>4. ASSUME NEW t \in Streams, IsStream(c, t)' PROVE StreamInv(c, t)' /\ RingInv(c, t)'
    <3>1. StreamInv(c, t) /\ RingInv(c, t)
      BY <2>1, <2>4 DEF ClientInv
    <3>2. StreamInv(c, t)'
      <4>1. rcv_nxt'[t] + Uncounted(t)' = rcv_nxt[t] + Uncounted(t)
            /\ (Shutting(t)' <=> Shutting(t))
        BY <1>2
      <4> QED BY <1>1, <2>1, <3>1, <4>1 DEF StreamInv
    <3>3. RingInv(c, t)'
      BY <1>1, <2>1, <2>2, <3>1 DEF RingInv
    <3> QED BY <3>2, <3>3
  <2> QED BY <2>3, <2>4 DEF ClientInv
<1>4. PacketInv' /\ FragmentInv'
  BY <1>1 DEF TalkInv, PacketInv, FragmentInv, SentUpTo, AtData
<1> QED BY <1>3, <1>4 DEF TalkInv

\* The status of a stream moves on, by nclose or by the FIN of its client.
LEMMA StatusTalk ==
    ASSUME BaseInv, TalkInv, CloseStatus \/ PktFin
    PROVE  TalkInv'
<1> USE DEF tableVars, seqVars, bufVars, callVars, cursorVars, hostVars, localVars, appVars,
        pktVars, clientVars, wireVars, envVars, stackVars
<1>1. PICK s \in Streams, c \in Clients :
        /\ IsStream(c, s)
        /\ \/ /\ apc = "close-status" /\ ahost = s /\ apc' = "close-fd" /\ UNCHANGED ppc
              /\ status[s] = "CLOSE_WAIT" /\ status' = [status EXCEPT ![s] = "LAST_ACK"]
           \/ /\ ppc = "fin" /\ pstream = s /\ ppc' = "fin-enqueue" /\ UNCHANGED apc
              /\ status[s] = "ESTABLISHED" /\ status' = [status EXCEPT ![s] = "CLOSE_WAIT"]
              /\ cst[c] = "fin_wait"
  <2>1. CASE CloseStatus
    <3>1. /\ ahost \in Streams /\ ahost # Listener /\ InUse(ahost)
          /\ status[ahost] = "CLOSE_WAIT"
      BY <2>1, RingFacts DEF BaseInv, UpInv, HoldInv, Transfer, CloseStatus
    <3> QED BY <2>1, <3>1, StreamFacts DEF CloseStatus
  <2>2. CASE PktFin
    <3>1. /\ pstream \in Streams /\ pstream \in Table \ {Listener}
          /\ status[pstream] = "ESTABLISHED"
      BY <2>2, RingFacts DEF BaseInv, UpInv, HandlerInv, DataPath, PktFin
    <3>2. cst[peer[pstream]] = "fin_wait"
      BY <2>2 DEF PktFin, TalkInv, PacketInv
    <3> QED BY <2>2, <3>1, <3>2, StreamFacts DEF PktFin
  <2> QED BY <2>1, <2>2
<1>2. UNCHANGED <<tcb_set, peer, rcv_nxt, skipped, sndbuf, pstream, pseg, ahost, clientVars, wireVars>>
  BY DEF CloseStatus, PktFin
<1>3. ClientInv(c) /\ \A t \in Streams : IsStream(c, t) => t = s
  BY <1>1, StreamFacts DEF TalkInv
<1>4. \A d \in Clients, t \in Streams : IsStream(d, t)' <=> IsStream(d, t)
  BY <1>2 DEF IsStream, Table
<1>5. \A t \in Streams : /\ Uncounted(t)' = Uncounted(t)
                         /\ t # s => /\ status'[t] = status[t]
                                     /\ Shutting(t)' <=> Shutting(t)
                                     /\ TakesLoad(t)' <=> TakesLoad(t)
  BY <1>1, <1>2, BaseFacts DEF Uncounted, InHand, AtData, AtFin, Shutting, TakesLoad
<1>6. ASSUME NEW d \in Clients \ {c} PROVE SameView(d)
  <2>1. ~IsStream(d, s)
    BY <1>1, <1>6 DEF IsStream
  <2> QED BY <1>2, <1>4, <1>5, <2>1 DEF SameView
<1>7. /\ ~TakesLoad(s) /\ ~TakesLoad(s)' /\ status'[s] \in Closing /\ status'[s] \in {"CLOSE_WAIT", "LAST_ACK"}
      /\ Ended(s) => Ended(s)'
      /\ status'[s] = "CLOSE_WAIT" => cst[c] = "fin_wait"
  BY <1>1, <1>2, BaseFacts DEF TakesLoad, Closing, Ended, Shutting
<1>8. ClientInv(c)'
  <2>1. /\ SentUpTo(c)' = SentUpTo(c) /\ (OpenAt(c)' <=> OpenAt(c)) /\ (Over(c) => Over(c)')
    <3>1. OpenAt(c)' <=> OpenAt(c)
      BY <1>3, <1>4, <1>7 DEF OpenAt
    <3>2. Over(c) => Over(c)'
      BY <1>1, <1>2, <1>3, <1>4, <1>7 DEF Over
    <3> QED BY <1>2, <3>1, <3>2 DEF SentUpTo
  <2>2. ~HasFlag("SYN", to_client[c]) /\ ~HasFlag("SYN", sndbuf[s])
    <3>1. status[s] # "SYN_RCVD"
      BY <1>1
    <3> QED BY <1>1, <1>3, <3>1, NoHandshake
  <2>3. WireInv(c)' /\ ToClientInv(c)'
    BY <1>2, <1>3, <2>1, <2>2 DEF ClientInv, WireInv, ToClientInv
  <2>4. StreamInv(c, s)'
    <3>1. StreamInv(c, s)
      BY <1>1, <1>3 DEF ClientInv
    <3>2. status'[s] # "ESTABLISHED" /\ status'[s] # "LISTEN" /\ status'[s] # "SYN_RCVD"
      BY <1>7
    <3>3. cst[c] = "fin_wait" => cst[c] \in Talking
      BY DEF Talking
    <3> QED BY <1>2, <1>5, <1>7, <2>1, <3>1, <3>2, <3>3 DEF StreamInv
  <2>5. RingInv(c, s)'
    BY <1>1, <1>2, <1>3, <2>1, <2>2 DEF ClientInv, RingInv
  <2>6. \A t \in Streams : IsStream(c, t)' => t = s
    BY <1>3, <1>4
  <2> QED BY <2>3, <2>4, <2>5, <2>6 DEF ClientInv
<1>9. \A d \in Clients : ClientInv(d)'
  BY <1>6, <1>8, OneClient DEF TalkInv
<1>10. PacketInv'
  BY <1>1, <1>2 DEF TalkInv, PacketInv, AtData
<1>11. FragmentInv'
  BY <1>1, <1>2 DEF TalkInv, FragmentInv, Sealing, SentUpTo, CloseStatus, PktFin
<1> QED BY <1>9, <1>10, <1>11 DEF TalkInv

\* The SYN|ACK: the ring of the new stream was empty, nothing is on its way.
LEMMA SynAckTalk ==
    ASSUME BaseInv, TalkInv, PktSynAck
    PROVE  TalkInv'
<1> USE DEF tableVars, seqVars, bufVars, callVars, cursorVars, hostVars, localVars, appVars,
        pktVars, clientVars, wireVars, envVars, stackVars
<1> DEFINE none == <<>>
           seg == Segment({"SYN", "ACK"}, snd_nxt[pstream], pseg.seq + 1, none)
<1>1. /\ UNCHANGED <<tcb_set, peer, pstream, pseg, appVars, clientVars, wireVars>>
      /\ ppc = "synack" /\ ppc' = "idle" /\ skipped' = skipped
      /\ status' = [status EXCEPT ![pstream] = "SYN_RCVD"]
      /\ sndbuf' = [sndbuf EXCEPT ![pstream] = Append(@, seg)]
      /\ rcv_nxt' = [rcv_nxt EXCEPT ![pstream] = pseg.seq + 1]
  BY DEF PktSynAck
<1>2. PICK s \in Streams, c \in Clients :
        /\ s = pstream /\ s # Listener /\ IsStream(c, s) /\ status[s] = "LISTEN"
        /\ cst[c] = "syn_sent" /\ to_stack[c] = <<>>
  <2>1. pstream \in Table \ {Listener} /\ status[pstream] = "LISTEN"
    BY <1>1, RingFacts DEF BaseInv, UpInv, HandlerInv
  <2>2. cst[peer[pstream]] = "syn_sent" /\ to_stack[peer[pstream]] = <<>>
    BY <1>1 DEF TalkInv, PacketInv
  <2> QED BY <2>1, <2>2, StreamFacts
<1>3. seg \in Segments /\ seg.flags = {"SYN", "ACK"}
  <2>1. {"SYN", "ACK"} \in SUBSET Flags /\ none \in Seq(Nat)
    BY DEF Flags
  <2>2. snd_nxt[pstream] \in Nat /\ pseg.seq + 1 \in Nat
    BY <1>2, BaseFacts, RingFacts DEF Segments, BaseInv, UpInv
  <2> HIDE DEF none
  <2> QED BY <2>1, <2>2, KindType
<1> HIDE DEF seg
<1>4. sndbuf[s] = <<>>
  BY <1>2 DEF BaseInv, FreshInv
<1>5. /\ \A t \in Streams : t # s => /\ sndbuf'[t] = sndbuf[t] /\ status'[t] = status[t]
                                     /\ rcv_nxt'[t] = rcv_nxt[t]
      /\ sndbuf'[s] = Append(sndbuf[s], seg) /\ status'[s] = "SYN_RCVD"
  BY <1>1, <1>2, BaseFacts
<1>6. \A d \in Clients, t \in Streams : IsStream(d, t)' <=> IsStream(d, t)
  BY <1>1 DEF IsStream, Table
<1>7. \A t \in Streams : /\ Uncounted(t)' = Uncounted(t)
                         /\ Shutting(t)' <=> Shutting(t)
                         /\ t # s => (TakesLoad(t)' <=> TakesLoad(t))
  BY <1>1, <1>5 DEF Uncounted, InHand, Shutting, TakesLoad, AtData, AtFin
<1>8. ASSUME NEW d \in Clients \ {c} PROVE SameView(d)
  <2>1. ~IsStream(d, s)
    BY <1>2, <1>8 DEF IsStream
  <2> QED BY <1>1, <1>5, <1>6, <1>7, <2>1 DEF SameView
<1>9. ClientInv(c) /\ \A t \in Streams : IsStream(c, t) => t = s
  BY <1>2, StreamFacts DEF TalkInv
<1>10. ClientInv(c)'
  <2>1. cst'[c] = "syn_sent" /\ to_stack'[c] = to_stack[c] /\ csent'[c] = csent[c]
        /\ to_client'[c] = to_client[c]
    BY <1>1, <1>2
  <2>2. ~HasLoad(to_stack[c]) /\ ~HasSyn(to_stack[c])
    BY <1>2 DEF HasLoad, HasSyn
  <2>3. WireInv(c)'
    BY <1>2, <1>9, <2>1, <2>2 DEF ClientInv, WireInv
  <2>4. ~HasFlag("FIN", to_client[c]) /\ ~HasFlag("SYN", to_client[c])
    <3>1. ~Over(c)
      BY <1>2 DEF Over
    <3>2. status[s] # "SYN_RCVD"
      BY <1>2
    <3> QED BY <1>2, <1>9, <3>1, <3>2, NoHandshake DEF ClientInv, ToClientInv
  <2>5. ToClientInv(c)'
    BY <1>9, <2>1, <2>4 DEF ClientInv, ToClientInv, Talking
  <2>6. StreamInv(c, s)'
    BY <1>5, <2>1, <2>2 DEF StreamInv, Talking
  <2>7. RingInv(c, s)'
    <3>1. /\ ~HasFlag("FIN", sndbuf[s]) /\ ~HasFlag("SYN", sndbuf[s])
          /\ Once("FIN", sndbuf[s])
      BY <1>4, EmptyFlow
    <3>2. sndbuf[s] \in Seq(Segments) /\ "FIN" \notin seg.flags
      BY <1>3, BaseFacts
    <3>3. LET ring == Append(sndbuf[s], seg)
          IN  Once("FIN", ring) /\ ~HasFlag("FIN", ring) /\ OnlyLast("SYN", ring)
      BY <1>3, <3>1, <3>2, PutFlow
    <3> QED BY <1>5, <2>1, <3>3 DEF RingInv, Talking
  <2>8. \A t \in Streams : IsStream(c, t)' => t = s
    BY <1>6, <1>9
  <2> QED BY <2>3, <2>5, <2>6, <2>7, <2>8 DEF ClientInv
<1>11. \A d \in Clients : ClientInv(d)'
  BY <1>8, <1>10, OneClient DEF TalkInv
<1>12. PacketInv' /\ FragmentInv'
  BY <1>1 DEF TalkInv, PacketInv, FragmentInv, SentUpTo, AtData
<1> QED BY <1>11, <1>12 DEF TalkInv

\* ng_tcp_stream_search finds the stream of a client that has one.
LEMMA SearchOwn ==
    ASSUME BaseInv, NEW c \in Clients, NEW s \in Streams, IsStream(c, s)
    PROVE  Search(c) = s
<1> DEFINE exact == {t \in Members(tcb_set) : peer[t] = c}
<1>1. s \in exact
  BY DEF IsStream, Table
<1>2. Search(c) = FirstIn(exact, tcb_set, NULL)
  BY <1>1 DEF Search
<1>3. Len(tcb_set) \in Nat
  <2>1. tcb_set \in Seq(Streams)
    BY TableFacts DEF BaseInv, UpInv
  <2> QED BY <2>1
<1>4. Search(c) \in exact
  <2>1. exact \cap Members(tcb_set) # {}
    BY <1>1
  <2> HIDE DEF exact
  <2>2. FirstIn(exact, tcb_set, NULL) \in exact \cap Members(tcb_set)
    BY <1>3, <2>1, FirstInSet
  <2> QED BY <1>2, <2>2
<1>5. Search(c) \in Streams /\ IsStream(c, Search(c))
  <2>1. Table \subseteq Streams
    BY TableFacts DEF BaseInv, UpInv
  <2> QED BY <1>4, <2>1 DEF IsStream, Table
<1> QED BY <1>5, StreamFacts

\* What ng_tcp_process takes, and what is left on the wire.
LEMMA TakeWire ==
    ASSUME BaseInv, NEW c \in Clients, ClientInv(c), to_stack[c] # <<>>,
           to_stack' = [to_stack EXCEPT ![c] = Tail(@)], cst' = cst, csent' = csent,
           OpenAt(c) /\ ~IsFin(Head(to_stack[c])) => OpenAt(c)'
    PROVE  /\ WireInv(c)' /\ (HasSyn(to_stack[c])' => HasSyn(to_stack[c]))
           /\ to_stack'[c] = Tail(to_stack[c]) /\ Head(to_stack[c]) \in ClientSegments
           /\ \A d \in Clients \ {c} : to_stack'[d] = to_stack[d]
           /\ SentUpTo(c)' = SentUpTo(c)
<1>1. /\ to_stack[c] \in Seq(ClientSegments) /\ csent[c] \in Nat
      /\ to_stack'[c] = Tail(to_stack[c])
      /\ \A d \in Clients \ {c} : to_stack'[d] = to_stack[d]
  BY BaseFacts
<1>2. WireOrder(to_stack[c], cst[c], csent[c]) /\ WireInv(c)
  BY DEF ClientInv, WireInv
<1> DEFINE q == to_stack[c]
<1>3. /\ WireOrder(Tail(q), cst[c], csent[c])
      /\ HasSyn(Tail(q)) => HasSyn(q)
      /\ HasLoad(Tail(q)) => HasLoad(q)
      /\ IsFin(Head(q)) => ~HasLoad(Tail(q))
      /\ Tail(q) # <<>> => Tail(q)[Len(Tail(q))] = q[Len(q)]
  BY <1>1, <1>2, TakeOrder
<1>4. Head(q) \in ClientSegments /\ Head(q) = q[1] /\ 1 \in 1 .. Len(q)
  BY <1>1, TailItems
<1>5. IsFin(Head(q)) => cst[c] = "fin_wait"
  BY <1>2, <1>4 DEF WireOrder
<1>6. HasLoad(Tail(q)) => OpenAt(c)'
  BY <1>2, <1>3 DEF WireInv
<1>7. cst[c] = "estab" => OpenAt(c)'
  BY <1>2, <1>5 DEF WireInv
<1>8. HasLoad(Tail(q)) => cst[c] \in Talking
  BY <1>2, <1>3 DEF WireInv
<1> HIDE DEF q
<1>9. WireInv(c)'
  <2>1. cst'[c] = cst[c] /\ csent'[c] = csent[c] /\ to_stack'[c] = Tail(q)
    BY <1>1 DEF q
  <2>2. cst[c] = "syn_sent" => csent[c] = 0 /\ IsSyn(q[Len(q)])
    BY <1>2 DEF WireInv, q
  <2> QED BY <1>3, <1>6, <1>7, <1>8, <2>1, <2>2 DEF WireInv
<1>10. SentUpTo(c)' = SentUpTo(c)
  BY DEF SentUpTo
<1> QED BY <1>1, <1>3, <1>4, <1>9, <1>10 DEF q

\* A client with a stream that has not seen its FIN is connected to it.
LEMMA StillTalking ==
    ASSUME BaseInv, NEW c \in Clients, ClientInv(c), to_stack[c] # <<>>,
           NEW s \in Streams, IsStream(c, s), status[s] \in {"SYN_RCVD", "ESTABLISHED"}
    PROVE  /\ cst[c] \in Talking /\ ~HasSyn(to_stack[c])
           /\ ~HasFlag("FIN", to_client[c]) /\ ~HasFlag("FIN", sndbuf[s])
           /\ ~HasFlag("SYN", to_client[c]) /\ ~HasFlag("SYN", sndbuf[s])
<1>1. StreamInv(c, s) /\ WireInv(c) /\ ToClientInv(c) /\ RingInv(c, s)
  BY DEF ClientInv
<1>2. ~HasSyn(to_stack[c])
  BY <1>1 DEF StreamInv, Closing
<1>3. cst[c] # "syn_sent"
  <2>1. Len(to_stack[c]) \in 1 .. Len(to_stack[c])
    BY BaseFacts, TailItems
  <2> QED BY <1>1, <1>2, <2>1 DEF WireInv, HasSyn
<1>4. cst[c] # "closed"
  BY <1>1 DEF StreamInv, Closing
<1>5. cst[c] \in Talking
  BY <1>3, <1>4, BaseFacts DEF Talking
<1>6. ~Over(c)
  BY DEF Over, Ended
<1> QED BY <1>1, <1>2, <1>3, <1>5, <1>6 DEF ToClientInv, RingInv

\* A segment that its stream ignores carries nothing that counts, or payload that came
\* without PSH.
LEMMA IgnoreTalk ==
    ASSUME BaseInv, TalkInv, NEW c \in Clients, NEW x \in Streams \cup {NULL}, PktIgnore(c, x)
    PROVE  TalkInv'
<1> USE DEF tableVars, seqVars, bufVars, callVars, cursorVars, hostVars, localVars, appVars,
        pktVars, clientVars, wireVars, envVars, stackVars
<1> DEFINE q == to_stack[c]
<1>1. /\ UNCHANGED <<tcb_set, status, peer, rcv_nxt, sndbuf, ppc, pstream, appVars, clientVars,
                     to_client>>
      /\ ppc = "idle" /\ q # <<>> /\ to_stack' = [to_stack EXCEPT ![c] = Tail(@)]
      /\ x = Search(c) /\ Ignored(c, x)
      /\ skipped' = IF x # NULL /\ status[x] = "ESTABLISHED"
                       THEN [skipped EXCEPT ![x] = @ + Len(Head(q).data)] ELSE skipped
  BY DEF PktIgnore, Process
<1>2. \A d \in Clients, t \in Streams : IsStream(d, t)' <=> IsStream(d, t)
  BY <1>1 DEF IsStream, Table
<1>3. \A t \in Streams : /\ InHand(t)' = 0 /\ InHand(t) = 0
                         /\ Shutting(t)' <=> Shutting(t)
                         /\ TakesLoad(t)' <=> TakesLoad(t)
                         /\ Ended(t)' <=> Ended(t)
  BY <1>1 DEF InHand, Shutting, TakesLoad, AtData, AtFin, Ended
<1>4. (OpenAt(c)' <=> OpenAt(c)) /\ (Over(c)' <=> Over(c))
  BY <1>1, <1>2, <1>3 DEF OpenAt, Over
<1>5. ClientInv(c)
  BY DEF TalkInv
<1>6. /\ WireInv(c)' /\ (HasSyn(to_stack[c])' => HasSyn(to_stack[c]))
      /\ to_stack'[c] = Tail(to_stack[c]) /\ Head(to_stack[c]) \in ClientSegments
      /\ \A d \in Clients \ {c} : to_stack'[d] = to_stack[d]
      /\ SentUpTo(c)' = SentUpTo(c)
  BY <1>1, <1>4, <1>5, TakeWire
<1>7. ASSUME NEW d \in Clients \ {c} PROVE SameView(d)
  <2>1. ASSUME NEW t \in Streams, IsStream(d, t) PROVE skipped'[t] = skipped[t]
    <3>1. CASE x # NULL /\ status[x] = "ESTABLISHED"
      <4>1. tcb_set \in Seq(Streams) /\ Table \subseteq Streams /\ NULL \notin Streams
        BY TableFacts DEF BaseInv, UpInv
      <4>2. x \in Table /\ peer[x] = c
        BY <1>1, <3>1, <4>1, SearchFinds
      <4>3. t # x
        BY <1>7, <2>1, <4>2 DEF IsStream
      <4> QED BY <1>1, <4>3, BaseFacts
    <3>2. CASE ~(x # NULL /\ status[x] = "ESTABLISHED")
      BY <1>1, <3>2
    <3> QED BY <3>1, <3>2
  <2>2. \A t \in Streams : IsStream(d, t) => Uncounted(t)' = Uncounted(t)
    BY <1>3, <2>1 DEF Uncounted
  <2> QED BY <1>1, <1>2, <1>3, <1>6, <2>2 DEF SameView
<1>8. ToClientInv(c)'
  BY <1>1, <1>2, <1>4, <1>5, <1>6 DEF ClientInv, ToClientInv
<1>9. ASSUME NEW t \in Streams, IsStream(c, t)' PROVE StreamInv(c, t)' /\ RingInv(c, t)'
  <2>1. IsStream(c, t) /\ StreamInv(c, t) /\ RingInv(c, t)
    BY <1>2, <1>5, <1>9 DEF ClientInv
  <2>2. RingInv(c, t)'
    BY <1>1, <1>4, <1>6, <2>1 DEF RingInv
  <2>3. ASSUME cst[c] \in Talking
        PROVE  /\ status[t] # "LISTEN" /\ status[t] # "SYN_RCVD"
               /\ Chain(Tail(q), rcv_nxt[t] + skipped'[t], SentUpTo(c))
    <3>1. Ignored(c, t) /\ t # NULL /\ x = t
      BY <1>1, <2>1, SearchOwn, BaseFacts
    <3>2. status[t] # "LISTEN" /\ Chain(q, rcv_nxt[t] + (skipped[t] + 0), SentUpTo(c))
      BY <1>3, <2>1, <2>3 DEF StreamInv, Uncounted
    <3>3. /\ Head(q) = q[1] /\ 1 \in 1 .. Len(q) /\ q \in Seq(ClientSegments)
          /\ rcv_nxt[t] \in Nat /\ skipped[t] \in Nat /\ SentUpTo(c) \in Nat
      BY <1>1, BaseFacts, TailItems
    <3>4. ~IsSyn(Head(q))
      BY <1>5, <2>3, <3>3 DEF ClientInv, WireInv, WireOrder, Talking
    <3>5. "ACK" \in Head(q).flags
      BY <1>6, <3>4, SegmentKind
    <3>6. status[t] # "SYN_RCVD" /\ status[t] # "LAST_ACK"
      BY <3>1, <3>5 DEF Ignored, Has
    <3>7. /\ Head(q).seq \in Nat /\ Len(Head(q).data) \in Nat
          /\ IsAck(Head(q)) => Len(Head(q).data) = 0
      BY <1>6 DEF ClientSegments, Segments, IsAck
    <3>8. After(Head(q)) = Head(q).seq + (skipped'[t] - skipped[t]) /\ skipped'[t] \in Nat
      <4>1. CASE status[t] = "ESTABLISHED"
        <5>1. "PSH" \notin Head(q).flags /\ "FIN" \notin Head(q).flags
          BY <3>1, <4>1 DEF Ignored, Has
        <5>2. IsAck(Head(q)) \/ IsData(Head(q))
          BY <1>6, <3>4, <5>1, SegmentKind
        <5>3. After(Head(q)) = Head(q).seq + Len(Head(q).data)
          BY <1>6, <3>7, <5>2, SegmentKind
        <5>4. skipped'[t] = skipped[t] + Len(Head(q).data)
          BY <1>1, <3>1, <4>1, BaseFacts
        <5> QED BY <3>3, <3>7, <5>3, <5>4
      <4>2. CASE status[t] # "ESTABLISHED"
        <5>1. ~OpenAt(c)
          BY <2>1, <3>6, <4>2, StreamFacts DEF OpenAt, TakesLoad
        <5>2. ~HasLoad(q)
          BY <1>5, <5>1 DEF ClientInv, WireInv
        <5>3. ~IsFin(Head(q)) /\ ~IsData(Head(q))
          BY <3>3, <5>2 DEF HasLoad
        <5>4. IsAck(Head(q)) /\ skipped'[t] = skipped[t]
          BY <1>1, <1>6, <3>1, <3>4, <4>2, <5>3, SegmentKind
        <5>5. After(Head(q)) = Head(q).seq
          BY <1>6, <5>4, SegmentKind
        <5> QED BY <3>3, <3>7, <5>4, <5>5
      <4> QED BY <4>1, <4>2
    <3>9. rcv_nxt[t] + (skipped[t] + 0) \in Nat
      BY <3>3
    <3>10. /\ Head(q).seq = rcv_nxt[t] + (skipped[t] + 0)
           /\ Chain(Tail(q), After(Head(q)), SentUpTo(c))
      BY <1>1, <3>2, <3>3, <3>9, TakeChain
    <3>11. After(Head(q)) = rcv_nxt[t] + skipped'[t]
      BY <3>3, <3>7, <3>8, <3>10
    <3> QED BY <3>2, <3>6, <3>10, <3>11
  <2>4. StreamInv(c, t)'
    <3>1. rcv_nxt'[t] + Uncounted(t)' = rcv_nxt[t] + skipped'[t]
      <4>1. skipped'[t] \in Nat
        <5>1. [Next]_vars
          BY DEF Next, PktRecv
        <5>2. skipped' \in [Streams -> Nat]
          BY <5>1, StepTypeOK DEF BaseInv, UpInv, TypeOK, BuffersOK
        <5> QED BY <5>2
      <4>2. Uncounted(t)' = skipped'[t] + 0
        BY <1>3 DEF Uncounted
      <4> QED BY <1>1, <4>1, <4>2
    <3> QED BY <1>1, <1>3, <1>6, <2>1, <2>3, <3>1 DEF StreamInv
  <2> QED BY <2>2, <2>4
<1>10. ClientInv(c)'
  BY <1>6, <1>8, <1>9 DEF ClientInv
<1>11. \A d \in Clients : ClientInv(d)'
  BY <1>7, <1>10, OneClient DEF TalkInv
<1>12. PacketInv' /\ FragmentInv'
  BY <1>1 DEF TalkInv, PacketInv, FragmentInv, SentUpTo, AtData
<1> QED BY <1>11, <1>12 DEF TalkInv

\* An ACK in SYN_RCVD, payload or a FIN in ESTABLISHED.
LEMMA HandlerTalk ==
    ASSUME BaseInv, TalkInv, NEW c \in Clients, NEW s \in Streams \cup {NULL},
           PktSynRcvd(c, s) \/ PktEstablished(c, s)
    PROVE  TalkInv'
<1> USE DEF tableVars, seqVars, bufVars, callVars, cursorVars, hostVars, localVars, appVars,
        pktVars, clientVars, wireVars, envVars, stackVars
<1> DEFINE q == to_stack[c]
           seg == Head(to_stack[c])
<1>1. /\ UNCHANGED <<tcb_set, peer, rcv_nxt, skipped, sndbuf, appVars, clientVars, to_client>>
      /\ ppc = "idle" /\ q # <<>> /\ to_stack' = [to_stack EXCEPT ![c] = Tail(@)]
      /\ pseg' = seg /\ s = Search(c) /\ s # NULL /\ pstream' = s
      /\ \/ /\ status[s] = "SYN_RCVD" /\ status' = [status EXCEPT ![s] = "ESTABLISHED"]
            /\ ppc' = "accept"
         \/ /\ status[s] = "ESTABLISHED" /\ status' = status
            /\ \/ "PSH" \in seg.flags /\ ppc' = "enqueue"
               \/ "PSH" \notin seg.flags /\ "FIN" \in seg.flags /\ ppc' = "fin"
  BY DEF PktSynRcvd, PktEstablished, Process, Ignored, Has
<1>2. s \in Streams /\ IsStream(c, s)
  <2>1. tcb_set \in Seq(Streams) /\ Table \subseteq Streams /\ NULL \notin Streams
    BY TableFacts DEF BaseInv, UpInv
  <2>2. s \in Table /\ (status[s] = "LISTEN" \/ peer[s] = c)
    BY <1>1, <2>1, SearchFinds
  <2> QED BY <1>1, <2>1, <2>2 DEF IsStream
<1>3. ClientInv(c) /\ StreamInv(c, s) /\ RingInv(c, s) /\ \A t \in Streams : IsStream(c, t) => t = s
  BY <1>2, StreamFacts DEF TalkInv, ClientInv
<1>4. /\ cst[c] \in Talking /\ ~HasSyn(q)
      /\ ~HasFlag("FIN", to_client[c]) /\ ~HasFlag("FIN", sndbuf[s])
      /\ ~HasFlag("SYN", to_client[c]) /\ ~HasFlag("SYN", sndbuf[s])
  BY <1>1, <1>2, <1>3, StillTalking
<1>5. /\ q \in Seq(ClientSegments) /\ seg \in ClientSegments /\ seg = q[1] /\ 1 \in 1 .. Len(q)
      /\ rcv_nxt[s] \in Nat /\ skipped[s] \in Nat /\ SentUpTo(c) \in Nat
  BY <1>1, <1>2, BaseFacts, TailItems
<1>6. /\ \A d \in Clients, t \in Streams : IsStream(d, t)' <=> IsStream(d, t)
      /\ \A t \in Streams : Shutting(t)' <=> Shutting(t)
      /\ \A t \in Streams : t # s => status'[t] = status[t]
      /\ status'[s] = "ESTABLISHED"
  BY <1>1, <1>2, BaseFacts DEF IsStream, Table, Shutting
<1>7. \A t \in Streams : InHand(t) = 0 /\ ~(pstream = t /\ ppc = "fin")
  BY <1>1 DEF Uncounted, InHand, AtData, AtFin
<1>8. InHand(s)' = After(seg) - seg.seq
  <2>1. CASE ppc' = "enqueue"
    <3>1. IsData(seg)
      BY <1>1, <1>5, <2>1, SegmentKind
    <3>2. /\ After(seg) = seg.seq + Len(seg.data) /\ seg.seq \in Nat /\ Len(seg.data) \in Nat
      BY <1>5, <3>1, SegmentKind DEF ClientSegments, Segments
    <3>3. InHand(s)' = Len(seg.data)
      BY <1>1, <2>1 DEF Uncounted, InHand, AtData
    <3> QED BY <3>2, <3>3
  <2>2. CASE ppc' = "fin"
    <3>1. IsFin(seg)
      BY <1>1, <1>5, <2>2, SegmentKind
    <3>2. /\ After(seg) = seg.seq + 1 /\ seg.seq \in Nat
      BY <1>5, <3>1, SegmentKind
    <3>3. InHand(s)' = 1
      BY <1>1, <2>2 DEF Uncounted, InHand, AtData, AtFin
    <3> QED BY <3>2, <3>3
  <2>3. CASE ppc' = "accept"
    <3>1. status[s] = "SYN_RCVD" /\ IsAck(seg)
      BY <1>1, <1>3, <1>4, <1>5, <2>3 DEF StreamInv
    <3>2. /\ After(seg) = seg.seq /\ seg.seq \in Nat
      BY <1>5, <3>1, SegmentKind
    <3>3. InHand(s)' = 0
      BY <1>1, <2>3 DEF Uncounted, InHand, AtData, AtFin
    <3> QED BY <3>2, <3>3
  <2> QED BY <1>1, <2>1, <2>2, <2>3
<1>9. /\ seg.seq = rcv_nxt[s] + skipped[s]
      /\ Chain(Tail(q), rcv_nxt[s] + Uncounted(s)', SentUpTo(c))
  <2>1. Chain(q, rcv_nxt[s] + (skipped[s] + 0), SentUpTo(c))
    BY <1>2, <1>3, <1>4, <1>7 DEF StreamInv, Uncounted
  <2>2. rcv_nxt[s] + (skipped[s] + 0) \in Nat
    BY <1>5
  <2>3. seg.seq = rcv_nxt[s] + (skipped[s] + 0) /\ Chain(Tail(q), After(seg), SentUpTo(c))
    BY <1>1, <1>5, <2>1, <2>2, TakeChain
  <2>4. rcv_nxt[s] + Uncounted(s)' = After(seg)
    <3>1. After(seg) \in Nat
      BY <1>5, SegmentKind
    <3>2. Uncounted(s)' = skipped[s] + InHand(s)'
      BY <1>1 DEF Uncounted
    <3> QED BY <1>5, <1>8, <2>3, <3>1, <3>2
  <2> QED BY <1>5, <2>3, <2>4
<1>10. /\ ppc' # "fin" => TakesLoad(s)'
       /\ ppc' = "fin" => IsFin(seg) /\ cst[c] = "fin_wait"
  <2>1. ppc' = "fin" => IsFin(seg)
    BY <1>1, <1>5, SegmentKind
  <2>2. IsFin(seg) => cst[c] = "fin_wait"
    BY <1>3, <1>5 DEF ClientInv, WireInv, WireOrder
  <2> QED BY <1>1, <1>6, <2>1, <2>2 DEF TakesLoad
<1>11. /\ WireInv(c)' /\ (HasSyn(to_stack[c])' => HasSyn(to_stack[c]))
       /\ to_stack'[c] = Tail(to_stack[c])
       /\ \A d \in Clients \ {c} : to_stack'[d] = to_stack[d]
       /\ SentUpTo(c)' = SentUpTo(c)
  <2>1. OpenAt(c) /\ ~IsFin(seg) => OpenAt(c)'
    BY <1>2, <1>6, <1>10 DEF OpenAt
  <2> QED BY <1>1, <1>3, <2>1, TakeWire
<1>12. ASSUME NEW d \in Clients \ {c} PROVE SameView(d)
  <2>1. ~IsStream(d, s)
    BY <1>2, <1>12 DEF IsStream
  <2>2. \A t \in Streams : t # s => Uncounted(t)' = Uncounted(t) /\ (TakesLoad(t)' <=> TakesLoad(t))
    BY <1>1, <1>6, <1>7 DEF Uncounted, InHand, TakesLoad
  <2> QED BY <1>1, <1>6, <1>11, <2>1, <2>2 DEF SameView
<1>13. ToClientInv(c)'
  BY <1>1, <1>3, <1>4, <1>11 DEF ClientInv, ToClientInv
<1>14. StreamInv(c, s)' /\ RingInv(c, s)'
  <2>1. cst'[c] = cst[c] /\ cst[c] \in Talking /\ cst[c] # "closed" /\ cst[c] # "syn_sent"
    BY <1>1, <1>4 DEF Talking
  <2>2. StreamInv(c, s)'
    BY <1>1, <1>4, <1>6, <1>9, <1>11, <2>1 DEF StreamInv
  <2>3. RingInv(c, s)'
    BY <1>1, <1>3, <1>4, <1>11 DEF RingInv
  <2> QED BY <2>2, <2>3
<1>15. ClientInv(c)'
  BY <1>3, <1>6, <1>11, <1>13, <1>14 DEF ClientInv
<1>16. \A d \in Clients : ClientInv(d)'
  BY <1>12, <1>15, OneClient DEF TalkInv
<1>17. PacketInv'
  <2>1. peer'[pstream'] = c /\ cst'[c] = cst[c]
    BY <1>1, <1>2 DEF IsStream
  <2>2. ppc' \in AtData => After(seg) <= MaxUnits + 1
    <3>1. ppc' \in AtData => IsData(seg)
      BY <1>1, <1>5, SegmentKind DEF AtData
    <3>2. IsData(seg) => After(seg) <= csent[c] + 1
      BY <1>3, <1>5 DEF ClientInv, WireInv, WireOrder
    <3>3. csent[c] \in 0 .. MaxUnits /\ MaxUnits \in Nat /\ After(seg) \in Nat
      BY <1>5, BaseFacts, SegmentKind
    <3> QED BY <3>1, <3>2, <3>3
  <2>3. After(pseg)' = After(seg)
    BY <1>1 DEF After
  <2> QED BY <1>1, <1>9, <1>10, <2>1, <2>2, <2>3 DEF PacketInv
<1>18. FragmentInv'
  BY <1>1 DEF TalkInv, FragmentInv, SentUpTo
<1> QED BY <1>16, <1>17, <1>18 DEF TalkInv

\* The stream of a connection that both sides have closed leaves the table.
LEMMA LastAckTalk ==
    ASSUME BaseInv, TalkInv, NEW c \in Clients, NEW s \in Streams \cup {NULL}, PktLastAck(c, s)
    PROVE  TalkInv'
<1> USE DEF tableVars, seqVars, bufVars, callVars, cursorVars, hostVars, localVars, appVars,
        pktVars, clientVars, wireVars, envVars, stackVars
<1>1. /\ UNCHANGED <<fd, peer, rcv_nxt, skipped, sndbuf, appVars, clientVars, to_client>>
      /\ ppc = "idle" /\ to_stack[c] # <<>> /\ to_stack' = [to_stack EXCEPT ![c] = Tail(@)]
      /\ s = Search(c) /\ s # NULL /\ s \in Streams /\ pstream' = s /\ ppc' = "free"
      /\ status[s] = "LAST_ACK" /\ status' = [status EXCEPT ![s] = "CLOSED"]
      /\ tcb_set' = Delete(s, tcb_set)
  BY DEF PktLastAck, Process, Ignored
<1>2. IsStream(c, s) /\ Table' = Table \ {s}
  <2>1. tcb_set \in Seq(Streams) /\ NULL \notin Streams /\ Distinct(tcb_set)
    BY TableFacts DEF BaseInv, UpInv
  <2>2. s \in Table /\ (status[s] = "LISTEN" \/ peer[s] = c)
    BY <1>1, <2>1, SearchFinds
  <2> QED BY <1>1, <2>1, <2>2, DeleteMembers DEF IsStream, Table
<1>3. /\ ClientInv(c) /\ StreamInv(c, s) /\ WireInv(c)
      /\ \A t \in Streams : IsStream(c, t) => t = s
  BY <1>1, <1>2, StreamFacts DEF TalkInv, ClientInv
<1>4. ~OpenAt(c) /\ \A t \in Streams : ~IsStream(c, t)'
  BY <1>1, <1>2, <1>3 DEF OpenAt, TakesLoad, IsStream
<1>5. /\ WireInv(c)' /\ to_stack'[c] = Tail(to_stack[c])
      /\ \A d \in Clients \ {c} : to_stack'[d] = to_stack[d]
      /\ SentUpTo(c)' = SentUpTo(c)
  BY <1>1, <1>3, <1>4, TakeWire
<1>6. ~HasFlag("SYN", to_client[c])
  BY <1>1, <1>2, <1>3, NoHandshake
<1>7. ToClientInv(c)'
  <2>1. Over(c) => Over(c)'
    BY <1>1, <1>4 DEF Over
  <2> QED BY <1>1, <1>3, <1>5, <1>6, <2>1 DEF ClientInv, ToClientInv
<1>8. ClientInv(c)'
  BY <1>4, <1>5, <1>7 DEF ClientInv
<1>9. ASSUME NEW d \in Clients \ {c} PROVE SameView(d)
  <2>1. \A t \in Streams : (IsStream(d, t)' <=> IsStream(d, t)) /\ (IsStream(d, t) => t # s)
    BY <1>1, <1>2, <1>9 DEF IsStream
  <2>2. \A t \in Streams : t # s =>
           /\ Uncounted(t)' = Uncounted(t) /\ (TakesLoad(t)' <=> TakesLoad(t))
           /\ (Shutting(t)' <=> Shutting(t)) /\ status'[t] = status[t]
    <3>1. \A t \in Streams : t # s => status'[t] = status[t]
      BY <1>1, BaseFacts
    <3> QED BY <1>1, <3>1 DEF Uncounted, InHand, TakesLoad, Shutting, AtData, AtFin
  <2> QED BY <1>1, <1>5, <2>1, <2>2 DEF SameView
<1>10. \A d \in Clients : ClientInv(d)'
  BY <1>8, <1>9, OneClient DEF TalkInv
<1>11. PacketInv' /\ FragmentInv'
  BY <1>1 DEF TalkInv, PacketInv, FragmentInv, SentUpTo, AtData
<1> QED BY <1>10, <1>11 DEF TalkInv

\* A SYN makes a stream for a client that has none.
LEMMA ListenTalk ==
    ASSUME BaseInv, TalkInv, NEW c \in Clients, NEW x \in Streams \cup {NULL}, PktListen(c, x)
    PROVE  TalkInv'
<1> USE DEF tableVars, seqVars, bufVars, callVars, cursorVars, hostVars, localVars, appVars,
        pktVars, clientVars, wireVars, envVars, stackVars
<1> DEFINE q == to_stack[c]
<1>1. /\ UNCHANGED <<rcv_nxt, sndbuf, appVars, clientVars, to_client>>
      /\ ppc = "idle" /\ q # <<>> /\ to_stack' = [to_stack EXCEPT ![c] = Tail(@)]
      /\ x = Search(c) /\ x # NULL /\ status[x] = "LISTEN" /\ "SYN" \in Head(q).flags
      /\ ppc' = "synack" /\ pseg' = Head(q)
  BY DEF PktListen, Process, Ignored, Has
<1>2. PICK syn \in Streams :
         /\ status[syn] = "FREE"
         /\ tcb_set' = Insert(syn, tcb_set)
         /\ status' = [status EXCEPT ![syn] = "LISTEN"]
         /\ peer' = [peer EXCEPT ![syn] = c]
         /\ skipped' = [skipped EXCEPT ![syn] = 0]
         /\ pstream' = syn
  BY DEF PktListen
<1>3. syn \notin Table /\ Table' = Table \cup {syn} /\ syn # Listener /\ sndbuf[syn] = <<>>
  <2>1. tcb_set \in Seq(Streams)
    BY TableFacts DEF BaseInv, UpInv
  <2>2. syn \notin Table /\ syn # Listener
    BY <1>2 DEF BaseInv, UpInv, IInv, TableInv
  <2>3. sndbuf[syn] = <<>>
    BY <1>2, <2>2 DEF BaseInv, FreshInv
  <2> QED BY <1>2, <2>1, <2>2, <2>3, InsertItems DEF Table
<1>4. \A t \in Streams : ~IsStream(c, t)
  <2>1. tcb_set \in Seq(Streams) /\ NULL \notin Streams /\ Table \subseteq Streams
    BY TableFacts DEF BaseInv, UpInv
  <2>2. x \in Table /\ (peer[x] # c => \A t \in Table : peer[t] # c)
    BY <1>1, <2>1, SearchFinds
  <2>3. x = Listener /\ peer[x] = NULL
    BY <1>1, <2>1, <2>2 DEF BaseInv, UpInv, IInv, TableInv
  <2> QED BY <2>2, <2>3, UstackAssumption DEF IsStream
<1>5. ClientInv(c) /\ WireInv(c) /\ ToClientInv(c)
  BY DEF TalkInv, ClientInv
<1>6. /\ q \in Seq(ClientSegments) /\ Head(q) \in ClientSegments
      /\ Head(q) = q[1] /\ 1 \in 1 .. Len(q)
  <2>1. q \in Seq(ClientSegments) /\ q # <<>>
    BY <1>1 DEF BaseInv, KindInv
  <2> HIDE DEF q
  <2> QED BY <2>1, TailItems
<1>7. cst[c] = "syn_sent" /\ Tail(q) = <<>>
  <2>1. IsSyn(Head(q))
    BY <1>1, <1>6, SegmentKind
  <2>2. WireOrder(q, cst[c], csent[c]) /\ csent[c] \in Nat
    BY <1>5, BaseFacts DEF WireInv
  <2> QED BY <1>1, <1>6, <2>1, <2>2, TakeOrder DEF WireOrder
<1>8. ~OpenAt(c)
  BY <1>4 DEF OpenAt
<1>9. /\ WireInv(c)' /\ to_stack'[c] = Tail(to_stack[c])
      /\ \A d \in Clients \ {c} : to_stack'[d] = to_stack[d]
      /\ SentUpTo(c)' = SentUpTo(c)
  BY <1>1, <1>5, <1>8, TakeWire
<1>10. ~HasFlag("SYN", to_client[c]) /\ ~HasFlag("FIN", to_client[c])
  BY <1>4, <1>5, <1>7 DEF ToClientInv, Over
<1>11. ToClientInv(c)'
  BY <1>1, <1>5, <1>7, <1>9, <1>10 DEF ToClientInv, Talking
<1>12. \A t \in Streams : /\ peer'[t] = IF t = syn THEN c ELSE peer[t]
                          /\ status'[t] = IF t = syn THEN "LISTEN" ELSE status[t]
  BY <1>2, BaseFacts
<1>13. \A d \in Clients, t \in Streams : IsStream(d, t)' <=> IsStream(d, t) \/ (d = c /\ t = syn)
  BY <1>3, <1>12 DEF IsStream
<1>14. StreamInv(c, syn)' /\ RingInv(c, syn)'
  <2>1. ~HasSyn(to_stack[c])'
    <3>1. to_stack'[c] = <<>> /\ Len(<<>>) = 0
      BY <1>7, <1>9
    <3>2. 1 .. Len(to_stack'[c]) = {}
      BY <3>1
    <3> QED BY <3>2 DEF HasSyn
  <2>2. cst'[c] = "syn_sent" /\ status'[syn] = "LISTEN"
    BY <1>1, <1>7, <1>12
  <2>3. StreamInv(c, syn)'
    BY <2>1, <2>2 DEF StreamInv, Talking
  <2>4. sndbuf'[syn] = <<>>
    BY <1>1, <1>3
  <2>5. RingInv(c, syn)'
    BY <2>2, <2>4, EmptyFlow DEF RingInv, Talking
  <2> QED BY <2>3, <2>5
<1>15. ClientInv(c)'
  BY <1>4, <1>9, <1>11, <1>13, <1>14 DEF ClientInv
<1>16. ASSUME NEW d \in Clients \ {c} PROVE SameView(d)
  <2>1. \A t \in Streams : (IsStream(d, t)' <=> IsStream(d, t)) /\ (IsStream(d, t) => t # syn)
    BY <1>3, <1>13, <1>16 DEF IsStream
  <2>2. \A t \in Streams : t # syn =>
           /\ Uncounted(t)' = Uncounted(t) /\ (TakesLoad(t)' <=> TakesLoad(t))
           /\ (Shutting(t)' <=> Shutting(t)) /\ status'[t] = status[t]
    BY <1>1, <1>2, <1>12 DEF Uncounted, InHand, TakesLoad, Shutting, AtData, AtFin
  <2> QED BY <1>1, <1>9, <2>1, <2>2 DEF SameView
<1>17. \A d \in Clients : ClientInv(d)'
  BY <1>15, <1>16, OneClient DEF TalkInv
<1>18. PacketInv'
  <2>1. peer'[pstream'] = c /\ cst'[c] = "syn_sent" /\ to_stack'[c] = <<>>
    BY <1>1, <1>2, <1>7, <1>9, <1>12
  <2> QED BY <1>1, <2>1 DEF PacketInv, AtData
<1>19. FragmentInv'
  <2>1. SUFFICES ASSUME apc' \in Sealing PROVE FragmentInv'
    BY DEF FragmentInv
  <2>2. apc \in Sealing
    BY <1>1, <2>1
  <2>3. ahost \in Streams /\ ahost \in Table
    BY <2>2, RingFacts DEF BaseInv, UpInv, HoldInv, Transfer, InUse, Sealing
  <2>4. peer'[ahost'] = peer[ahost]
    BY <1>1, <1>3, <1>12, <2>3
  <2> QED BY <1>1, <2>2, <2>4 DEF TalkInv, FragmentInv, SentUpTo
<1> QED BY <1>17, <1>18, <1>19 DEF TalkInv

\* ng_tcp_out: the first fragment of a ring goes behind what is on its way already.
LEMMA OutTalk ==
    ASSUME BaseInv, TalkInv, PktOut
    PROVE  TalkInv'
<1> USE DEF tableVars, seqVars, bufVars, callVars, cursorVars, hostVars, localVars, appVars,
        pktVars, clientVars, wireVars, envVars, stackVars
<1>1. /\ UNCHANGED <<tcb_set, status, peer, rcv_nxt, skipped, appVars, pktVars, clientVars, to_stack>>
      /\ \A s \in Streams : sndbuf'[s] = IF s \in Sending THEN Tail(sndbuf[s]) ELSE sndbuf[s]
      /\ \A c \in Clients : to_client'[c] =
            IF \E s \in Sending : peer[s] = c
              THEN Append(to_client[c], Head(sndbuf[CHOOSE s \in Sending : peer[s] = c]))
              ELSE to_client[c]
  BY DEF PktOut
<1>2. \A d \in Clients, t \in Streams : IsStream(d, t)' <=> IsStream(d, t)
  BY <1>1 DEF IsStream, Table
<1>3. \A t \in Streams : /\ Uncounted(t)' = Uncounted(t)
                         /\ Shutting(t)' <=> Shutting(t)
                         /\ TakesLoad(t)' <=> TakesLoad(t)
                         /\ Ended(t)' <=> Ended(t)
  BY <1>1 DEF Uncounted, InHand, Shutting, TakesLoad, Ended
<1>4. ASSUME NEW c \in Clients PROVE ClientInv(c)'
  <2>1. ClientInv(c) /\ WireInv(c) /\ ToClientInv(c)
    BY DEF TalkInv, ClientInv
  <2>2. CASE ~\E s \in Sending : peer[s] = c
    <3>1. \A t \in Streams : IsStream(c, t) => sndbuf'[t] = sndbuf[t]
      BY <1>1, <2>2 DEF IsStream
    <3>2. SameView(c)
      BY <1>1, <1>2, <1>3, <2>2, <3>1 DEF SameView
    <3> QED BY <2>1, <3>2, SameClient
  <2>3. CASE \E s \in Sending : peer[s] = c
    <3>1. PICK s \in Sending : s = CHOOSE t \in Sending : peer[t] = c
      BY <2>3
    <3>2. s \in Streams /\ IsStream(c, s) /\ sndbuf[s] # <<>>
      <4>1. peer[s] = c
        BY <2>3, <3>1
      <4>2. s \in Table /\ sndbuf[s] # <<>>
        BY <3>1 DEF Sending, Table
      <4> QED BY <4>1, <4>2, TableFacts DEF IsStream, BaseInv, UpInv
    <3> DEFINE ring == sndbuf[s]
               wire == to_client[c]
               seg == Head(ring)
    <3>3. sndbuf'[s] = Tail(ring) /\ to_client'[c] = Append(wire, seg)
      BY <1>1, <2>3, <3>1, <3>2
    <3>4. ring \in Seq(Segments) /\ wire \in Seq(Segments) /\ ring # <<>>
      BY <3>2, BaseFacts
    <3>5. \A t \in Streams : IsStream(c, t) => t = s
      BY <3>2, StreamFacts
    <3>6. RingInv(c, s) /\ StreamInv(c, s)
      BY <2>1, <3>2 DEF ClientInv
    <3> HIDE DEF ring, wire, seg
    <3>7. /\ seg \in Segments /\ Tail(ring) \in Seq(Segments)
          /\ \A flag : /\ HasFlag(flag, Tail(ring)) => HasFlag(flag, ring)
                       /\ flag \in seg.flags => HasFlag(flag, ring)
                       /\ Once(flag, ring) => Once(flag, Tail(ring))
                       /\ Once(flag, ring) /\ flag \in seg.flags => ~HasFlag(flag, Tail(ring))
                       /\ OnlyLast(flag, ring) => OnlyLast(flag, Tail(ring))
                       /\ OnlyLast(flag, ring) /\ flag \in seg.flags => Tail(ring) = <<>>
          /\ \A upto : Acked(ring, upto) => Acked(Tail(ring), upto) /\ seg.ack <= upto
      BY <3>4, TakeFlow DEF seg
    <3>8. \A flag :
             /\ HasFlag(flag, Append(wire, seg)) => HasFlag(flag, wire) \/ flag \in seg.flags
             /\ Once(flag, wire) /\ (flag \in seg.flags => ~HasFlag(flag, wire)) =>
                   Once(flag, Append(wire, seg))
             /\ ~HasFlag(flag, wire) => OnlyLast(flag, Append(wire, seg))
             /\ \A upto : Acked(wire, upto) /\ seg.ack <= upto => Acked(Append(wire, seg), upto)
      BY <3>4, <3>7, PutFlow
    <3>9. /\ Once("FIN", ring) /\ (HasFlag("FIN", ring) => Over(c) /\ ~HasFlag("FIN", wire))
          /\ HasFlag("SYN", ring) =>
               cst[c] = "syn_sent" /\ status[s] = "SYN_RCVD" /\ OnlyLast("SYN", ring)
          /\ cst[c] \in Talking => Acked(ring, SentUpTo(c))
      BY <3>6 DEF RingInv, ring, wire
    <3>10. /\ Once("FIN", wire) /\ (HasFlag("FIN", wire) => Over(c))
           /\ ~HasFlag("SYN", wire)
           /\ cst[c] \in Talking => Acked(wire, SentUpTo(c))
      BY <2>1, <3>4, <3>5 DEF ToClientInv, ring, wire
    <3>11. /\ cst'[c] = cst[c] /\ csent'[c] = csent[c] /\ to_stack'[c] = to_stack[c]
           /\ status'[s] = status[s] /\ rcv_nxt'[s] = rcv_nxt[s]
           /\ SentUpTo(c)' = SentUpTo(c) /\ (OpenAt(c)' <=> OpenAt(c)) /\ (Over(c)' <=> Over(c))
      BY <1>1, <1>2, <1>3 DEF SentUpTo, OpenAt, Over
    <3>12. WireInv(c)'
      BY <2>1, <3>11 DEF WireInv
    <3>13. StreamInv(c, s)'
      BY <1>3, <3>2, <3>6, <3>11 DEF StreamInv
    <3>14. ToClientInv(c)'
      <4>1. Once("FIN", Append(wire, seg)) /\ (HasFlag("FIN", Append(wire, seg)) => Over(c))
        BY <3>7, <3>8, <3>9, <3>10
      <4>2. HasFlag("SYN", Append(wire, seg)) =>
              /\ cst[c] = "syn_sent" /\ status[s] = "SYN_RCVD" /\ Tail(ring) = <<>>
              /\ OnlyLast("SYN", Append(wire, seg))
        BY <3>7, <3>8, <3>9, <3>10
      <4>3. cst[c] \in Talking => Acked(Append(wire, seg), SentUpTo(c))
        BY <3>7, <3>8, <3>9, <3>10
      <4>4. IsStream(c, s)'
        BY <1>2, <3>2
      <4> QED BY <3>2, <3>3, <3>11, <4>1, <4>2, <4>3, <4>4 DEF ToClientInv
    <3>15. RingInv(c, s)'
      <4>1. /\ Once("FIN", Tail(ring))
            /\ HasFlag("FIN", Tail(ring)) => Over(c) /\ ~HasFlag("FIN", Append(wire, seg))
        BY <3>7, <3>8, <3>9
      <4>2. /\ HasFlag("SYN", Tail(ring)) =>
                  cst[c] = "syn_sent" /\ status[s] = "SYN_RCVD" /\ OnlyLast("SYN", Tail(ring))
            /\ cst[c] \in Talking => Acked(Tail(ring), SentUpTo(c))
        BY <3>7, <3>9
      <4> QED BY <3>3, <3>11, <4>1, <4>2 DEF RingInv
    <3> QED BY <1>2, <3>5, <3>12, <3>13, <3>14, <3>15 DEF ClientInv
  <2> QED BY <2>2, <2>3
<1>5. PacketInv' /\ FragmentInv'
  BY <1>1 DEF TalkInv, PacketInv, FragmentInv, SentUpTo
<1> QED BY <1>4, <1>5 DEF TalkInv

\* A step of client c leaves the other clients and both lcores as they are.
LEMMA ClientFrame ==
    ASSUME BaseInv, TalkInv, NEW c \in Clients, UNCHANGED stackVars, ClientInv(c)',
           \A d \in Clients \ {c} : /\ cst'[d] = cst[d] /\ csent'[d] = csent[d]
                                    /\ to_stack'[d] = to_stack[d] /\ to_client'[d] = to_client[d],
           ppc = "synack" /\ IsStream(c, pstream) => cst'[c] = "syn_sent" /\ to_stack'[c] = <<>>,
           ppc = "fin" /\ IsStream(c, pstream) => cst'[c] = "fin_wait",
           apc \in Sealing /\ IsStream(c, ahost) /\ cst'[c] \in Talking =>
              afrag.ack <= SentUpTo(c)'
    PROVE  TalkInv'
<1> USE DEF tableVars, seqVars, bufVars, callVars, cursorVars, hostVars, localVars, appVars,
        pktVars, stackVars
<1>1. ASSUME NEW d \in Clients \ {c} PROVE SameView(d)
  BY <1>1 DEF SameView, IsStream, Table, Uncounted, InHand, Shutting, TakesLoad
<1>2. \A d \in Clients : ClientInv(d)'
  BY <1>1, OneClient DEF TalkInv
<1>3. PacketInv'
  <2>1. CASE ppc \in {"synack", "fin"}
    <3>1. pstream \in Table \ {Listener}
      BY <2>1, RingFacts DEF BaseInv, UpInv
    <3>2. peer[pstream] \in Clients /\ IsStream(peer[pstream], pstream)
      BY <3>1, StreamFacts
    <3> QED BY <2>1, <3>2 DEF TalkInv, PacketInv, AtData
  <2>2. CASE ppc \notin {"synack", "fin"}
    BY <2>2 DEF TalkInv, PacketInv, After
  <2> QED BY <2>1, <2>2
<1>4. FragmentInv'
  <2>1. SUFFICES ASSUME apc \in Sealing PROVE FragmentInv'
    BY DEF FragmentInv
  <2>2. ahost \in Streams /\ ahost # Listener /\ InUse(ahost)
    BY <2>1, RingFacts DEF BaseInv, UpInv, HoldInv, Transfer, Sealing
  <2>3. peer[ahost] \in Clients /\ IsStream(peer[ahost], ahost)
    BY <2>2, StreamFacts
  <2>4. CASE peer[ahost] = c
    BY <2>1, <2>3, <2>4 DEF TalkInv, FragmentInv
  <2>5. CASE peer[ahost] # c
    BY <2>1, <2>3, <2>5 DEF TalkInv, FragmentInv, SentUpTo
  <2> QED BY <2>4, <2>5
<1> QED BY <1>2, <1>3, <1>4 DEF TalkInv

\* What a client does not touch.
LEMMA ClientLeaves ==
    ASSUME UNCHANGED stackVars, NEW c
    PROVE  /\ \A t \in Streams : /\ IsStream(c, t)' <=> IsStream(c, t)
                                 /\ Uncounted(t)' = Uncounted(t)
                                 /\ Shutting(t)' <=> Shutting(t)
                                 /\ TakesLoad(t)' <=> TakesLoad(t)
                                 /\ Ended(t)' <=> Ended(t)
           /\ OpenAt(c)' <=> OpenAt(c)
           /\ UNCHANGED <<status, rcv_nxt, skipped, sndbuf>>
<1> USE DEF tableVars, seqVars, bufVars, callVars, cursorVars, hostVars, localVars, appVars,
        pktVars, stackVars
<1>1. \A t \in Streams : /\ IsStream(c, t)' <=> IsStream(c, t)
                         /\ Uncounted(t)' = Uncounted(t)
                         /\ Shutting(t)' <=> Shutting(t)
                         /\ TakesLoad(t)' <=> TakesLoad(t)
                         /\ Ended(t)' <=> Ended(t)
  BY DEF IsStream, Table, Uncounted, InHand, Shutting, TakesLoad, Ended
<1> QED BY <1>1 DEF OpenAt

\* A connection begins when all of the last one is over but its ACKs.
LEMMA ConnectTalk ==
    ASSUME BaseInv, TalkInv, NEW c \in Clients, ClientConnect(c)
    PROVE  TalkInv'
<1>1. /\ cst[c] = "closed" /\ cst' = [cst EXCEPT ![c] = "syn_sent"]
      /\ csent' = [csent EXCEPT ![c] = 0] /\ crcv' = [crcv EXCEPT ![c] = 0]
      /\ Transmit(c, {"SYN"}, 0, <<>>) /\ UNCHANGED <<stackVars, to_client>>
  BY DEF ClientConnect
<1>2. /\ cst'[c] = "syn_sent" /\ csent'[c] = 0 /\ crcv'[c] = 0
      /\ \A d \in Clients \ {c} : cst'[d] = cst[d] /\ csent'[d] = csent[d]
  BY <1>1, BaseFacts
<1>3. PICK seg \in ClientSegments :
        /\ seg.flags = {"SYN"} /\ seg.seq = 0 /\ seg.data = <<>>
        /\ to_stack' = [to_stack EXCEPT ![c] = Append(@, seg)]
  <2>1. {"SYN"} \in {{"SYN"}, {"ACK", "FIN"}, {"ACK"}} /\ 0 \in Nat /\ crcv'[c] \in Nat
    BY <1>2
  <2>2. Transmit(c, {"SYN"}, 0, <<>>)
    BY <1>1
  <2> QED BY <2>1, <2>2, SentEmpty
<1> DEFINE q == to_stack[c]
<1>4. /\ q \in Seq(ClientSegments) /\ to_stack'[c] = Append(q, seg) /\ csent[c] \in Nat
      /\ \A d \in Clients \ {c} : to_stack'[d] = to_stack[d]
  BY <1>3, BaseFacts
<1>5. ClientInv(c) /\ WireInv(c) /\ ToClientInv(c)
  BY DEF TalkInv, ClientInv
<1>6. /\ IsSyn(seg) /\ ~IsFin(seg) /\ ~IsData(seg)
  BY <1>3 DEF IsSyn, IsFin, IsData
<1>7. ~HasLoad(q) /\ ~HasSyn(q) /\ WireOrder(q, "closed", csent[c])
  <2>1. ~HasLoad(q) /\ WireOrder(q, "closed", csent[c])
    BY <1>1, <1>5 DEF WireInv, Talking
  <2>2. ~HasSyn(q)
    BY <2>1 DEF WireOrder, HasSyn
  <2> QED BY <2>1, <2>2
<1> HIDE DEF q
<1>8. /\ WireOrder(Append(q, seg), "syn_sent", 0)
      /\ HasLoad(Append(q, seg)) => HasLoad(q)
      /\ Append(q, seg) # <<>> /\ Append(q, seg)[Len(Append(q, seg))] = seg
  BY <1>4, <1>6, <1>7, SendOrder
<1>9. WireInv(c)'
  BY <1>2, <1>4, <1>6, <1>7, <1>8 DEF WireInv, q
<1>10. /\ ~HasFlag("FIN", to_client[c]) /\ ~HasFlag("SYN", to_client[c])
  BY <1>1, <1>5 DEF ToClientInv, Over
<1>11. ToClientInv(c)'
  BY <1>1, <1>2, <1>5, <1>10 DEF ToClientInv, Talking
<1>12. ASSUME NEW t \in Streams, IsStream(c, t)' PROVE StreamInv(c, t)' /\ RingInv(c, t)'
  <2>1. IsStream(c, t) /\ StreamInv(c, t) /\ RingInv(c, t)
    BY <1>1, <1>5, <1>12, ClientLeaves DEF ClientInv
  <2>2. /\ (Shutting(t)' <=> Shutting(t)) /\ status' = status /\ sndbuf' = sndbuf
        /\ to_client' = to_client
    BY <1>1, ClientLeaves
  <2>3. StreamInv(c, t)'
    BY <1>1, <1>2, <2>1, <2>2 DEF StreamInv, Talking, Closing
  <2>4. RingInv(c, t)'
    BY <1>1, <1>2, <2>1, <2>2 DEF RingInv, Talking, Over
  <2> QED BY <2>3, <2>4
<1>13. ClientInv(c)'
  BY <1>9, <1>11, <1>12 DEF ClientInv
<1>14. /\ ~(ppc = "synack" /\ IsStream(c, pstream)) /\ ~(ppc = "fin" /\ IsStream(c, pstream))
       /\ cst'[c] \notin Talking
  BY <1>1, <1>2 DEF TalkInv, PacketInv, IsStream, Talking
<1> QED BY <1>1, <1>2, <1>4, <1>13, <1>14, ClientFrame

\* A client that sends: its connection is open, so nothing of the handshake and no FIN
\* is on its way to it.
LEMMA OpenClient ==
    ASSUME BaseInv, NEW c \in Clients, ClientInv(c), cst[c] = "estab"
    PROVE  /\ ~HasSyn(to_stack[c]) /\ OpenAt(c)
           /\ ~HasFlag("FIN", to_client[c]) /\ ~HasFlag("SYN", to_client[c])
           /\ \A s \in Streams : IsStream(c, s) =>
                 ~HasFlag("FIN", sndbuf[s]) /\ ~HasFlag("SYN", sndbuf[s])
           /\ SentUpTo(c) = csent[c] + 1
BY DEF ClientInv, WireInv, ToClientInv, RingInv, WireOrder, HasSyn, Over, SentUpTo

\* What a client sends goes behind what it has sent, and continues it.
LEMMA SayTalk ==
    ASSUME BaseInv, TalkInv, NEW c \in Clients, cst[c] = "estab",
           UNCHANGED <<stackVars, to_client>>,
           \A d \in Clients \ {c} : cst'[d] = cst[d] /\ csent'[d] = csent[d],
           NEW seg \in ClientSegments, IsData(seg) \/ IsFin(seg),
           to_stack' = [to_stack EXCEPT ![c] = Append(@, seg)],
           seg.seq = csent[c] + 1, csent'[c] \in Nat, csent'[c] >= csent[c],
           cst'[c] \in Talking, IsFin(seg) => cst'[c] = "fin_wait",
           IsData(seg) => After(seg) <= csent'[c] + 1,
           After(seg) = SentUpTo(c)'
    PROVE  TalkInv'
<1> DEFINE q == to_stack[c]
<1>1. /\ q \in Seq(ClientSegments) /\ to_stack'[c] = Append(q, seg) /\ csent[c] \in Nat
      /\ \A d \in Clients \ {c} : to_stack'[d] = to_stack[d]
  BY BaseFacts
<1>2. ClientInv(c) /\ WireInv(c) /\ ToClientInv(c)
  BY DEF TalkInv, ClientInv
<1>3. /\ ~HasSyn(q) /\ OpenAt(c)
      /\ ~HasFlag("FIN", to_client[c]) /\ ~HasFlag("SYN", to_client[c])
      /\ \A s \in Streams : IsStream(c, s) =>
            ~HasFlag("FIN", sndbuf[s]) /\ ~HasFlag("SYN", sndbuf[s])
      /\ SentUpTo(c) = csent[c] + 1
  BY <1>2, OpenClient
<1>4. cst[c] \in Talking /\ WireOrder(q, "estab", csent[c])
  BY <1>2 DEF WireInv, Talking
<1>5. ~IsSyn(seg)
  BY SegmentKind
<1> HIDE DEF q
<1>6. /\ WireOrder(Append(q, seg), cst'[c], csent'[c])
      /\ HasSyn(Append(q, seg)) => IsSyn(seg)
      /\ q # <<>> => Append(q, seg)[1] = q[1]
      /\ Append(q, seg) # <<>>
  BY <1>1, <1>3, <1>4, <1>5, SendOrder DEF q
<1>7. OpenAt(c)'
  BY <1>3, ClientLeaves
<1>8. cst'[c] # "syn_sent" /\ cst'[c] # "closed"
  BY DEF Talking
<1>9. WireInv(c)'
  BY <1>1, <1>6, <1>7, <1>8 DEF WireInv
<1>10. /\ SentUpTo(c)' \in Nat /\ SentUpTo(c) \in Nat /\ SentUpTo(c)' >= SentUpTo(c)
  <2>1. After(seg) \in Nat /\ After(seg) >= seg.seq
    BY SegmentKind
  <2> QED BY <1>1, <1>3, <2>1
<1>11. to_client' = to_client /\ sndbuf' = sndbuf /\ status' = status /\ rcv_nxt' = rcv_nxt
  BY ClientLeaves
<1>12. ToClientInv(c)'
  <2>1. Acked(to_client[c], SentUpTo(c)')
    BY <1>2, <1>4, <1>10, BaseFacts, AckedMore DEF ToClientInv
  <2> QED BY <1>2, <1>3, <1>11, <2>1 DEF ToClientInv
<1>13. ASSUME NEW t \in Streams, IsStream(c, t)' PROVE StreamInv(c, t)' /\ RingInv(c, t)'
  <2>1. IsStream(c, t) /\ StreamInv(c, t) /\ RingInv(c, t)
    BY <1>2, <1>13, ClientLeaves DEF ClientInv
  <2>2. rcv_nxt'[t] + Uncounted(t)' = rcv_nxt[t] + Uncounted(t)
    BY <1>11, ClientLeaves
  <2>3. Chain(Append(q, seg), rcv_nxt[t] + Uncounted(t), SentUpTo(c)')
    <3>1. Chain(q, rcv_nxt[t] + Uncounted(t), SentUpTo(c))
      BY <1>4, <2>1 DEF StreamInv, q
    <3>2. rcv_nxt[t] + Uncounted(t) \in Nat
      BY BaseFacts
    <3> QED BY <1>1, <1>3, <1>10, <3>1, <3>2, SendChain
  <2>4. status[t] # "LISTEN" /\ (status[t] = "SYN_RCVD" => q # <<>> /\ IsAck(q[1]))
    BY <1>4, <2>1 DEF StreamInv, q
  <2>5. StreamInv(c, t)'
    BY <1>1, <1>5, <1>6, <1>8, <1>11, <2>2, <2>3, <2>4 DEF StreamInv
  <2>6. Acked(sndbuf[t], SentUpTo(c)')
    BY <1>4, <1>10, <2>1, BaseFacts, AckedMore DEF RingInv
  <2>7. RingInv(c, t)'
    BY <1>3, <1>11, <2>1, <2>6 DEF RingInv
  <2> QED BY <2>5, <2>7
<1>14. ClientInv(c)'
  BY <1>9, <1>12, <1>13 DEF ClientInv
<1>15. ~(ppc = "synack" /\ IsStream(c, pstream)) /\ ~(ppc = "fin" /\ IsStream(c, pstream))
  BY DEF TalkInv, PacketInv, IsStream
<1>16. apc \in Sealing /\ IsStream(c, ahost) => afrag.ack <= SentUpTo(c)'
  <2>1. apc \in Sealing /\ IsStream(c, ahost) => afrag.ack <= SentUpTo(c)
    BY <1>4 DEF TalkInv, FragmentInv, IsStream
  <2>2. afrag.ack \in Nat
    BY RingFacts DEF BaseInv, UpInv, Segments
  <2> QED BY <1>10, <2>1, <2>2
<1> QED BY <1>1, <1>11, <1>14, <1>15, <1>16, ClientFrame

\* A client sends a payload that continues what it has sent.
LEMMA ClientSendTalk ==
    ASSUME BaseInv, TalkInv, NEW c \in Clients, ClientSend(c)
    PROVE  TalkInv'
<1>1. PICK n \in 1 .. MaxSeg, flags \in {{"ACK"}, {"ACK", "PSH"}} :
        /\ cst[c] = "estab" /\ UNCHANGED <<stackVars, to_client, cst, crcv>>
        /\ csent' = [csent EXCEPT ![c] = @ + n]
        /\ Transmit(c, flags, csent[c] + 1, [i \in 1 .. n |-> csent[c] + i])
  BY DEF ClientSend
<1>2. n \in Nat /\ csent[c] \in Nat /\ crcv'[c] \in Nat /\ crcv' = crcv /\ cst' = cst
  BY <1>1, UstackAssumption, BaseFacts
<1>3. csent'[c] = csent[c] + n /\ \A d \in Clients \ {c} : csent'[d] = csent[d]
  BY <1>1, BaseFacts
<1>4. PICK seg \in ClientSegments :
        /\ IsData(seg) /\ seg.seq = csent[c] + 1 /\ Len(seg.data) = n
        /\ to_stack' = [to_stack EXCEPT ![c] = Append(@, seg)]
  BY <1>1, <1>2, SentData
<1>5. After(seg) = (csent[c] + 1) + n /\ ~IsFin(seg)
  BY <1>4, SegmentKind
<1>6. SentUpTo(c)' = (csent[c] + n) + 1
  BY <1>1, <1>2, <1>3 DEF SentUpTo
<1>7. cst'[c] \in Talking /\ csent'[c] \in Nat /\ csent'[c] >= csent[c]
      /\ After(seg) = SentUpTo(c)' /\ After(seg) <= csent'[c] + 1
  BY <1>1, <1>2, <1>3, <1>5, <1>6 DEF Talking
<1>8. \A d \in Clients \ {c} : cst'[d] = cst[d] /\ csent'[d] = csent[d]
  BY <1>2, <1>3
<1>9. cst[c] = "estab" /\ UNCHANGED <<stackVars, to_client>>
  BY <1>1
<1> HIDE DEF After
<1> QED BY <1>4, <1>5, <1>7, <1>8, <1>9, SayTalk

\* A FIN that a client sends.
LEMMA SentFin ==
    ASSUME NEW c \in Clients, crcv'[c] \in Nat, NEW seq \in Nat,
           Transmit(c, {"ACK", "FIN"}, seq, <<>>)
    PROVE  \E seg \in ClientSegments :
              /\ seg.flags = {"ACK", "FIN"} /\ seg.seq = seq /\ seg.data = <<>>
              /\ to_stack' = [to_stack EXCEPT ![c] = Append(@, seg)]
BY SentEmpty

\* A client closes: its FIN is the last of what it has sent.
LEMMA ClientCloseTalk ==
    ASSUME BaseInv, TalkInv, NEW c \in Clients, ClientClose(c)
    PROVE  TalkInv'
<1>1. /\ cst[c] = "estab" /\ UNCHANGED <<stackVars, to_client, csent, crcv>>
      /\ cst' = [cst EXCEPT ![c] = "fin_wait"]
      /\ Transmit(c, {"ACK", "FIN"}, csent[c] + 1, <<>>)
  BY DEF ClientClose
<1>2. csent[c] \in Nat /\ csent[c] + 1 \in Nat /\ crcv'[c] \in Nat /\ csent' = csent
  <2>1. csent[c] \in Nat /\ crcv[c] \in Nat
    BY BaseFacts
  <2> QED BY <1>1, <2>1
<1>3. cst'[c] = "fin_wait" /\ \A d \in Clients \ {c} : cst'[d] = cst[d]
  BY <1>1, BaseFacts
<1>4. PICK seg \in ClientSegments :
        /\ seg.flags = {"ACK", "FIN"} /\ seg.seq = csent[c] + 1 /\ seg.data = <<>>
        /\ to_stack' = [to_stack EXCEPT ![c] = Append(@, seg)]
  <2>1. csent[c] + 1 \in Nat
    BY <1>2
  <2>2. crcv'[c] \in Nat /\ Transmit(c, {"ACK", "FIN"}, csent[c] + 1, <<>>)
    BY <1>1, <1>2
  <2>3. ASSUME NEW seq \in Nat, Transmit(c, {"ACK", "FIN"}, seq, <<>>)
        PROVE  \E seg \in ClientSegments :
                  /\ seg.flags = {"ACK", "FIN"} /\ seg.seq = seq /\ seg.data = <<>>
                  /\ to_stack' = [to_stack EXCEPT ![c] = Append(@, seg)]
    BY <2>2, <2>3, SentFin
  <2> QED BY <2>1, <2>2, <2>3
<1>5. IsFin(seg)
  BY <1>4 DEF IsFin
<1>6. After(seg) = (csent[c] + 1) + 1 /\ ~IsData(seg)
  BY <1>4, <1>5, SegmentKind
<1>7. SentUpTo(c)' = csent[c] + 2
  BY <1>2, <1>3 DEF SentUpTo
<1>8. cst'[c] \in Talking /\ csent'[c] \in Nat /\ csent'[c] >= csent[c]
      /\ After(seg) = SentUpTo(c)'
  BY <1>2, <1>3, <1>6, <1>7 DEF Talking
<1>9. \A d \in Clients \ {c} : cst'[d] = cst[d] /\ csent'[d] = csent[d]
  BY <1>2, <1>3
<1>10. cst[c] = "estab" /\ UNCHANGED <<stackVars, to_client>>
  BY <1>1
<1> QED BY <1>3, <1>4, <1>5, <1>6, <1>8, <1>9, <1>10, SayTalk

\* An ACK that a client sends.
LEMMA SentAck ==
    ASSUME NEW c \in Clients, crcv'[c] \in Nat, NEW seq \in Nat,
           Transmit(c, {"ACK"}, seq, <<>>)
    PROVE  \E seg \in ClientSegments :
              /\ seg.flags = {"ACK"} /\ seg.seq = seq /\ seg.data = <<>>
              /\ to_stack' = [to_stack EXCEPT ![c] = Append(@, seg)]
BY SentEmpty

\* The SYN|ACK: the stream waits for the ACK, and nothing else is under way.
LEMMA OpenTalk ==
    ASSUME BaseInv, TalkInv, NEW c \in Clients, cst[c] = "syn_sent",
           to_client[c] # <<>>, "SYN" \in Head(to_client[c]).flags,
           to_client' = [to_client EXCEPT ![c] = Tail(@)],
           cst' = [cst EXCEPT ![c] = "estab"], csent' = csent, UNCHANGED stackVars,
           Transmit(c, {"ACK"}, 1, <<>>), crcv'[c] \in Nat
    PROVE  TalkInv'
<1> DEFINE q == to_stack[c]
           wire == to_client[c]
<1>1. PICK seg \in ClientSegments :
        /\ seg.flags = {"ACK"} /\ seg.seq = 1 /\ seg.data = <<>>
        /\ to_stack' = [to_stack EXCEPT ![c] = Append(@, seg)]
  <2>1. ASSUME NEW seq \in Nat, Transmit(c, {"ACK"}, seq, <<>>)
        PROVE  \E seg \in ClientSegments :
                  /\ seg.flags = {"ACK"} /\ seg.seq = seq /\ seg.data = <<>>
                  /\ to_stack' = [to_stack EXCEPT ![c] = Append(@, seg)]
    BY <2>1, SentAck
  <2> QED BY <2>1
<1>2. /\ q \in Seq(ClientSegments) /\ to_stack'[c] = Append(q, seg)
      /\ wire \in Seq(Segments) /\ to_client'[c] = Tail(wire) /\ cst'[c] = "estab"
      /\ \A d \in Clients \ {c} : /\ cst'[d] = cst[d] /\ csent'[d] = csent[d]
                                  /\ to_stack'[d] = to_stack[d] /\ to_client'[d] = to_client[d]
  BY <1>1, BaseFacts
<1>3. IsAck(seg) /\ ~IsSyn(seg) /\ ~IsFin(seg) /\ ~IsData(seg) /\ After(seg) = 1
  BY <1>1, SegmentKind DEF IsAck
<1>4. ClientInv(c) /\ WireInv(c) /\ ToClientInv(c)
  BY DEF TalkInv, ClientInv
<1>5. HasFlag("SYN", wire) /\ Tail(wire) = <<>>
  <2>1. HasFlag("SYN", wire)
    BY <1>2, TakeFlow
  <2>2. OnlyLast("SYN", wire)
    BY <1>4, <2>1 DEF ToClientInv
  <2> QED BY <1>2, <2>1, <2>2, TakeFlow
<1>6. PICK s \in Streams : IsStream(c, s) /\ status[s] = "SYN_RCVD" /\ sndbuf[s] = <<>>
  BY <1>4, <1>5 DEF ToClientInv
<1>7. \A t \in Streams : IsStream(c, t) => t = s
  BY <1>6, StreamFacts
<1>8. StreamInv(c, s) /\ RingInv(c, s) /\ s # Listener
  BY <1>4, <1>6, StreamFacts DEF ClientInv
<1>9. q = <<>> /\ ~HasSyn(q) /\ csent[c] = 0
  <2>1. ~HasSyn(q) /\ csent[c] = 0
    BY <1>4, <1>6, <1>8 DEF StreamInv, WireInv, Closing
  <2>2. q # <<>> => Len(q) \in 1 .. Len(q)
    BY <1>2, TailItems
  <2> QED BY <1>4, <2>1, <2>2 DEF WireInv, HasSyn
<1>10. pstream = s => ppc \notin AtData \cup AtFin \cup {"synack"}
  BY <1>6 DEF BaseInv, UpInv, HandlerInv, DataPath, FreshInv, AtData, AtFin, Closing
<1>11. Uncounted(s) = 0 /\ TakesLoad(s) /\ rcv_nxt[s] = 1
  BY <1>6, <1>8, <1>10 DEF Uncounted, InHand, TakesLoad, AtFin, BaseInv, FreshInv
<1>12. /\ UNCHANGED <<status, rcv_nxt, skipped, sndbuf>> /\ Uncounted(s)' = Uncounted(s)
       /\ OpenAt(c)' /\ IsStream(c, s)'
       /\ \A t \in Streams : IsStream(c, t)' <=> IsStream(c, t)
  <2>1. OpenAt(c)
    BY <1>6, <1>11 DEF OpenAt
  <2> QED BY <1>6, <2>1, ClientLeaves
<1>13. SentUpTo(c)' = 1
  BY <1>2, <1>9 DEF SentUpTo
<1>14. WireOrder(q, "syn_sent", 0)
  BY <1>4, <1>9 DEF WireInv
<1> HIDE DEF q, wire
<1>15. /\ WireOrder(Append(q, seg), "estab", 0) /\ ~HasSyn(Append(q, seg))
       /\ Append(q, seg) # <<>>
  <2>1. ASSUME NEW state, state = "syn_sent", NEW sent \in Nat, WireOrder(q, state, sent)
        PROVE  /\ WireOrder(Append(q, seg), "estab", sent)
               /\ HasSyn(Append(q, seg)) => IsSyn(seg)
               /\ Append(q, seg) # <<>>
    <3>1. ~HasSyn(q) /\ q \in Seq(ClientSegments) /\ state # "fin_wait" /\ sent <= sent
      BY <1>2, <1>9, <2>1
    <3>2. ~IsSyn(seg) /\ ~IsFin(seg) /\ ~IsData(seg)
      BY <1>3
    <3> QED BY <2>1, <3>1, <3>2, SendOrder
  <2> QED BY <1>3, <1>14, <2>1
<1>16. Append(q, seg)[1] = seg /\ Chain(Append(q, seg), 1, 1)
  <2>1. Len(q) = 0 /\ 1 .. Len(q) = {}
    BY <1>9
  <2>2. Append(q, seg)[Len(q) + 1] = seg
    BY <1>2, AppendItems
  <2>3. Chain(q, 1, 1)
    BY <1>9, <2>1 DEF Chain
  <2>4. seg.seq = 1 /\ After(seg) = 1 /\ 1 \in Nat
    BY <1>1, <1>3
  <2>5. Chain(Append(q, seg), 1, After(seg))
    BY <1>2, <2>3, <2>4, SendChain
  <2> QED BY <2>1, <2>2, <2>4, <2>5
<1>17. WireInv(c)'
  BY <1>2, <1>9, <1>12, <1>15 DEF WireInv, Talking
<1>18. ToClientInv(c)'
  BY <1>2, <1>5, EmptyFlow DEF ToClientInv
<1>19. StreamInv(c, s)'
  <2>1. rcv_nxt'[s] + Uncounted(s)' = 1
    BY <1>11, <1>12
  <2> QED BY <1>2, <1>3, <1>6, <1>12, <1>13, <1>15, <1>16, <2>1 DEF StreamInv
<1>20. RingInv(c, s)'
  BY <1>6, <1>12, EmptyFlow DEF RingInv
<1>21. ClientInv(c)'
  BY <1>7, <1>12, <1>17, <1>18, <1>19, <1>20 DEF ClientInv
<1>22. /\ ~(ppc = "synack" /\ IsStream(c, pstream)) /\ ~(ppc = "fin" /\ IsStream(c, pstream))
  <2>1. ppc # "idle" => pstream \in Streams
    BY RingFacts DEF BaseInv, UpInv
  <2> QED BY <1>7, <1>10, <2>1 DEF AtFin
<1>23. ~(apc \in Sealing /\ IsStream(c, ahost))
  <2>1. apc \in Sealing => ahost \in Streams /\ status[ahost] # "SYN_RCVD"
    BY RingFacts DEF BaseInv, UpInv, SenderInv, HoldInv, Transfer, Sealing
  <2> QED BY <1>6, <1>7, <2>1
<1> QED BY <1>2, <1>21, <1>22, <1>23, ClientFrame

\* What a client takes from the wire that does not end its connection.
LEMMA TakenFromWire ==
    ASSUME BaseInv, TalkInv, NEW c \in Clients, to_client[c] # <<>>,
           to_client' = [to_client EXCEPT ![c] = Tail(@)], UNCHANGED stackVars
    PROVE  LET wire == to_client[c]
           IN  /\ to_client'[c] = Tail(wire) /\ wire \in Seq(Segments)
               /\ \A d \in Clients \ {c} : to_client'[d] = to_client[d]
               /\ \A flag : /\ HasFlag(flag, Tail(wire)) => HasFlag(flag, wire)
                            /\ flag \in Head(wire).flags => HasFlag(flag, wire)
                            /\ Once(flag, wire) => Once(flag, Tail(wire))
                            /\ Once(flag, wire) /\ flag \in Head(wire).flags =>
                                  ~HasFlag(flag, Tail(wire))
                            /\ OnlyLast(flag, wire) => OnlyLast(flag, Tail(wire))
               /\ \A upto : Acked(wire, upto) => Acked(Tail(wire), upto)
<1> DEFINE wire == to_client[c]
<1>1. /\ to_client'[c] = Tail(wire) /\ wire \in Seq(Segments) /\ wire # <<>>
      /\ \A d \in Clients \ {c} : to_client'[d] = to_client[d]
  BY BaseFacts
<1> HIDE DEF wire
<1>2. /\ \A flag : /\ HasFlag(flag, Tail(wire)) => HasFlag(flag, wire)
                   /\ flag \in Head(wire).flags => HasFlag(flag, wire)
                   /\ Once(flag, wire) => Once(flag, Tail(wire))
                   /\ Once(flag, wire) /\ flag \in Head(wire).flags =>
                         ~HasFlag(flag, Tail(wire))
                   /\ OnlyLast(flag, wire) => OnlyLast(flag, Tail(wire))
      /\ \A upto : Acked(wire, upto) => Acked(Tail(wire), upto)
  BY <1>1, TakeFlow
<1> QED BY <1>1, <1>2 DEF wire

\* A segment that a client only takes.
LEMMA SkipTalk ==
    ASSUME BaseInv, TalkInv, NEW c \in Clients, to_client[c] # <<>>,
           to_client' = [to_client EXCEPT ![c] = Tail(@)],
           UNCHANGED <<stackVars, cst, csent, to_stack>>
    PROVE  TalkInv'
<1> DEFINE wire == to_client[c]
<1>1. ClientInv(c) /\ WireInv(c) /\ ToClientInv(c)
  BY DEF TalkInv, ClientInv
<1>2. /\ to_client'[c] = Tail(wire)
      /\ \A d \in Clients \ {c} : to_client'[d] = to_client[d]
      /\ \A flag : /\ HasFlag(flag, Tail(wire)) => HasFlag(flag, wire)
                   /\ Once(flag, wire) => Once(flag, Tail(wire))
                   /\ OnlyLast(flag, wire) => OnlyLast(flag, Tail(wire))
      /\ \A upto : Acked(wire, upto) => Acked(Tail(wire), upto)
  BY TakenFromWire
<1>3. /\ UNCHANGED <<status, rcv_nxt, skipped, sndbuf>> /\ SentUpTo(c)' = SentUpTo(c)
      /\ (OpenAt(c)' <=> OpenAt(c)) /\ (Over(c)' <=> Over(c))
      /\ \A t \in Streams : /\ IsStream(c, t)' <=> IsStream(c, t)
                            /\ Uncounted(t)' = Uncounted(t)
                            /\ Shutting(t)' <=> Shutting(t)
  BY ClientLeaves DEF SentUpTo, Over
<1>4. WireInv(c)'
  BY <1>1, <1>3 DEF WireInv
<1>5. ToClientInv(c)'
  BY <1>1, <1>2, <1>3 DEF ToClientInv
<1>6. ASSUME NEW t \in Streams, IsStream(c, t)' PROVE StreamInv(c, t)' /\ RingInv(c, t)'
  <2>1. IsStream(c, t) /\ StreamInv(c, t) /\ RingInv(c, t)
    BY <1>1, <1>3, <1>6 DEF ClientInv
  <2>2. StreamInv(c, t)'
    BY <1>3, <2>1 DEF StreamInv
  <2>3. RingInv(c, t)'
    BY <1>2, <1>3, <2>1 DEF RingInv
  <2> QED BY <2>2, <2>3
<1>7. ClientInv(c)'
  BY <1>4, <1>5, <1>6 DEF ClientInv
<1>8. /\ ppc = "synack" /\ IsStream(c, pstream) => cst'[c] = "syn_sent" /\ to_stack'[c] = <<>>
      /\ ppc = "fin" /\ IsStream(c, pstream) => cst'[c] = "fin_wait"
  BY DEF TalkInv, PacketInv, IsStream
<1>9. apc \in Sealing /\ IsStream(c, ahost) /\ cst'[c] \in Talking =>
         afrag.ack <= SentUpTo(c)'
  BY <1>3 DEF TalkInv, FragmentInv, IsStream
<1> QED BY <1>2, <1>7, <1>8, <1>9, ClientFrame

\* What a client acks while its connection goes on.
LEMMA AnswerTalk ==
    ASSUME BaseInv, TalkInv, NEW c \in Clients, cst[c] \in Talking,
           to_client[c] # <<>>, to_client' = [to_client EXCEPT ![c] = Tail(@)],
           UNCHANGED <<stackVars, cst, csent>>,
           Transmit(c, {"ACK"}, SentUpTo(c), <<>>), crcv'[c] \in Nat
    PROVE  TalkInv'
<1> DEFINE q == to_stack[c]
           wire == to_client[c]
<1>1. PICK seg \in ClientSegments :
        /\ seg.flags = {"ACK"} /\ seg.seq = SentUpTo(c) /\ seg.data = <<>>
        /\ to_stack' = [to_stack EXCEPT ![c] = Append(@, seg)]
  BY BaseFacts, SentAck
<1>2. /\ q \in Seq(ClientSegments) /\ to_stack'[c] = Append(q, seg) /\ csent[c] \in Nat
      /\ \A d \in Clients \ {c} : to_stack'[d] = to_stack[d]
      /\ SentUpTo(c) \in Nat
  BY <1>1, BaseFacts
<1>3. /\ IsAck(seg) /\ ~IsSyn(seg) /\ ~IsFin(seg) /\ ~IsData(seg)
      /\ After(seg) = SentUpTo(c)
  BY <1>1, SegmentKind DEF IsAck
<1>4. ClientInv(c) /\ WireInv(c) /\ ToClientInv(c)
  BY DEF TalkInv, ClientInv
<1>5. /\ to_client'[c] = Tail(wire)
      /\ \A d \in Clients \ {c} : to_client'[d] = to_client[d]
      /\ \A flag : /\ HasFlag(flag, Tail(wire)) => HasFlag(flag, wire)
                   /\ Once(flag, wire) => Once(flag, Tail(wire))
                   /\ OnlyLast(flag, wire) => OnlyLast(flag, Tail(wire))
      /\ \A upto : Acked(wire, upto) => Acked(Tail(wire), upto)
  BY TakenFromWire
<1>6. /\ UNCHANGED <<status, rcv_nxt, skipped, sndbuf>> /\ SentUpTo(c)' = SentUpTo(c)
      /\ (OpenAt(c)' <=> OpenAt(c)) /\ (Over(c)' <=> Over(c))
      /\ \A t \in Streams : /\ IsStream(c, t)' <=> IsStream(c, t)
                            /\ Uncounted(t)' = Uncounted(t)
                            /\ Shutting(t)' <=> Shutting(t)
  BY ClientLeaves DEF SentUpTo, Over
<1>7. ~HasSyn(q) /\ WireOrder(q, cst[c], csent[c])
  BY <1>4 DEF WireInv, WireOrder, HasSyn, Talking
<1> HIDE DEF q, wire
<1>8. /\ WireOrder(Append(q, seg), cst[c], csent[c])
      /\ ~HasSyn(Append(q, seg)) /\ (HasLoad(Append(q, seg)) => HasLoad(q))
      /\ q # <<>> => Append(q, seg)[1] = q[1]
      /\ Append(q, seg) # <<>>
  <2>1. ASSUME NEW state, NEW sent \in Nat, WireOrder(q, state, sent)
        PROVE  /\ WireOrder(Append(q, seg), state, sent)
               /\ HasSyn(Append(q, seg)) => IsSyn(seg)
               /\ HasLoad(Append(q, seg)) => HasLoad(q) \/ IsFin(seg) \/ IsData(seg)
               /\ q # <<>> => Append(q, seg)[1] = q[1]
               /\ Append(q, seg) # <<>>
    <3>1. ~HasSyn(q) /\ q \in Seq(ClientSegments) /\ sent <= sent /\ IsAck(seg)
      BY <1>2, <1>3, <1>7
    <3>2. ~IsSyn(seg) /\ ~IsFin(seg) /\ ~IsData(seg)
      BY <1>3
    <3> QED BY <2>1, <3>1, <3>2, SendOrder
  <2> QED BY <1>2, <1>3, <1>7, <2>1
<1>9. WireInv(c)'
  BY <1>2, <1>4, <1>6, <1>8 DEF WireInv, Talking, q
<1>10. ToClientInv(c)'
  BY <1>4, <1>5, <1>6 DEF ToClientInv, Talking, wire
<1>11. ASSUME NEW t \in Streams, IsStream(c, t)' PROVE StreamInv(c, t)' /\ RingInv(c, t)'
  <2>1. IsStream(c, t) /\ StreamInv(c, t) /\ RingInv(c, t)
    BY <1>4, <1>6, <1>11 DEF ClientInv
  <2>2. Chain(Append(q, seg), rcv_nxt[t] + Uncounted(t), SentUpTo(c))
    <3>1. Chain(q, rcv_nxt[t] + Uncounted(t), SentUpTo(c))
      BY <2>1 DEF StreamInv, q
    <3>2. rcv_nxt[t] + Uncounted(t) \in Nat
      BY BaseFacts
    <3>3. seg.seq = SentUpTo(c)
      BY <1>1
    <3>4. Chain(Append(q, seg), rcv_nxt[t] + Uncounted(t), After(seg))
      BY <1>2, <3>1, <3>2, <3>3, SendChain
    <3> QED BY <1>3, <3>4
  <2>3. status[t] # "LISTEN" /\ (status[t] = "SYN_RCVD" => q # <<>> /\ IsAck(q[1]))
    BY <2>1 DEF StreamInv, q
  <2>4. rcv_nxt'[t] + Uncounted(t)' = rcv_nxt[t] + Uncounted(t)
    BY <1>6
  <2>5. StreamInv(c, t)'
    BY <1>2, <1>6, <1>8, <2>2, <2>3, <2>4 DEF StreamInv, Talking
  <2>6. RingInv(c, t)'
    BY <1>5, <1>6, <2>1 DEF RingInv, wire
  <2> QED BY <2>5, <2>6
<1>12. ClientInv(c)'
  BY <1>9, <1>10, <1>11 DEF ClientInv
<1>13. /\ ~(ppc = "synack" /\ IsStream(c, pstream))
       /\ ppc = "fin" /\ IsStream(c, pstream) => cst'[c] = "fin_wait"
  BY DEF TalkInv, PacketInv, IsStream, Talking
<1>14. apc \in Sealing /\ IsStream(c, ahost) /\ cst'[c] \in Talking =>
          afrag.ack <= SentUpTo(c)'
  BY <1>6 DEF TalkInv, FragmentInv, IsStream
<1> QED BY <1>2, <1>5, <1>12, <1>13, <1>14, ClientFrame

\* The FIN that ends a connection: its streams have closed too, and all that is under
\* way to them are ACKs.
LEMMA FinishTalk ==
    ASSUME BaseInv, TalkInv, NEW c \in Clients, cst[c] \in Talking,
           to_client[c] # <<>>, to_client' = [to_client EXCEPT ![c] = Tail(@)],
           "FIN" \in Head(to_client[c]).flags, cst' = [cst EXCEPT ![c] = "closed"],
           UNCHANGED <<stackVars, csent>>,
           Transmit(c, {"ACK"}, SentUpTo(c), <<>>), crcv'[c] \in Nat
    PROVE  TalkInv'
<1> DEFINE q == to_stack[c]
           wire == to_client[c]
<1>1. PICK seg \in ClientSegments :
        /\ seg.flags = {"ACK"} /\ seg.seq = SentUpTo(c) /\ seg.data = <<>>
        /\ to_stack' = [to_stack EXCEPT ![c] = Append(@, seg)]
  BY BaseFacts, SentAck
<1>2. /\ q \in Seq(ClientSegments) /\ to_stack'[c] = Append(q, seg) /\ csent[c] \in Nat
      /\ cst'[c] = "closed"
      /\ \A d \in Clients \ {c} : to_stack'[d] = to_stack[d] /\ cst'[d] = cst[d]
  BY <1>1, BaseFacts
<1>3. IsAck(seg) /\ ~IsSyn(seg) /\ ~IsFin(seg) /\ ~IsData(seg)
  BY <1>1, SegmentKind DEF IsAck
<1>4. ClientInv(c) /\ WireInv(c) /\ ToClientInv(c)
  BY DEF TalkInv, ClientInv
<1>5. /\ to_client'[c] = Tail(wire)
      /\ \A d \in Clients \ {c} : to_client'[d] = to_client[d]
      /\ HasFlag("FIN", wire) /\ Once("FIN", Tail(wire)) /\ ~HasFlag("FIN", Tail(wire))
      /\ HasFlag("SYN", Tail(wire)) => HasFlag("SYN", wire)
  BY <1>4, TakenFromWire DEF ToClientInv
<1>6. Over(c) /\ ~HasFlag("SYN", Tail(wire))
  BY <1>4, <1>5 DEF ToClientInv, Talking
<1>7. /\ UNCHANGED <<status, rcv_nxt, skipped, sndbuf>>
      /\ \A t \in Streams : /\ IsStream(c, t)' <=> IsStream(c, t)
                            /\ Shutting(t)' <=> Shutting(t)
  BY ClientLeaves
<1>8. ~HasSyn(q) /\ ~HasLoad(q) /\ WireOrder(q, "fin_wait", csent[c])
  <2>1. ~HasSyn(q) /\ WireOrder(q, "fin_wait", csent[c])
    BY <1>4, <1>6 DEF WireInv, WireOrder, HasSyn, Talking, Over
  <2>2. ~OpenAt(c)
    BY <1>6 DEF OpenAt, Over, Ended, TakesLoad
  <2> QED BY <1>4, <2>1, <2>2 DEF WireInv
<1> HIDE DEF q, wire
<1>9. /\ WireOrder(Append(q, seg), "closed", csent[c])
      /\ ~HasSyn(Append(q, seg)) /\ ~HasLoad(Append(q, seg))
  <2>1. ASSUME NEW state, NEW sent \in Nat, WireOrder(q, state, sent)
        PROVE  /\ WireOrder(Append(q, seg), "closed", sent)
               /\ HasSyn(Append(q, seg)) => IsSyn(seg)
               /\ HasLoad(Append(q, seg)) => HasLoad(q) \/ IsFin(seg) \/ IsData(seg)
    <3>1. ~HasSyn(q) /\ ~HasLoad(q) /\ q \in Seq(ClientSegments) /\ IsAck(seg)
      BY <1>2, <1>3, <1>8
    <3>2. ~IsSyn(seg) /\ ~IsFin(seg) /\ ~IsData(seg)
      BY <1>3
    <3> QED BY <2>1, <3>1, <3>2, SendOrder
  <2> QED BY <1>2, <1>3, <1>8, <2>1
<1>10. WireInv(c)'
  BY <1>2, <1>9 DEF WireInv
<1>11. ToClientInv(c)'
  BY <1>2, <1>5, <1>6 DEF ToClientInv, Talking
<1>12. ASSUME NEW t \in Streams, IsStream(c, t)' PROVE StreamInv(c, t)' /\ RingInv(c, t)'
  <2>1. IsStream(c, t) /\ StreamInv(c, t) /\ RingInv(c, t) /\ Ended(t)
    BY <1>4, <1>6, <1>7, <1>12 DEF ClientInv, Over
  <2>2. StreamInv(c, t)'
    BY <1>2, <1>7, <1>9, <2>1 DEF StreamInv, Talking, Closing, Ended
  <2>3. ~HasFlag("FIN", sndbuf[t]) /\ ~HasFlag("SYN", sndbuf[t]) /\ Once("FIN", sndbuf[t])
    BY <1>5, <2>1 DEF RingInv, Talking, wire
  <2>4. RingInv(c, t)'
    BY <1>2, <1>7, <2>3 DEF RingInv, Talking
  <2> QED BY <2>2, <2>4
<1>13. ClientInv(c)'
  BY <1>10, <1>11, <1>12 DEF ClientInv
<1>14. ~(ppc = "synack" /\ IsStream(c, pstream)) /\ cst'[c] \notin Talking
  BY <1>2 DEF TalkInv, PacketInv, IsStream, Talking
<1>15. ~(ppc = "fin" /\ IsStream(c, pstream))
  <2>1. ppc = "fin" => pstream \in Streams /\ status[pstream] = "ESTABLISHED"
    BY RingFacts DEF BaseInv, UpInv, HandlerInv, DataPath
  <2> QED BY <1>6, <2>1 DEF Over, Ended
<1> QED BY <1>2, <1>5, <1>13, <1>14, <1>15, ClientFrame

\* What reaches a client.
LEMMA RecvTalk ==
    ASSUME BaseInv, TalkInv, NEW c \in Clients, ClientRecv(c)
    PROVE  TalkInv'
<1> DEFINE wire == to_client[c]
           fin == "FIN" \in Head(wire).flags /\ crcv[c] - Head(wire).seq = Len(Head(wire).data)
<1>1. /\ wire # <<>> /\ to_client' = [to_client EXCEPT ![c] = Tail(@)]
      /\ UNCHANGED stackVars
      /\ \/ /\ cst[c] = "syn_sent" /\ "SYN" \in Head(wire).flags
            /\ cst' = [cst EXCEPT ![c] = "estab"] /\ csent' = csent
            /\ Transmit(c, {"ACK"}, 1, <<>>)
         \/ /\ cst[c] \in {"estab", "fin_wait"} /\ csent' = csent
            /\ cst' = [cst EXCEPT ![c] = IF fin THEN "closed" ELSE @]
            /\ Transmit(c, {"ACK"}, csent[c] + IF cst[c] = "estab" THEN 1 ELSE 2, <<>>)
         \/ UNCHANGED <<cst, csent, to_stack>>
  BY DEF ClientRecv, clientVars
<1>2. crcv'[c] \in Nat
  <2>1. [Next]_vars /\ IInv
    BY DEF Next, Client, BaseInv, UpInv
  <2>2. ClientOK'
    BY <2>1, StepTypeOK DEF TypeOK
  <2> QED BY <2>2 DEF ClientOK
<1>3. cst \in [Clients -> {"closed", "syn_sent", "estab", "fin_wait"}]
  BY BaseFacts
<1> HIDE DEF fin
<1>4. CASE /\ cst[c] = "syn_sent" /\ "SYN" \in Head(wire).flags
           /\ cst' = [cst EXCEPT ![c] = "estab"] /\ csent' = csent
           /\ Transmit(c, {"ACK"}, 1, <<>>)
  BY <1>1, <1>2, <1>4, OpenTalk
<1>5. CASE /\ cst[c] \in {"estab", "fin_wait"} /\ csent' = csent
           /\ cst' = [cst EXCEPT ![c] = IF fin THEN "closed" ELSE @]
           /\ Transmit(c, {"ACK"}, csent[c] + IF cst[c] = "estab" THEN 1 ELSE 2, <<>>)
  <2>1. cst[c] \in Talking /\ Transmit(c, {"ACK"}, SentUpTo(c), <<>>)
    BY <1>5 DEF Talking, SentUpTo
  <2>2. CASE fin
    <3>1. cst' = [cst EXCEPT ![c] = "closed"] /\ csent' = csent
      BY <1>5, <2>2
    <3>2. "FIN" \in Head(wire).flags
      BY <2>2 DEF fin
    <3> QED BY <1>1, <1>2, <2>1, <3>1, <3>2, FinishTalk
  <2>3. CASE ~fin
    <3>1. cst' = cst /\ csent' = csent
      BY <1>3, <1>5, <2>3
    <3> QED BY <1>1, <1>2, <2>1, <3>1, AnswerTalk
  <2> QED BY <2>2, <2>3
<1>6. CASE UNCHANGED <<cst, csent, to_stack>>
  BY <1>1, <1>6, SkipTalk
<1> QED BY <1>1, <1>4, <1>5, <1>6

\* Without losses and repetitions every step keeps what is under way in order.
LEMMA StepTalkInv ==
    ASSUME BaseInv, TalkInv, faults' = 0, [Next]_vars
    PROVE  TalkInv'
<1>1. CASE \/ \E f \in Fds \cup {ListenFd} : AppEvent(f)
           \/ AppFindNext \/ AppFound \/ AppNotFound
           \/ AcceptLock \/ AcceptScan \/ AcceptAssign
           \/ RecvLock \/ RecvEmpty \/ RecvWait \/ RecvTake \/ RecvRequeue \/ RecvDone
           \/ CloseFd \/ UNCHANGED vars
  BY <1>1, AppQuiet
<1>2. CASE SendBuild \/ CloseBuild \/ SendEnqueue \/ CloseFin \/ CloseStatus
  BY <1>2, BuildTalk, EnqueueTalk, CloseFinTalk, StatusTalk
<1>3. CASE PktContinue
  BY <1>3, PacketQuiet, CountTalk, AckTalk, StatusTalk, SynAckTalk DEF PktContinue
<1>4. CASE PktOut
  BY <1>4, OutTalk
<1>5. ASSUME NEW c \in Clients, PktRecv(c) PROVE TalkInv'
  BY <1>5, IgnoreTalk, ListenTalk, HandlerTalk, LastAckTalk DEF PktRecv
<1>6. ASSUME NEW c \in Clients, Client(c) PROVE TalkInv'
  BY <1>6, ConnectTalk, ClientSendTalk, ClientCloseTalk, RecvTalk DEF Client
<1>7. ASSUME NEW c \in Clients PROVE ~WireLose(c) /\ ~WireDuplicate(c)
  BY NoFaults DEF BaseInv, UpInv
<1> QED BY <1>1, <1>2, <1>3, <1>4, <1>5, <1>6, <1>7 DEF Next, App

\* At the start nothing is under way and no client has a stream.
LEMMA InitTalk == Init => BaseInv /\ TalkInv
<1> SUFFICES ASSUME Init PROVE BaseInv /\ TalkInv
  OBVIOUS
<1>1. IInv /\ FieldInv
  BY InitIInv, UstackAssumption DEF Init, FieldInv, Holding, DataPath
<1>2. Table = {Listener} /\ InUse(Listener) /\ peer[Listener] = NULL
  <2>1. tcb_set = <<Listener>> /\ status[Listener] = "LISTEN" /\ peer[Listener] = NULL
    BY UstackAssumption DEF Init
  <2>2. Table = {Listener}
    BY <2>1 DEF Table, Members
  <2> QED BY <2>1, <2>2 DEF InUse
<1>3. PayloadInv /\ HoldInv /\ HandlerInv
  BY DEF Init, PayloadInv, HoldInv, HandlerInv, Transfer, DataPath
<1>4. FdInv
  BY <1>2, UstackAssumption DEF Init, FdInv
<1>5. KindInv
  BY DEF Init, KindInv, AtData, AtFin
<1>6. FreshInv /\ SenderInv
  BY DEF Init, FreshInv, SenderInv
<1>7. ASSUME NEW c \in Clients PROVE ClientInv(c)
  <2>1. to_stack[c] = <<>> /\ to_client[c] = <<>> /\ cst[c] = "closed" /\ 1 .. Len(<<>>) = {}
    BY <1>7 DEF Init
  <2>2. WireInv(c)
    BY <2>1 DEF WireInv, WireOrder, HasLoad
  <2>3. ToClientInv(c)
    BY <2>1, EmptyFlow DEF ToClientInv, Talking
  <2>4. \A s \in Streams : ~IsStream(c, s)
    BY <1>2, UstackAssumption DEF IsStream
  <2> QED BY <2>2, <2>3, <2>4 DEF ClientInv
<1>8. PacketInv /\ FragmentInv
  BY DEF Init, PacketInv, FragmentInv, Sealing, AtData
<1> QED BY <1>1, <1>3, <1>4, <1>5, <1>6, <1>7, <1>8 DEF BaseInv, UpInv, TalkInv

\* The invariants about kinds, rings and users are kept until a lookup goes astray.
LEMMA StepBaseInv ==
    ASSUME BaseInv, ~stray', [Next]_vars
    PROVE  BaseInv'
<1>1. IInv /\ FieldInv /\ PayloadInv /\ HoldInv /\ HandlerInv /\ FdInv
  BY DEF BaseInv, UpInv
<1>2. IInv' /\ FieldInv' /\ PayloadInv' /\ HoldInv' /\ HandlerInv' /\ FdInv'
  BY <1>1, StepIInv, StepFieldInv, StepPayloadInv, StepHoldInv, StepHandlerInv, StepFdInv
<1>3. KindInv' /\ FreshInv' /\ SenderInv'
  BY <1>1, StepKindInv, StepFreshInv, StepSenderInv DEF BaseInv
<1> QED BY <1>2, <1>3 DEF BaseInv, UpInv

\* What is under way, until a lookup goes astray.
LEMMA TalkInvariant == Spec => [](~stray => BaseInv /\ (faults = 0 => TalkInv))
<1> DEFINE Inv == ~stray => BaseInv /\ (faults = 0 => TalkInv)
<1>1. Init => Inv
  BY InitTalk
<1>2. Inv /\ [Next]_vars => Inv'
  <2> SUFFICES ASSUME Inv, [Next]_vars, ~stray'
               PROVE  BaseInv' /\ (faults' = 0 => TalkInv')
    OBVIOUS
  <2>1. BaseInv /\ (faults = 0 => TalkInv)
    BY StrayStays
  <2>2. IInv
    BY <2>1 DEF BaseInv, UpInv
  <2>3. BaseInv'
    BY <2>1, StepBaseInv
  <2>4. ASSUME faults' = 0 PROVE TalkInv'
    BY <2>1, <2>2, <2>4, NoFaults, StepTalkInv
  <2> QED BY <2>3, <2>4
<1> QED BY <1>1, <1>2, PTL DEF Spec

\* No segment on its way to a client acks what the client has not sent: rcv_nxt counts
\* the payload, the SYN and the FIN that came, and nothing twice.  (While the wire
\* has neither lost nor repeated anything, until a lookup goes astray.)
THEOREM AcksWereSent == Spec => [](~stray /\ faults = 0 => AckedWasSent)
<1>1. (~stray => BaseInv /\ (faults = 0 => TalkInv)) => (~stray /\ faults = 0 => AckedWasSent)
  <2> SUFFICES ASSUME BaseInv, TalkInv, NEW c \in Clients, cst[c] \in Talking
               PROVE  \A i \in 1 .. Len(to_client[c]) :
                         to_client[c][i].ack <= csent[c] + IF cst[c] = "estab" THEN 1 ELSE 2
    BY DEF AckedWasSent, Talking
  <2>1. Acked(to_client[c], SentUpTo(c))
    BY DEF TalkInv, ClientInv, ToClientInv
  <2> QED BY <2>1 DEF Acked, SentUpTo
<1> QED BY <1>1, TalkInvariant, PTL
-----------------------------------------------------------------------------
\* What has been taken and what waits in a ring: n units in the order of sending,
\* and none of them numbered over top.
Numbered(got, ring, n, top) ==
    /\ InOrder(got, ring) /\ OfFirst(top, got, ring)
    /\ \E count \in [0 .. Len(ring) -> 0 .. MaxUnits] :
          Counts(count, got, ring) /\ count[Len(ring)] = n

\* Of a stream that is in use: what it put in its ring and has not yet counted,
\* whether it has counted a FIN, and how many units have come.
Alive(s) == status[s] \notin {"FREE", "CLOSED"}
Queued(s) == IF pstream = s /\ ppc \in {"signal", "count"} THEN Len(pseg.data) ELSE 0
FinCounted(s) ==
    status[s] \in Closing /\ ~(pstream = s /\ ppc \in {"fin-enqueue", "fin-signal", "fin-count"})
Arrived(s) == IF status[s] = "LISTEN" THEN 0
              ELSE (rcv_nxt[s] - 1) + (Queued(s) - IF FinCounted(s) THEN 1 ELSE 0)

OrderInv ==
    /\ apc # "recv-requeue"
    /\ \A s \in Streams : \A k \in 1 .. Len(rcvbuf[s]) : Len(rcvbuf[s][k]) <= BufLen
    /\ \A s \in Streams \ {Listener} : Alive(s) =>
          Numbered(taken[s], rcvbuf[s], Arrived(s), Arrived(s) + skipped[s])
-----------------------------------------------------------------------------
\* Nothing has come yet.
LEMMA NumberedNone == Numbered(<<>>, <<>>, 0, 0)
<1>1. MaxUnits \in Nat
  BY UstackAssumption
<1>2. 1 .. Len(<<>>) = {} /\ Len(<<>>) = 0
  OBVIOUS
<1> DEFINE count == [k \in 0 .. 0 |-> 0]
<1>3. count \in [0 .. 0 -> 0 .. MaxUnits] /\ count[0] = 0
  BY <1>1
<1> HIDE DEF count
<1> QED BY <1>2, <1>3 DEF Numbered, InOrder, OfFirst, Counts

\* More has come without PSH: the units that were counted are still among the first.
LEMMA NumberedMore ==
    ASSUME NEW got \in Seq(Nat), NEW ring \in Seq(Seq(Nat)), NEW n, NEW top \in Int,
           Numbered(got, ring, n, top), NEW higher \in Int, top <= higher
    PROVE  Numbered(got, ring, n, higher)
<1>1. \A i \in 1 .. Len(got) : got[i] \in Nat
  OBVIOUS
<1>2. \A k \in 1 .. Len(ring) : \A i \in 1 .. Len(ring[k]) : ring[k][i] \in Nat
  <2>1. \A k \in 1 .. Len(ring) : ring[k] \in Seq(Nat)
    OBVIOUS
  <2> QED BY <2>1
<1>3. OfFirst(higher, got, ring)
  BY <1>1, <1>2 DEF Numbered, OfFirst
<1> QED BY <1>3 DEF Numbered

\* A payload that comes after all that came, put at the end of the ring.
LEMMA NumberedPut ==
    ASSUME NEW got \in Seq(Nat), NEW ring \in Seq(Seq(Nat)), NEW n \in Int, NEW top \in Nat,
           Numbered(got, ring, n, top), NEW data \in Seq(Nat), n + Len(data) <= MaxUnits,
           \A i \in 1 .. Len(data) : data[i] = top + i
    PROVE  Numbered(got, Append(ring, data), n + Len(data), top + Len(data))
<1> DEFINE r == Append(ring, data)
           last == Len(ring)
<1>1. PICK count \in [0 .. last -> 0 .. MaxUnits] :
          /\ count[0] = Len(got) /\ count[last] = n
          /\ \A k \in 1 .. last : count[k] = count[k - 1] + Len(ring[k])
  BY DEF Numbered, Counts
<1>2. /\ r \in Seq(Seq(Nat)) /\ last \in Nat /\ Len(r) = last + 1
      /\ \A k \in 1 .. last : r[k] = ring[k]
      /\ r[last + 1] = data
      /\ \A k \in 1 .. Len(r) : k \in 1 .. last \/ k = last + 1
  BY AppendItems
<1>3. MaxUnits \in Nat /\ Len(data) \in Nat /\ n \in 0 .. MaxUnits
  <2>1. MaxUnits \in Nat /\ Len(data) \in Nat /\ last \in 0 .. last
    BY <1>2, UstackAssumption
  <2>2. count[last] \in 0 .. MaxUnits
    BY <2>1
  <2> QED BY <1>1, <2>1, <2>2
<1>0. /\ \A i \in 1 .. Len(got) : got[i] \in Nat
      /\ \A k \in 1 .. Len(ring) : \A i \in 1 .. Len(ring[k]) : ring[k][i] \in Nat
  <2>1. \A k \in 1 .. Len(ring) : ring[k] \in Seq(Nat)
    OBVIOUS
  <2>2. \A k \in 1 .. Len(ring) : \A i \in 1 .. Len(ring[k]) : ring[k][i] \in Nat
    BY <2>1
  <2>3. \A i \in 1 .. Len(got) : got[i] \in Nat
    OBVIOUS
  <2> QED BY <2>2, <2>3
<1>10. /\ \A i, j \in 1 .. Len(got) : i < j => got[i] < got[j]
       /\ \A i \in 1 .. Len(got) : got[i] \in 1 .. top
       /\ \A k \in 1 .. last : \A i \in 1 .. Len(ring[k]) :
             /\ ring[k][i] = ring[k][1] + (i - 1) /\ ring[k][i] \in 1 .. top
             /\ \A j \in 1 .. Len(got) : got[j] < ring[k][i]
       /\ \A k, m \in 1 .. last : k < m =>
             \A i \in 1 .. Len(ring[k]), j \in 1 .. Len(ring[m]) : ring[k][i] < ring[m][j]
  BY DEF Numbered, InOrder, OfFirst
<1>20. ASSUME NEW u \in 1 .. top, NEW v \in Nat, v >= 1 PROVE u < top + v
  BY <1>20
<1> HIDE DEF r, last
<1>4. n + Len(data) \in 0 .. MaxUnits
  BY <1>3
<1> DEFINE more == [k \in 0 .. (last + 1) |-> IF k = last + 1 THEN n + Len(data) ELSE count[k]]
<1>5. more \in [0 .. Len(r) -> 0 .. MaxUnits]
  BY <1>1, <1>2, <1>4
<1>6. /\ more[last + 1] = n + Len(data)
      /\ \A k \in 0 .. last : more[k] = count[k]
  BY <1>2
<1> HIDE DEF more
<1>7. ASSUME NEW k \in 1 .. Len(r) PROVE more[k] = more[k - 1] + Len(r[k])
  <2>1. CASE k = last + 1
    <3>1. more[k - 1] = n /\ r[k] = data
      BY <1>1, <1>2, <1>6, <2>1
    <3> QED BY <1>6, <2>1, <3>1
  <2>2. CASE k \in 1 .. last
    <3>1. more[k] = count[k] /\ more[k - 1] = count[k - 1] /\ r[k] = ring[k]
      <4>1. k \in 0 .. last /\ k - 1 \in 0 .. last
        BY <1>2, <2>2
      <4> QED BY <1>2, <1>6, <2>2, <4>1
    <3> QED BY <1>1, <2>2, <3>1
  <2> QED BY <1>2, <2>1, <2>2
<1>8. more[0] = Len(got) /\ more[Len(r)] = n + Len(data)
  BY <1>1, <1>2, <1>6
<1>11. ASSUME NEW i \in 1 .. Len(data)
       PROVE  data[i] = top + i /\ data[i] = data[1] + (i - 1) /\ data[i] \in 1 .. (top + Len(data))
  <2>1. i \in Nat /\ i >= 1 /\ i <= Len(data) /\ 1 \in 1 .. Len(data)
    BY <1>3
  <2> QED BY <1>3, <2>1
<1>12. ASSUME NEW k \in 1 .. Len(r), NEW i \in 1 .. Len(r[k])
       PROVE  /\ r[k][i] = r[k][1] + (i - 1) /\ r[k][i] \in 1 .. (top + Len(data))
              /\ \A j \in 1 .. Len(got) : got[j] < r[k][i]
  <2>1. CASE k = last + 1
    <3>1. r[k] = data /\ i \in 1 .. Len(data)
      BY <1>2, <2>1
    <3>2. /\ data[i] = top + i /\ i \in Nat /\ i >= 1
          /\ data[i] = data[1] + (i - 1) /\ data[i] \in 1 .. (top + Len(data))
      BY <1>3, <1>11, <3>1
    <3>3. ASSUME NEW j \in 1 .. Len(got) PROVE got[j] < data[i]
      <4>1. got[j] \in 1 .. top
        BY <1>10
      <4>2. got[j] < top + i
        BY <3>2, <4>1, <1>20
      <4> QED BY <3>2, <4>2
    <3> QED BY <3>1, <3>2, <3>3
  <2>2. CASE k \in 1 .. last
    <3>1. r[k] = ring[k] /\ i \in 1 .. Len(ring[k])
      BY <1>2, <1>12, <2>2
    <3>2. /\ ring[k][i] = ring[k][1] + (i - 1) /\ ring[k][i] \in 1 .. top
          /\ \A j \in 1 .. Len(got) : got[j] < ring[k][i]
      BY <1>10, <2>2, <3>1
    <3>3. ring[k][i] \in 1 .. (top + Len(data))
      BY <1>3, <3>2
    <3> QED BY <3>1, <3>2, <3>3
  <2> QED BY <1>2, <2>1, <2>2
<1>13. ASSUME NEW k \in 1 .. Len(r), NEW m \in 1 .. Len(r), k < m,
              NEW i \in 1 .. Len(r[k]), NEW j \in 1 .. Len(r[m])
       PROVE  r[k][i] < r[m][j]
  <2>1. k \in 1 .. last /\ r[k] = ring[k]
    <3>1. k \in Int /\ m \in Int /\ m <= last + 1
      BY <1>2
    <3>2. k # last + 1
      BY <1>2, <1>13, <3>1
    <3> QED BY <1>2, <3>2
  <2>2. CASE m = last + 1
    <3>1. r[m] = data /\ j \in 1 .. Len(data)
      BY <1>2, <2>2
    <3>2. data[j] = top + j /\ j \in Nat /\ j >= 1
      BY <1>3, <1>11, <3>1
    <3>3. ring[k][i] \in 1 .. top
      BY <1>10, <1>13, <2>1
    <3>4. ring[k][i] < top + j
      BY <3>2, <3>3, <1>20
    <3> QED BY <2>1, <3>1, <3>2, <3>4
  <2>3. CASE m \in 1 .. last
    <3>1. r[m] = ring[m]
      BY <1>2, <2>3
    <3> QED BY <1>10, <1>13, <2>1, <2>3, <3>1
  <2> QED BY <1>2, <2>2, <2>3
<1>14. \A i \in 1 .. Len(got) : got[i] \in 1 .. (top + Len(data))
  BY <1>3, <1>10
<1>15. InOrder(got, r)
  BY <1>10, <1>12, <1>13 DEF InOrder
<1>16. OfFirst(top + Len(data), got, r)
  BY <1>12, <1>14 DEF OfFirst
<1>17. Counts(more, got, r)
  BY <1>7, <1>8 DEF Counts
<1>9. Numbered(got, r, n + Len(data), top + Len(data))
  BY <1>5, <1>8, <1>15, <1>16, <1>17 DEF Numbered
<1> QED BY <1>9 DEF r

\* The first payload of the ring, taken.
LEMMA NumberedTake ==
    ASSUME NEW got \in Seq(Nat), NEW ring \in Seq(Seq(Nat)), ring # <<>>, NEW n, NEW top \in Int,
           Numbered(got, ring, n, top)
    PROVE  Numbered(got \o Head(ring), Tail(ring), n, top)
<1> DEFINE r == Tail(ring)
           data == Head(ring)
           all == got \o data
           last == Len(ring)
<1>1. last \in Nat
  OBVIOUS
<1>2. PICK count \in [0 .. last -> 0 .. MaxUnits] :
          /\ count[0] = Len(got) /\ count[last] = n
          /\ \A k \in 1 .. last : count[k] = count[k - 1] + Len(ring[k])
  BY DEF Numbered, Counts
<1>10. /\ \A i, j \in 1 .. Len(got) : i < j => got[i] < got[j]
       /\ \A i \in 1 .. Len(got) : got[i] \in 1 .. top
       /\ \A k \in 1 .. last : \A i \in 1 .. Len(ring[k]) :
             /\ ring[k][i] = ring[k][1] + (i - 1) /\ ring[k][i] \in 1 .. top
             /\ \A j \in 1 .. Len(got) : got[j] < ring[k][i]
       /\ \A k, m \in 1 .. last : k < m =>
             \A i \in 1 .. Len(ring[k]), j \in 1 .. Len(ring[m]) : ring[k][i] < ring[m][j]
  BY DEF Numbered, InOrder, OfFirst
<1>3. /\ r \in Seq(Seq(Nat)) /\ last \in Nat \ {0} /\ Len(r) = last - 1
      /\ \A k \in 1 .. Len(r) : k + 1 \in 1 .. last /\ r[k] = ring[k + 1]
      /\ data = ring[1] /\ 1 \in 1 .. last
  BY TailItems
<1>4. data \in Seq(Nat) /\ Len(data) \in Nat /\ Len(got) \in Nat
  BY <1>3
<1>5. count[1] = Len(got) + Len(data)
  <2>1. count[1 - 1] = Len(got)
    BY <1>2
  <2> QED BY <1>2, <1>3, <2>1
<1>6. /\ Len(all) = Len(got) + Len(data)
      /\ \A i \in 1 .. Len(all) :
            \/ i \in 1 .. Len(got) /\ all[i] = got[i]
            \/ i - Len(got) \in 1 .. Len(data) /\ all[i] = data[i - Len(got)]
  <2>1. /\ Len(all) = Len(got) + Len(data)
        /\ \A i \in 1 .. Len(all) : all[i] = IF i <= Len(got) THEN got[i] ELSE data[i - Len(got)]
    BY <1>4
  <2> HIDE DEF all, data
  <2>2. ASSUME NEW i \in 1 .. Len(all)
        PROVE  \/ i \in 1 .. Len(got) /\ all[i] = got[i]
               \/ i - Len(got) \in 1 .. Len(data) /\ all[i] = data[i - Len(got)]
    BY <1>4, <2>1
  <2> QED BY <2>1, <2>2
<1>0. /\ \A i \in 1 .. Len(got) : got[i] \in Nat
      /\ \A i \in 1 .. Len(data) : data[i] \in Nat
  BY <1>4
<1> HIDE DEF r, data, all, last
<1>11. ASSUME NEW i \in 1 .. Len(all), NEW j \in 1 .. Len(all), i < j PROVE all[i] < all[j]
  <2>1. i \in Nat /\ j \in Nat
    BY <1>4, <1>6
  <2>2. CASE j \in 1 .. Len(got) /\ all[j] = got[j]
    <3>1. i \in 1 .. Len(got) /\ all[i] = got[i]
      BY <1>4, <1>6, <1>11, <2>1, <2>2
    <3> QED BY <1>10, <1>11, <2>2, <3>1
  <2>3. CASE j - Len(got) \in 1 .. Len(data) /\ all[j] = data[j - Len(got)]
    <3>1. CASE i \in 1 .. Len(got) /\ all[i] = got[i]
      BY <1>3, <1>10, <2>3, <3>1
    <3>2. CASE i - Len(got) \in 1 .. Len(data) /\ all[i] = data[i - Len(got)]
      <4>1. /\ data[i - Len(got)] = data[1] + ((i - Len(got)) - 1)
            /\ data[j - Len(got)] = data[1] + ((j - Len(got)) - 1)
        BY <1>3, <1>10, <2>3, <3>2
      <4>2. data[1] \in Nat
        BY <1>0, <1>4, <3>2
      <4>3. data[i - Len(got)] < data[j - Len(got)]
        BY <1>4, <1>11, <2>1, <4>1, <4>2
      <4> QED BY <2>3, <3>2, <4>3
    <3> QED BY <1>6, <3>1, <3>2
  <2> QED BY <1>6, <2>2, <2>3
<1>12. ASSUME NEW i \in 1 .. Len(all) PROVE all[i] \in 1 .. top
  BY <1>3, <1>6, <1>10
<1>13. ASSUME NEW k \in 1 .. Len(r), NEW i \in 1 .. Len(r[k])
       PROVE  /\ r[k][i] = r[k][1] + (i - 1) /\ r[k][i] \in 1 .. top
              /\ \A j \in 1 .. Len(all) : all[j] < r[k][i]
  <2>1. /\ k \in 1 .. Len(r) /\ k + 1 \in 1 .. last /\ r[k] = ring[k + 1] /\ 1 < k + 1
        /\ i \in 1 .. Len(ring[k + 1])
    <3>1. k + 1 \in 1 .. last /\ r[k] = ring[k + 1]
      BY <1>3
    <3>2. k \in Int /\ k >= 1
      BY <1>3
    <3> QED BY <1>13, <3>1, <3>2
  <2>2. ASSUME NEW j \in 1 .. Len(all) PROVE all[j] < r[k][i]
    <3>1. CASE j \in 1 .. Len(got) /\ all[j] = got[j]
      BY <1>10, <2>1, <3>1
    <3>2. CASE j - Len(got) \in 1 .. Len(data) /\ all[j] = data[j - Len(got)]
      BY <1>3, <1>10, <2>1, <3>2
    <3> QED BY <1>6, <3>1, <3>2
  <2> QED BY <1>10, <2>1, <2>2
<1>14. ASSUME NEW k \in 1 .. Len(r), NEW m \in 1 .. Len(r), k < m,
              NEW i \in 1 .. Len(r[k]), NEW j \in 1 .. Len(r[m])
       PROVE  r[k][i] < r[m][j]
  <2>1. /\ k + 1 \in 1 .. last /\ r[k] = ring[k + 1]
        /\ m + 1 \in 1 .. last /\ r[m] = ring[m + 1]
    BY <1>3
  <2>2. k + 1 < m + 1
    <3>1. k \in Int /\ m \in Int
      BY <1>3
    <3> QED BY <1>14, <3>1
  <2>3. i \in 1 .. Len(ring[k + 1]) /\ j \in 1 .. Len(ring[m + 1])
    BY <1>14, <2>1
  <2>4. ring[k + 1][i] < ring[m + 1][j]
    BY <1>10, <2>1, <2>2, <2>3
  <2> QED BY <2>1, <2>4
<1> DEFINE rest == [k \in 0 .. (last - 1) |-> count[k + 1]]
<1>7. rest \in [0 .. Len(r) -> 0 .. MaxUnits] /\ \A k \in 0 .. (last - 1) : rest[k] = count[k + 1]
  <2>1. \A k \in 0 .. (last - 1) : k + 1 \in 0 .. last
    BY <1>3
  <2> QED BY <1>2, <1>3, <2>1
<1> HIDE DEF rest
<1>8. rest[0] = Len(all) /\ rest[Len(r)] = n
  <2>1. 0 \in 0 .. (last - 1) /\ last - 1 \in 0 .. (last - 1) /\ (last - 1) + 1 = last /\ 0 + 1 = 1
    BY <1>3
  <2> QED BY <1>2, <1>3, <1>5, <1>6, <1>7, <2>1
<1>9. ASSUME NEW k \in 1 .. Len(r) PROVE rest[k] = rest[k - 1] + Len(r[k])
  <2>1. /\ k \in 0 .. (last - 1) /\ k - 1 \in 0 .. (last - 1) /\ (k - 1) + 1 = k
        /\ (k + 1) - 1 = k /\ k + 1 \in 1 .. last /\ r[k] = ring[k + 1]
    BY <1>3
  <2>2. rest[k] = count[k + 1] /\ rest[k - 1] = count[k]
    BY <1>7, <2>1
  <2> QED BY <1>2, <2>1, <2>2
<1>15. InOrder(all, r)
  BY <1>11, <1>13, <1>14 DEF InOrder
<1>16. OfFirst(top, all, r)
  BY <1>12, <1>13 DEF OfFirst
<1>17. Counts(rest, all, r)
  BY <1>8, <1>9 DEF Counts
<1>18. Numbered(all, r, n, top)
  BY <1>7, <1>8, <1>15, <1>16, <1>17 DEF Numbered
<1> QED BY <1>18 DEF r, all, data

\* The types that the steps below use.
LEMMA OrderFacts ==
    ASSUME BaseInv
    PROVE  /\ rcvbuf \in [Streams -> Seq(Seq(Nat))] /\ taken \in [Streams -> Seq(Nat)]
           /\ rcv_nxt \in [Streams -> Nat] /\ skipped \in [Streams -> Nat]
           /\ status \in [Streams -> Statuses]
           /\ pseg \in Segments /\ pseg.data \in Seq(Nat) /\ Len(pseg.data) \in Nat
           /\ \A s \in Streams : Queued(s) \in Nat /\ Arrived(s) \in Int
           /\ BufLen \in Nat /\ BufLen # 0 /\ MaxUnits \in Nat
<1>1. /\ rcvbuf \in [Streams -> Seq(Seq(Nat))] /\ taken \in [Streams -> Seq(Nat)]
      /\ rcv_nxt \in [Streams -> Nat] /\ skipped \in [Streams -> Nat]
      /\ status \in [Streams -> Statuses]
      /\ pseg \in Segments
  BY RingFacts DEF BaseInv, UpInv, IInv, TypeOK, BuffersOK
<1>2. pseg.data \in Seq(Nat) /\ Len(pseg.data) \in Nat
  BY <1>1 DEF Segments
<1>3. ASSUME NEW s \in Streams PROVE Queued(s) \in Nat /\ Arrived(s) \in Int
  <2>1. Queued(s) \in Nat
    BY <1>2 DEF Queued
  <2>2. rcv_nxt[s] \in Nat
    BY <1>1
  <2> QED BY <2>1, <2>2 DEF Arrived
<1> QED BY <1>1, <1>2, <1>3, UstackAssumption

\* A step that neither fills nor empties a ring.
LEMMA SameOrder ==
    ASSUME BaseInv, OrderInv, UNCHANGED <<rcvbuf, taken>>, apc' # "recv-requeue",
           skipped' \in [Streams -> Nat],
           \A s \in Streams \ {Listener} : Alive(s)' =>
              Alive(s) /\ Arrived(s)' = Arrived(s) /\ skipped[s] <= skipped'[s]
    PROVE  OrderInv'
<1>1. ASSUME NEW s \in Streams \ {Listener}, Alive(s)'
      PROVE  Numbered(taken[s], rcvbuf[s], Arrived(s), Arrived(s) + skipped[s])'
  <2>1. /\ taken[s] \in Seq(Nat) /\ rcvbuf[s] \in Seq(Seq(Nat)) /\ Arrived(s) \in Int
        /\ skipped[s] \in Nat /\ skipped'[s] \in Nat /\ skipped[s] <= skipped'[s]
    BY <1>1, OrderFacts
  <2>2. Numbered(taken[s], rcvbuf[s], Arrived(s), Arrived(s) + skipped[s])
    BY <1>1 DEF OrderInv
  <2>3. /\ Arrived(s) + skipped[s] \in Int /\ Arrived(s) + skipped'[s] \in Int
        /\ Arrived(s) + skipped[s] <= Arrived(s) + skipped'[s]
    BY <2>1
  <2>4. Numbered(taken[s], rcvbuf[s], Arrived(s), Arrived(s) + skipped'[s])
    BY <2>1, <2>2, <2>3, NumberedMore
  <2>5. Numbered(taken'[s], rcvbuf'[s], Arrived(s)', Arrived(s)' + skipped'[s])
    BY <1>1, <2>4
  <2> QED BY <2>5 DEF Numbered
<1> QED BY <1>1 DEF OrderInv

\* Where the application does not take a payload.
LEMMA AppOrder ==
    ASSUME BaseInv, OrderInv,
           \/ \E f \in Fds \cup {ListenFd} : AppEvent(f)
           \/ AppFindNext \/ AppFound \/ AppNotFound
           \/ AcceptLock \/ AcceptScan \/ AcceptAssign
           \/ RecvLock \/ RecvEmpty \/ RecvWait \/ RecvRequeue \/ RecvDone
           \/ SendBuild \/ SendEnqueue \/ CloseBuild \/ CloseFin \/ CloseStatus
           \/ CloseFd \/ PktOut \/ UNCHANGED vars
           \/ \E c \in Clients : Client(c) \/ WireLose(c) \/ WireDuplicate(c)
    PROVE  OrderInv'
<1> USE DEF tableVars, seqVars, bufVars, callVars, cursorVars, hostVars, localVars, appVars,
        pktVars, clientVars, wireVars, envVars, stackVars
<1>1. apc # "recv-requeue"
  BY DEF OrderInv
<1>2. /\ UNCHANGED <<rcvbuf, taken, rcv_nxt, skipped, ppc, pstream, pseg>>
      /\ apc' # "recv-requeue"
      /\ \/ status' = status
         \/ CloseStatus
  <2>1. acall \in {"accept", "recv", "send", "close"}
    BY DEF BaseInv, UpInv, IInv, TypeOK, AppOK
  <2>2. CASE PktOut \/ UNCHANGED vars \/ \E c \in Clients : WireLose(c) \/ WireDuplicate(c)
    BY <1>1, <2>2 DEF PktOut, vars, WireLose, WireDuplicate
  <2>3. ASSUME NEW c \in Clients, Client(c) PROVE UNCHANGED stackVars
    BY <2>3 DEF Client, ClientConnect, ClientSend, ClientClose, ClientRecv
  <2> QED BY <1>1, <2>1, <2>2, <2>3 DEF AppEvent, Call, AppFindNext, Advance, AppFound,
         AppNotFound, AcceptLock, AcceptScan, AcceptAssign, RecvLock, RecvEmpty, RecvWait,
         RecvRequeue, RecvDone, SendBuild, SendEnqueue, CloseBuild, CloseFin, CloseStatus, CloseFd
<1>3. CASE status' = status
  <2>1. \A s \in Streams : (Alive(s)' <=> Alive(s)) /\ Arrived(s)' = Arrived(s)
    BY <1>2, <1>3 DEF Alive, Arrived, Queued, FinCounted
  <2>2. skipped' \in [Streams -> Nat] /\ \A s \in Streams : skipped[s] <= skipped'[s]
    BY <1>2, OrderFacts
  <2> QED BY <1>2, <2>1, <2>2, SameOrder
<1>4. CASE CloseStatus
  <2>1. /\ status' = [status EXCEPT ![ahost] = "LAST_ACK"] /\ status[ahost] = "CLOSE_WAIT"
        /\ ahost \in Streams
    BY <1>4, RingFacts DEF CloseStatus, BaseInv, UpInv, HoldInv, Transfer
  <2>2. ASSUME NEW s \in Streams
        PROVE  /\ (status'[s] \in Closing <=> status[s] \in Closing) /\ (Alive(s)' <=> Alive(s))
               /\ (status'[s] = "LISTEN" <=> status[s] = "LISTEN")
    BY <2>1, OrderFacts DEF Closing, Alive
  <2>3. \A s \in Streams : Arrived(s)' = Arrived(s)
    BY <1>2, <2>2 DEF Arrived, Queued, FinCounted
  <2>4. skipped' \in [Streams -> Nat] /\ \A s \in Streams : skipped[s] <= skipped'[s]
    BY <1>2, OrderFacts
  <2> QED BY <1>2, <2>2, <2>3, <2>4, SameOrder
<1> QED BY <1>2, <1>3, <1>4

\* nrecv takes the first payload of the ring, which fits its buffer.
LEMMA TakeOrdered ==
    ASSUME BaseInv, OrderInv, RecvTake
    PROVE  OrderInv'
<1> USE DEF tableVars, seqVars, bufVars, callVars, cursorVars, hostVars, localVars, appVars,
        pktVars, clientVars, wireVars, envVars, stackVars
<1>1. PICK s \in Streams \ {Listener} : s = ahost
  BY RingFacts DEF RecvTake, BaseInv, UpInv, Transfer
<1> DEFINE ring == rcvbuf[s]
           data == Head(ring)
<1>2. /\ ring # <<>> /\ rcvbuf' = [rcvbuf EXCEPT ![s] = Tail(ring)]
      /\ taken' = [taken EXCEPT ![s] = @ \o Returned(data)]
      /\ apc' = IF Len(data) > BufLen THEN "recv-requeue" ELSE "recv-done"
      /\ UNCHANGED <<status, rcv_nxt, skipped, ppc, pstream, pseg>>
  BY <1>1 DEF RecvTake
<1>3. ring \in Seq(Seq(Nat)) /\ taken[s] \in Seq(Nat)
  BY OrderFacts
<1> HIDE DEF ring
<1>4. /\ Tail(ring) \in Seq(Seq(Nat)) /\ data = ring[1] /\ 1 \in 1 .. Len(ring)
      /\ \A k \in 1 .. Len(Tail(ring)) : k + 1 \in 1 .. Len(ring) /\ Tail(ring)[k] = ring[k + 1]
  BY <1>2, <1>3, TailItems
<1>5. \A k \in 1 .. Len(ring) : Len(ring[k]) <= BufLen
  BY DEF OrderInv, ring
<1>6. ~(Len(data) > BufLen)
  <2>1. Len(ring[1]) \in Nat
    BY <1>3, <1>4
  <2> QED BY <1>4, <1>5, <2>1, OrderFacts
<1>7. apc' # "recv-requeue" /\ Returned(data) = data
  BY <1>2, <1>6 DEF Returned
<1>8. /\ rcvbuf'[s] = Tail(ring) /\ taken'[s] = taken[s] \o data
      /\ \A t \in Streams \ {s} : rcvbuf'[t] = rcvbuf[t] /\ taken'[t] = taken[t]
  BY <1>2, <1>7, OrderFacts
<1>9. \A t \in Streams : (Alive(t)' <=> Alive(t)) /\ Arrived(t)' = Arrived(t)
  BY <1>2 DEF Alive, Arrived, Queued, FinCounted
<1>10. ASSUME Alive(s) PROVE Numbered(taken'[s], rcvbuf'[s], Arrived(s), Arrived(s) + skipped[s])
  <2>1. /\ Numbered(taken[s], ring, Arrived(s), Arrived(s) + skipped[s])
        /\ Arrived(s) \in Int /\ skipped[s] \in Nat
    BY <1>10, OrderFacts DEF OrderInv, ring
  <2>2. Arrived(s) + skipped[s] \in Int
    BY <2>1
  <2>3. Numbered(taken[s] \o Head(ring), Tail(ring), Arrived(s), Arrived(s) + skipped[s])
    BY <1>2, <1>3, <2>1, <2>2, NumberedTake
  <2> QED BY <1>8, <2>3
<1>11. ASSUME NEW t \in Streams \ {Listener}, Alive(t)'
       PROVE  Numbered(taken[t], rcvbuf[t], Arrived(t), Arrived(t) + skipped[t])'
  <2>1. Numbered(taken'[t], rcvbuf'[t], Arrived(t)', Arrived(t)' + skipped'[t])
    <3>1. CASE t = s
      BY <1>2, <1>9, <1>10, <1>11, <3>1
    <3>2. CASE t # s
      BY <1>2, <1>8, <1>9, <1>11, <3>2 DEF OrderInv
    <3> QED BY <3>1, <3>2
  <2> QED BY <2>1 DEF Numbered
<1>12. ASSUME NEW t \in Streams, NEW k \in 1 .. Len(rcvbuf'[t]) PROVE Len(rcvbuf'[t][k]) <= BufLen
  <2>1. CASE t = s
    BY <1>4, <1>5, <1>8, <1>12, <2>1
  <2>2. CASE t # s
    BY <1>8, <1>12, <2>2 DEF OrderInv
  <2> QED BY <2>1, <2>2
<1> QED BY <1>7, <1>11, <1>12 DEF OrderInv

\* What the packet lcore does beside the rings.
LEMMA PacketOrder ==
    ASSUME BaseInv, OrderInv,
           \/ PktAccept \/ PktFin \/ PktSignal \/ PktCount \/ PktAck \/ PktSynAck
           \/ \E c \in Clients, s \in Streams \cup {NULL} :
                 PktIgnore(c, s) \/ PktSynRcvd(c, s) \/ PktEstablished(c, s) \/ PktLastAck(c, s)
    PROVE  OrderInv'
<1> USE DEF tableVars, seqVars, bufVars, callVars, cursorVars, hostVars, localVars, appVars,
        pktVars, clientVars, wireVars, envVars, stackVars
<1>1. UNCHANGED <<rcvbuf, taken>> /\ apc' # "recv-requeue"
  <2>1. apc # "recv-requeue"
    BY DEF OrderInv
  <2> QED BY <2>1 DEF PktAccept, PktFin, PktSignal, PktCount, PktAck, PktSynAck, PktIgnore,
         PktSynRcvd, PktEstablished, PktLastAck, Process, Signal, Woken
<1>8. skipped' \in [Streams -> Nat] /\ \A t \in Streams : skipped[t] <= skipped'[t]
  <2>1. skipped \in [Streams -> Nat]
    BY OrderFacts
  <2>2. CASE skipped' = skipped
    BY <2>1, <2>2
  <2>3. ASSUME NEW c \in Clients, NEW x \in Streams \cup {NULL}, PktIgnore(c, x)
        PROVE  skipped' \in [Streams -> Nat] /\ \A t \in Streams : skipped[t] <= skipped'[t]
    <3>1. pseg' \in Segments
      BY <2>3, ProcessType DEF PktIgnore, BaseInv, UpInv, IInv, TypeOK
    <3>2. Len(pseg'.data) \in Nat
      BY <3>1 DEF Segments
    <3>3. \/ skipped' = skipped
          \/ x \in Streams /\ skipped' = [skipped EXCEPT ![x] = @ + Len(pseg'.data)]
      BY <2>3 DEF PktIgnore
    <3> HIDE DEF tableVars, seqVars, bufVars, pktVars, envVars
    <3> QED BY <2>1, <3>2, <3>3
  <2> QED BY <2>2, <2>3 DEF PktAccept, PktFin, PktSignal, PktCount, PktAck, PktSynAck,
         PktSynRcvd, PktEstablished, PktLastAck
<1> SUFFICES ASSUME NEW s \in Streams \ {Listener}, Alive(s)'
             PROVE  Alive(s) /\ Arrived(s)' = Arrived(s)
  BY <1>1, <1>8, SameOrder
<1>2. /\ status \in [Streams -> Statuses] /\ rcv_nxt \in [Streams -> Nat]
      /\ Len(pseg.data) \in Nat
  BY OrderFacts
<1>3. CASE PktAccept \/ PktSignal \/ PktAck
  <2>1. /\ UNCHANGED <<status, rcv_nxt, pstream, pseg>>
        /\ \/ ppc' = ppc
           \/ ppc = "signal" /\ ppc' = "count"
           \/ ppc = "fin-signal" /\ ppc' = "fin-count"
           \/ ppc \in {"accept", "ack", "fin-ack"} /\ ppc' \in {"idle", "fin"}
    BY <1>3 DEF PktAccept, PktSignal, PktAck
  <2> QED BY <2>1 DEF Alive, Arrived, Queued, FinCounted
<1>4. CASE PktFin
  <2>1. /\ UNCHANGED <<rcv_nxt, pstream, pseg>> /\ ppc = "fin" /\ ppc' = "fin-enqueue"
        /\ status' = [status EXCEPT ![pstream] = "CLOSE_WAIT"]
        /\ status[pstream] = "ESTABLISHED"
    BY <1>4 DEF PktFin, BaseInv, UpInv, HandlerInv, DataPath
  <2> QED BY <1>2, <2>1 DEF Alive, Arrived, Queued, FinCounted, Closing
<1>5. CASE PktCount
  <2>1. /\ UNCHANGED <<status, pstream, pseg>> /\ ppc \in {"count", "fin-count"}
        /\ rcv_nxt' = [rcv_nxt EXCEPT ![pstream] =
                          @ + IF ppc = "count" THEN Len(pseg.data) ELSE 1]
        /\ ppc' = IF ppc = "count" THEN "ack" ELSE "fin-ack"
        /\ ppc = "count" => status[pstream] = "ESTABLISHED"
        /\ ppc = "fin-count" => status[pstream] \in Closing
    BY <1>5 DEF PktCount, BaseInv, UpInv, HandlerInv, DataPath, FreshInv
  <2>2. CASE s # pstream
    BY <1>2, <2>1, <2>2 DEF Alive, Arrived, Queued, FinCounted
  <2>3. CASE s = pstream /\ ppc = "count"
    <3>1. status'[s] = "ESTABLISHED" /\ status[s] = "ESTABLISHED" /\ ppc' = "ack"
      BY <2>1, <2>3
    <3>2. rcv_nxt'[s] = rcv_nxt[s] + Len(pseg.data) /\ rcv_nxt[s] \in Nat
      BY <1>2, <2>1, <2>3
    <3>3. Queued(s) = Len(pseg.data) /\ Queued(s)' = 0 /\ ~FinCounted(s) /\ ~FinCounted(s)'
      BY <2>1, <2>3, <3>1 DEF Queued, FinCounted, Closing
    <3>4. Alive(s)
      BY <3>1 DEF Alive
    <3> QED BY <1>2, <3>1, <3>2, <3>3, <3>4 DEF Arrived
  <2>4. CASE s = pstream /\ ppc = "fin-count"
    BY <1>2, <2>1, <2>4 DEF Alive, Arrived, Queued, FinCounted, Closing
  <2> QED BY <2>1, <2>2, <2>3, <2>4
<1>6. CASE PktSynAck
  <2>1. /\ UNCHANGED <<pstream, pseg>> /\ ppc = "synack" /\ ppc' = "idle"
        /\ status' = [status EXCEPT ![pstream] = "SYN_RCVD"] /\ status[pstream] = "LISTEN"
        /\ rcv_nxt' = [rcv_nxt EXCEPT ![pstream] = pseg.seq + 1] /\ pseg.seq = 0
    BY <1>6 DEF PktSynAck, BaseInv, UpInv, HandlerInv, KindInv, IsSyn
  <2>2. CASE s # pstream
    BY <1>2, <2>1, <2>2 DEF Alive, Arrived, Queued, FinCounted
  <2>3. CASE s = pstream
    <3>1. rcv_nxt'[s] = 1 /\ status'[s] = "SYN_RCVD" /\ status[s] = "LISTEN"
      BY <1>2, <2>1, <2>3
    <3> QED BY <2>1, <3>1 DEF Alive, Arrived, Queued, FinCounted, Closing
  <2> QED BY <2>2, <2>3
<1>7. ASSUME NEW c \in Clients, NEW x \in Streams \cup {NULL},
             PktIgnore(c, x) \/ PktSynRcvd(c, x) \/ PktEstablished(c, x) \/ PktLastAck(c, x)
      PROVE  Alive(s) /\ Arrived(s)' = Arrived(s)
  <2>1. /\ rcv_nxt' = rcv_nxt /\ ppc = "idle"
        /\ ppc' \in {"idle", "accept", "enqueue", "fin", "free"}
        /\ \/ status' = status
           \/ status[x] = "SYN_RCVD" /\ status' = [status EXCEPT ![x] = "ESTABLISHED"]
           \/ status' = [status EXCEPT ![x] = "CLOSED"]
    BY <1>7 DEF PktIgnore, PktSynRcvd, PktEstablished, PktLastAck, Process
  <2>2. Queued(s) = 0 /\ Queued(s)' = 0
    BY <2>1 DEF Queued
  <2>3. /\ FinCounted(s) <=> status[s] \in Closing
        /\ FinCounted(s)' <=> status'[s] \in Closing
    BY <2>1 DEF FinCounted
  <2>4. /\ Alive(s) /\ (status'[s] \in Closing <=> status[s] \in Closing)
        /\ status'[s] = "LISTEN" <=> status[s] = "LISTEN"
    BY <1>2, <2>1 DEF Alive, Closing
  <2> QED BY <2>1, <2>2, <2>3, <2>4 DEF Arrived
<1> QED BY <1>3, <1>4, <1>5, <1>6, <1>7

\* A payload, or the empty one of a FIN, is put in the ring.
LEMMA EnqueueOrder ==
    ASSUME BaseInv, TalkInv, OrderInv, MaxSeg <= BufLen, PktEnqueue
    PROVE  OrderInv'
<1> USE DEF tableVars, seqVars, bufVars, callVars, cursorVars, hostVars, localVars, appVars,
        pktVars, clientVars, wireVars, envVars, stackVars
<1>1. PICK s \in Streams \ {Listener} : s = pstream
  BY RingFacts DEF PktEnqueue, BaseInv, UpInv
<1> DEFINE data == IF ppc = "enqueue" THEN pseg.data ELSE <<>>
<1>2. /\ rcvbuf' = [rcvbuf EXCEPT ![s] = Append(@, data)] /\ ppc \in {"enqueue", "fin-enqueue"}
      /\ ppc' = IF ppc = "enqueue" THEN "signal" ELSE "fin-signal"
      /\ UNCHANGED <<status, rcv_nxt, skipped, taken, pstream, pseg, apc>>
  BY <1>1 DEF PktEnqueue
<1>3. /\ rcvbuf[s] \in Seq(Seq(Nat)) /\ taken[s] \in Seq(Nat)
      /\ Arrived(s) \in Int /\ skipped[s] \in Nat
  BY OrderFacts
<1>10. /\ Alive(s) /\ Arrived(s) \in 0 .. MaxUnits
       /\ Numbered(taken[s], rcvbuf[s], Arrived(s), Arrived(s) + skipped[s])
  <2>1. Alive(s)
    BY <1>1, <1>2 DEF BaseInv, UpInv, HandlerInv, DataPath, FreshInv, Closing, Alive
  <2>2. Numbered(taken[s], rcvbuf[s], Arrived(s), Arrived(s) + skipped[s])
    BY <2>1 DEF OrderInv
  <2>3. Len(rcvbuf[s]) \in 0 .. Len(rcvbuf[s])
    BY <1>3
  <2>4. PICK count \in [0 .. Len(rcvbuf[s]) -> 0 .. MaxUnits] :
          count[Len(rcvbuf[s])] = Arrived(s)
    BY <2>2 DEF Numbered
  <2>5. count[Len(rcvbuf[s])] \in 0 .. MaxUnits
    BY <2>3
  <2> QED BY <2>1, <2>2, <2>4, <2>5
<1>4. /\ data \in Seq(Nat) /\ Len(data) \in Nat /\ Len(data) <= BufLen
      /\ Arrived(s) + Len(data) <= MaxUnits /\ Arrived(s)' = Arrived(s) + Len(data)
      /\ \A i \in 1 .. Len(data) : data[i] = (Arrived(s) + skipped[s]) + i
  <2>1. CASE ppc = "enqueue"
    <3>1. /\ status[s] = "ESTABLISHED" /\ IsData(pseg)
          /\ pseg.seq = rcv_nxt[s] + skipped[s] /\ After(pseg) <= MaxUnits + 1
      BY <1>1, <2>1 DEF BaseInv, UpInv, HandlerInv, DataPath, KindInv, AtData, TalkInv, PacketInv
    <3>2. /\ rcv_nxt[s] \in Nat /\ skipped[s] \in Nat /\ Len(pseg.data) \in Nat
          /\ MaxUnits \in Nat /\ BufLen \in Nat
      BY OrderFacts
    <3>3. Len(pseg.data) <= BufLen
      BY <3>1, <3>2, UstackAssumption DEF IsData
    <3>4. Queued(s) = 0 /\ ~FinCounted(s) /\ Queued(s)' = Len(pseg.data) /\ ~FinCounted(s)'
      BY <1>1, <1>2, <2>1, <3>1 DEF Queued, FinCounted, Closing
    <3>5. /\ Arrived(s) = rcv_nxt[s] - 1
          /\ Arrived(s)' = (rcv_nxt[s] - 1) + Len(pseg.data)
      BY <1>2, <3>1, <3>2, <3>4 DEF Arrived
    <3>6. "FIN" \notin pseg.flags
      BY <3>1 DEF IsData
    <3>7. (rcv_nxt[s] + skipped[s]) + Len(pseg.data) <= MaxUnits + 1
      BY <3>1, <3>2, <3>6 DEF After
    <3>8. ASSUME NEW i \in 1 .. Len(pseg.data)
          PROVE  pseg.data[i] = (Arrived(s) + skipped[s]) + i
      <4>1. pseg.data[i] = (pseg.seq - 1) + i /\ i \in Int
        BY <3>1, <3>2 DEF IsData
      <4> QED BY <3>1, <3>2, <3>5, <4>1
    <3>9. data = pseg.data
      BY <2>1
    <3> HIDE DEF data
    <3>10. data \in Seq(Nat)
      BY <3>9, OrderFacts
    <3>11. Arrived(s) + Len(pseg.data) <= MaxUnits
      BY <3>2, <3>5, <3>7
    <3>12. Arrived(s)' = Arrived(s) + Len(pseg.data)
      BY <3>2, <3>5
    <3> QED BY <3>2, <3>3, <3>8, <3>9, <3>10, <3>11, <3>12
  <2>2. CASE ppc = "fin-enqueue"
    <3>1. status[s] # "LISTEN"
      BY <1>1, <2>2 DEF BaseInv, FreshInv, Closing
    <3>2. /\ Queued(s) = 0 /\ Queued(s)' = 0
          /\ ~FinCounted(s) /\ ~FinCounted(s)'
      BY <1>1, <1>2, <2>2 DEF Queued, FinCounted
    <3>3. Arrived(s)' = Arrived(s)
      BY <1>2, <3>2 DEF Arrived
    <3>4. data = <<>> /\ Len(<<>>) = 0 /\ 1 .. 0 = {}
      BY <2>2
    <3> HIDE DEF data
    <3> QED BY <1>3, <1>10, <3>3, <3>4, OrderFacts
  <2> QED BY <1>2, <2>1, <2>2
<1>5. ASSUME NEW t \in Streams \ {s} PROVE Arrived(t)' = Arrived(t)
  BY <1>1, <1>2 DEF Arrived, Queued, FinCounted
<1> HIDE DEF data
<1>6. /\ rcvbuf'[s] = Append(rcvbuf[s], data)
      /\ \A t \in Streams \ {s} : rcvbuf'[t] = rcvbuf[t]
      /\ \A t \in Streams : Alive(t)' <=> Alive(t)
  BY <1>2, OrderFacts DEF Alive
<1>7. Numbered(taken'[s], rcvbuf'[s], Arrived(s)', Arrived(s)' + skipped'[s])
  <2>1. Arrived(s) + skipped[s] \in Nat
    BY <1>3, <1>10, OrderFacts
  <2>2. Numbered(taken[s], Append(rcvbuf[s], data), Arrived(s) + Len(data),
                 (Arrived(s) + skipped[s]) + Len(data))
    BY <1>3, <1>4, <1>10, <2>1, NumberedPut
  <2>3. (Arrived(s) + skipped[s]) + Len(data) = Arrived(s)' + skipped'[s]
    BY <1>2, <1>3, <1>4
  <2> QED BY <1>2, <1>4, <1>6, <2>2, <2>3
<1>8. ASSUME NEW t \in Streams \ {Listener}, Alive(t)'
      PROVE  Numbered(taken[t], rcvbuf[t], Arrived(t), Arrived(t) + skipped[t])'
  <2>1. Numbered(taken'[t], rcvbuf'[t], Arrived(t)', Arrived(t)' + skipped'[t])
    <3>1. CASE t = s
      BY <1>7, <3>1
    <3>2. CASE t # s
      BY <1>2, <1>5, <1>6, <1>8, <3>2 DEF OrderInv
    <3> QED BY <3>1, <3>2
  <2> QED BY <2>1 DEF Numbered
<1>9. ASSUME NEW t \in Streams, NEW k \in 1 .. Len(rcvbuf'[t]) PROVE Len(rcvbuf'[t][k]) <= BufLen
  <2>1. CASE t = s
    <3>1. /\ \A i \in 1 .. Len(rcvbuf[s]) : Append(rcvbuf[s], data)[i] = rcvbuf[s][i]
          /\ Append(rcvbuf[s], data)[Len(rcvbuf[s]) + 1] = data
          /\ \A i \in 1 .. Len(Append(rcvbuf[s], data)) :
                i \in 1 .. Len(rcvbuf[s]) \/ i = Len(rcvbuf[s]) + 1
      BY <1>3, <1>4, AppendItems
    <3> QED BY <1>4, <1>6, <1>9, <2>1, <3>1 DEF OrderInv
  <2>2. CASE t # s
    BY <1>6, <1>9, <2>2 DEF OrderInv
  <2> QED BY <2>1, <2>2
<1> QED BY <1>2, <1>8, <1>9 DEF OrderInv

\* A stream is made with empty rings, and its rings are cleared when it is freed.
LEMMA MakeOrder ==
    ASSUME BaseInv, OrderInv, PktFree \/ \E c \in Clients, x \in Streams \cup {NULL} : PktListen(c, x)
    PROVE  OrderInv'
<1> USE DEF tableVars, seqVars, bufVars, callVars, cursorVars, hostVars, localVars, appVars,
        pktVars, clientVars, wireVars, envVars, stackVars
<1>1. CASE PktFree
  <2>1. PICK s \in Streams \ {Listener} : s = pstream
    BY <1>1, RingFacts DEF PktFree, BaseInv, UpInv
  <2>2. /\ UNCHANGED <<rcv_nxt, skipped, taken, pstream, pseg, apc>>
        /\ ppc = "free" /\ ppc' = "idle"
        /\ status' = [status EXCEPT ![s] = "FREE"] /\ rcvbuf' = [rcvbuf EXCEPT ![s] = <<>>]
    BY <1>1, <2>1 DEF PktFree
  <2>3. /\ status'[s] = "FREE" /\ rcvbuf'[s] = <<>>
        /\ \A t \in Streams \ {s} : status'[t] = status[t] /\ rcvbuf'[t] = rcvbuf[t]
    BY <2>2, OrderFacts
  <2>4. ASSUME NEW t \in Streams \ {Listener}, Alive(t)'
        PROVE  Numbered(taken[t], rcvbuf[t], Arrived(t), Arrived(t) + skipped[t])'
    <3>1. t # s /\ Alive(t)
      BY <2>3, <2>4 DEF Alive
    <3>2. Arrived(t)' = Arrived(t)
      BY <2>2, <2>3, <3>1 DEF Arrived, Queued, FinCounted
    <3>3. Numbered(taken'[t], rcvbuf'[t], Arrived(t)', Arrived(t)' + skipped'[t])
      BY <2>2, <2>3, <3>1, <3>2 DEF OrderInv
    <3> QED BY <3>3 DEF Numbered
  <2>5. ASSUME NEW t \in Streams, NEW k \in 1 .. Len(rcvbuf'[t]) PROVE Len(rcvbuf'[t][k]) <= BufLen
    <3>1. t # s
      BY <2>3, <2>5
    <3> QED BY <2>3, <2>5, <3>1 DEF OrderInv
  <2> QED BY <2>2, <2>4, <2>5 DEF OrderInv
<1>2. ASSUME NEW c \in Clients, NEW x \in Streams \cup {NULL}, PktListen(c, x) PROVE OrderInv'
  <2>1. PICK s \in Streams : /\ status[s] = "FREE" /\ status' = [status EXCEPT ![s] = "LISTEN"]
                            /\ taken' = [taken EXCEPT ![s] = <<>>]
                            /\ skipped' = [skipped EXCEPT ![s] = 0]
    BY <1>2 DEF PktListen
  <2>2. /\ UNCHANGED <<rcv_nxt, rcvbuf, apc>> /\ ppc = "idle" /\ ppc' = "synack"
    BY <1>2 DEF PktListen, Process
  <2>3. /\ status'[s] = "LISTEN" /\ taken'[s] = <<>> /\ skipped'[s] = 0
        /\ \A t \in Streams \ {s} : /\ status'[t] = status[t] /\ taken'[t] = taken[t]
                                     /\ skipped'[t] = skipped[t]
    BY <2>1, OrderFacts
  <2>4. ASSUME NEW t \in Streams \ {Listener}, Alive(t)'
        PROVE  Numbered(taken[t], rcvbuf[t], Arrived(t), Arrived(t) + skipped[t])'
    <3>1. CASE t = s
      <4>1. /\ rcvbuf'[t] = <<>> /\ taken'[t] = <<>> /\ Arrived(t)' = 0
            /\ Arrived(t)' + skipped'[t] = 0
        BY <2>1, <2>2, <2>3, <3>1 DEF BaseInv, FreshInv, Arrived
      <4>2. Numbered(taken'[t], rcvbuf'[t], Arrived(t)', Arrived(t)' + skipped'[t])
        BY <4>1, NumberedNone
      <4> QED BY <4>2 DEF Numbered
    <3>2. CASE t # s
      <4>1. Alive(t) /\ Arrived(t)' = Arrived(t)
        BY <2>2, <2>3, <2>4, <3>2 DEF Alive, Arrived, Queued, FinCounted
      <4>2. Numbered(taken'[t], rcvbuf'[t], Arrived(t)', Arrived(t)' + skipped'[t])
        BY <2>2, <2>3, <3>2, <4>1 DEF OrderInv
      <4> QED BY <4>2 DEF Numbered
    <3> QED BY <3>1, <3>2
  <2> QED BY <2>2, <2>4 DEF OrderInv
<1> QED BY <1>1, <1>2

\* Every step keeps the numbering.
LEMMA StepOrderInv ==
    ASSUME BaseInv, TalkInv, OrderInv, MaxSeg <= BufLen, [Next]_vars
    PROVE  OrderInv'
<1>1. CASE PktContinue
  BY <1>1, EnqueueOrder, MakeOrder, PacketOrder DEF PktContinue
<1>2. ASSUME NEW c \in Clients, PktRecv(c) PROVE OrderInv'
  BY <1>2, MakeOrder, PacketOrder DEF PktRecv
<1> QED BY <1>1, <1>2, AppOrder, TakeOrdered DEF Next, App

\* What is under way and what has come, until a lookup goes astray.
LEMMA OrderInvariant ==
    ASSUME MaxSeg <= BufLen
    PROVE  Spec => [](~stray => BaseInv /\ (faults = 0 => OrderInv))
<1> DEFINE Inv == ~stray => BaseInv /\ (faults = 0 => TalkInv /\ OrderInv)
<1>1. Init => Inv
  <2> SUFFICES ASSUME Init PROVE OrderInv
    BY InitTalk
  <2>1. \A s \in Streams \ {Listener} : ~Alive(s)
    BY DEF Init, Alive
  <2>2. apc # "recv-requeue" /\ \A s \in Streams : rcvbuf[s] = <<>>
    BY DEF Init
  <2> QED BY <2>1, <2>2 DEF OrderInv
<1>2. Inv /\ [Next]_vars => Inv'
  <2> SUFFICES ASSUME Inv, [Next]_vars, ~stray'
               PROVE  BaseInv' /\ (faults' = 0 => TalkInv' /\ OrderInv')
    OBVIOUS
  <2>1. BaseInv /\ (faults = 0 => TalkInv /\ OrderInv)
    BY StrayStays
  <2>2. IInv
    BY <2>1 DEF BaseInv, UpInv
  <2>3. BaseInv'
    BY <2>1, StepBaseInv
  <2>4. ASSUME faults' = 0 PROVE TalkInv' /\ OrderInv'
    BY <2>1, <2>2, <2>4, NoFaults, StepTalkInv, StepOrderInv
  <2> QED BY <2>3, <2>4
<1>3. Inv => (~stray => BaseInv /\ (faults = 0 => OrderInv))
  OBVIOUS
<1> QED BY <1>1, <1>2, <1>3, PTL DEF Spec

\* What nrecv returns and what waits in a ring is in the order of sending, nothing of it
\* twice; rcv_nxt counts it with the SYN and the FIN; and it is all of what has come but
\* the units whose segment had no PSH, which the ESTABLISHED handler drops.  (While the
\* wire has neither lost nor repeated anything, for payloads that fit the buffer, until a
\* lookup goes astray.)
THEOREM PayloadInOrder ==
    ASSUME MaxSeg <= BufLen
    PROVE  Spec => [](~stray /\ faults = 0 => DeliveredInOrder)
<1>1. (~stray => BaseInv /\ (faults = 0 => OrderInv)) =>
          (~stray /\ faults = 0 => DeliveredInOrder)
  <2> SUFFICES ASSUME BaseInv, OrderInv, NEW s \in Table \ {Listener}
               PROVE  /\ InOrder(taken[s], rcvbuf[s])
                      /\ \E count \in [0 .. Len(rcvbuf[s]) -> 0 .. MaxUnits] :
                           LET n == count[Len(rcvbuf[s])]
                           IN  /\ Counts(count, taken[s], rcvbuf[s])
                               /\ OfFirst(n + skipped[s], taken[s], rcvbuf[s])
                               /\ (status[s] # "LISTEN"
                                      /\ ~(pstream = s /\ ppc \in {"signal", "count"})) =>
                                     rcv_nxt[s] - n \in
                                       IF status[s] \in {"SYN_RCVD", "ESTABLISHED"}
                                         THEN {1} ELSE {1, 2}
    BY DEF DeliveredInOrder
  <2>1. s \in Streams \ {Listener} /\ Alive(s)
    BY StreamFacts DEF Alive
  <2>2. Numbered(taken[s], rcvbuf[s], Arrived(s), Arrived(s) + skipped[s])
    BY <2>1 DEF OrderInv
  <2>3. PICK count \in [0 .. Len(rcvbuf[s]) -> 0 .. MaxUnits] :
          Counts(count, taken[s], rcvbuf[s]) /\ count[Len(rcvbuf[s])] = Arrived(s)
    BY <2>2 DEF Numbered
  <2>4. ASSUME status[s] # "LISTEN", ~(pstream = s /\ ppc \in {"signal", "count"})
        PROVE  rcv_nxt[s] - Arrived(s) \in
                 IF status[s] \in {"SYN_RCVD", "ESTABLISHED"} THEN {1} ELSE {1, 2}
    <3>1. Queued(s) = 0 /\ rcv_nxt[s] \in Nat
      BY <2>1, <2>4, OrderFacts DEF Queued
    <3>2. status[s] \in {"SYN_RCVD", "ESTABLISHED"} => ~FinCounted(s)
      BY DEF FinCounted, Closing
    <3> QED BY <2>4, <3>1, <3>2 DEF Arrived
  <2>5. InOrder(taken[s], rcvbuf[s]) /\ OfFirst(Arrived(s) + skipped[s], taken[s], rcvbuf[s])
    BY <2>2 DEF Numbered
  <2> QED BY <2>3, <2>4, <2>5
<1> QED BY <1>1, OrderInvariant, PTL
=============================================================================
