---------------------------- MODULE ServersProofs ----------------------------
(***************************************************************************)
(* The servers of 2.1, for any clients, descriptors and requests: that each    *)
(* handles a descriptor while it is what the wait said of it, what can end     *)
(* it, of reactor.c that responses are whole, and of io.c that its threads stay *)
(* apart.  ServersInv is the invariant of the program that runs, a conjunction  *)
(* for each.                                                               *)
(***************************************************************************)
EXTENDS MCServers, FiniteSetTheorems, SequenceTheorems, TLAPS

LEMMA ClientsAre == Rude \subseteq Clients /\ NULL \notin Clients
BY ReactorAssumption

LEMMA FewFdsAre == ConnFds \subseteq Nat /\ Listener \in Nat /\ Listener \notin ConnFds
BY ReactorAssumption

\* The kernel gives out descriptors without gaps.
LEMMA MoreFdsAre ==
    /\ MoreFds \subseteq Nat /\ Listener \in Nat /\ Listener \notin MoreFds
    /\ \A f \in MoreFds : f > Listener /\ \A g \in Nat : Listener < g /\ g < f => g \in MoreFds
BY ServersAssumption DEF S!EchoAssumption

-----------------------------------------------------------------------------
(* The connections of the three echo servers.                              *)

Cuts == {"no", "fin", "crossing", "reset", "broken"}

\* The world of a server with the descriptors F.
EchoTypes(F) ==
    /\ alive \in BOOLEAN /\ sock \in [F -> Clients \cup {NULL}] /\ waiting \subseteq Clients
    /\ inq \in [Clients -> Nat] /\ came \in [Clients -> Nat] /\ asked \in [Clients -> Nat]
    /\ cut \in [Clients -> Cuts] /\ client \in [Clients -> {"away", "here", "left"}]

\* A client is accepted once, and is behind one descriptor.
EchoApart(F) ==
    /\ \A f, g \in F : sock[f] = sock[g] /\ sock[f] # NULL => f = g
    /\ \A f \in F : sock[f] # NULL => sock[f] \notin waiting /\ client[sock[f]] # "away"
    /\ \A c \in waiting : client[c] # "away"

\* No request comes back twice, and only a client that left has ended its connection.
EchoCounts ==
    /\ \A c \in Clients : came[c] + inq[c] <= asked[c]
    /\ \A c \in Clients : cut[c] # "no" => client[c] = "left"

EchoInv(F) == EchoTypes(F) /\ EchoApart(F) /\ EchoCounts

\* A client that is not rude leaves nothing behind; one that does has ended the server.
RudeInv ==
    /\ \A c \in Clients \ Rude : cut[c] = "no" \/ (cut[c] = "fin" /\ inq[c] = 0)
    /\ ~alive => \E c \in Rude : client[c] = "left"

\* accept, of a server with the descriptors F.
Accepts(F, f) ==
    /\ sock[f] = NULL /\ \A g \in F : sock[g] = NULL => f <= g
    /\ \E c \in waiting : sock' = [sock EXCEPT ![f] = c] /\ waiting' = waiting \ {c}
    /\ UNCHANGED <<alive, inq, cut, asked, came, client>>

\* The world is the same for the three.
LEMMA PeersAlike ==
    ASSUME NEW c
    PROVE  (S!Peer(c) <=> E!Peer(c)) /\ (P!Peer(c) <=> E!Peer(c))
BY DEF S!Peer, S!Connect, S!Ask, S!Leave, S!LateReset, S!clientVars,
       P!Peer, P!Connect, P!Ask, P!Leave, P!LateReset, P!clientVars,
       E!Peer, E!Connect, E!Ask, E!Leave, E!LateReset, E!clientVars

LEMMA CallsAlike ==
    ASSUME NEW f
    PROVE  /\ (S!EchoOn(f) <=> E!EchoOn(f)) /\ (P!EchoOn(f) <=> E!EchoOn(f))
           /\ (S!ErrorOn(f) <=> E!ErrorOn(f)) /\ (P!ErrorOn(f) <=> E!ErrorOn(f))
           /\ (S!AcceptAs(f) <=> Accepts(MoreFds, f)) /\ (P!AcceptAs(f) <=> Accepts(MoreFds, f))
           /\ (E!AcceptAs(f) <=> Accepts(ConnFds, f)) /\ (P!CloseOn(f) <=> E!CloseOn(f))
BY DEF S!EchoOn, S!ErrorOn, S!AcceptAs, S!HasData, S!HasError, S!SendOn, S!clientVars,
       P!EchoOn, P!ErrorOn, P!AcceptAs, P!HasData, P!HasError, P!SendOn, P!clientVars,
       E!EchoOn, E!ErrorOn, E!AcceptAs, E!HasData, E!HasError, E!SendOn, E!clientVars,
       P!CloseOn, E!CloseOn, Accepts

\* What the clients do.
LEMMA PeerKeeps ==
    ASSUME NEW F, EchoInv(F), NEW c \in Clients, E!Peer(c)
    PROVE  EchoInv(F)' /\ (RudeInv => RudeInv')
<1> USE ClientsAre DEF EchoInv, EchoTypes, EchoApart, EchoCounts, RudeInv, E!clientVars, Cuts
<1>1. CASE E!Connect(c)
  BY <1>1 DEF E!Connect
<1>2. CASE E!Ask(c)
  BY <1>2 DEF E!Ask
<1>3. CASE E!Leave(c)
  BY <1>3 DEF E!Leave
<1>4. CASE E!LateReset(c)
  BY <1>4 DEF E!LateReset
<1> QED BY <1>1, <1>2, <1>3, <1>4 DEF E!Peer

\* A send after the client's end, and what it does to the server.
LEMMA EchoKeeps ==
    ASSUME NEW F, EchoInv(F), NEW f \in F, E!EchoOn(f) \/ E!ErrorOn(f)
    PROVE  EchoInv(F)' /\ (RudeInv => RudeInv')
<1> USE ClientsAre DEF EchoInv, EchoTypes, EchoApart, EchoCounts, RudeInv, E!clientVars, Cuts
<1>1. CASE E!EchoOn(f)
  BY <1>1 DEF E!EchoOn, E!HasData, E!SendOn
<1>2. CASE E!ErrorOn(f)
  BY <1>2 DEF E!ErrorOn, E!HasError, E!SendOn
<1> QED BY <1>1, <1>2

LEMMA AcceptKeeps ==
    ASSUME NEW F, EchoInv(F), NEW f \in F, Accepts(F, f)
    PROVE  EchoInv(F)' /\ (RudeInv => RudeInv')
BY ClientsAre DEF EchoInv, EchoTypes, EchoApart, EchoCounts, RudeInv, Accepts

LEMMA CloseKeeps ==
    ASSUME NEW F, EchoInv(F), NEW f \in F, E!CloseOn(f)
    PROVE  EchoInv(F)' /\ (RudeInv => RudeInv')
BY ClientsAre DEF EchoInv, EchoTypes, EchoApart, EchoCounts, RudeInv, E!CloseOn, E!clientVars

-----------------------------------------------------------------------------
(* select.c                                                                *)

\* The loop is above the listener and looks at descriptors of the set.
SelectTypes ==
    /\ rfds \subseteq MoreFds \cup {Listener} /\ rset \subseteq rfds
    /\ maxfd \in MoreFds \cup {Listener} /\ i \in Int /\ (pc = "loop" => i > Listener)

\* What select found readable is so until its turn.
SelectReady ==
    pc \in {"accept", "loop"} =>
        \A f \in rset \ {Listener} : (pc = "loop" /\ i > f) \/ S!Readable(f)

SelectInv == EchoInv(MoreFds) /\ SelectTypes /\ SelectReady /\ S!KilledByOlder

LEMMA SelectInit == S!Init => SelectInv
BY ClientsAre, MoreFdsAre
   DEF S!Init, S!WorldInit, SelectInv, EchoInv, EchoTypes, EchoApart, EchoCounts, Cuts,
       SelectTypes, SelectReady, S!KilledByOlder

LEMMA SelectPeer == ASSUME SelectInv, NEW c \in Clients, S!Peer(c), UNCHANGED S!server
                    PROVE  SelectInv'
<1>1. E!Peer(c)
  BY PeersAlike
<1>2. EchoInv(MoreFds)'
  BY <1>1, PeerKeeps DEF SelectInv
<1>3. UNCHANGED <<rfds, rset, maxfd, pc, i>>
  BY DEF S!server
<1>4. SelectTypes'
  BY <1>3 DEF SelectInv, SelectTypes
<1>5. /\ UNCHANGED <<alive, sock>>
      /\ \A d \in Clients : inq[d] > 0 \/ cut[d] # "no" => inq'[d] > 0 \/ cut'[d] # "no"
      /\ \A d \in Clients : client[d] = "left" => client'[d] = "left"
  BY <1>1 DEF E!Peer, E!Connect, E!Ask, E!Leave, E!LateReset, E!clientVars, SelectInv, EchoInv,
              EchoTypes, Cuts
<1>6. SelectReady'
  BY <1>3, <1>5, ClientsAre, MoreFdsAre
     DEF SelectInv, SelectReady, SelectTypes, EchoInv, EchoTypes, S!Readable
<1>7. S!KilledByOlder'
  BY <1>3, <1>5 DEF SelectInv, S!KilledByOlder, S!Newest
<1> QED BY <1>2, <1>4, <1>6, <1>7 DEF SelectInv

\* A turn of the loop that receives and sends, or only sends.
LEMMA SelectSends ==
    ASSUME SelectInv, S!Echo \/ S!EchoError \/ S!EchoEnd
    PROVE  SelectInv'
<1>1. i \in MoreFds /\ i < maxfd /\ alive /\ pc = "loop" /\ i' = i + 1
  BY MoreFdsAre DEF SelectInv, SelectTypes, S!Echo, S!EchoError, S!EchoEnd, S!InLoop, S!NextFd
<1>2. UNCHANGED <<sock, rfds, rset, maxfd, pc, client>>
  BY DEF S!Echo, S!EchoError, S!EchoEnd, S!NextFd, S!EchoOn, S!ErrorOn, S!clientVars
<1>3. sock[i] \in Clients
  BY <1>1 DEF SelectInv, EchoInv, EchoTypes, S!Echo, S!EchoError, S!EchoEnd, S!EchoOn, S!ErrorOn,
              S!HasData, S!HasError, S!HasEnd
<1>4. EchoInv(MoreFds)'
  <2>1. CASE S!Echo \/ S!EchoError
    BY <1>1, <2>1, CallsAlike, EchoKeeps DEF S!Echo, S!EchoError, SelectInv
  <2>2. CASE S!EchoEnd
    BY <1>1, <1>3, <2>2
       DEF S!EchoEnd, S!HasEnd, S!SendOn, S!NextFd, S!clientVars, SelectInv, EchoInv, EchoTypes,
           EchoApart, EchoCounts, Cuts
  <2> QED BY <2>1, <2>2
<1>5. /\ \A d \in Clients \ {sock[i]} : inq'[d] = inq[d] /\ cut'[d] = cut[d]
      /\ alive' \/ client[sock[i]] = "left"
  BY <1>1, <1>3 DEF SelectInv, EchoInv, EchoTypes, EchoCounts, Cuts, S!Echo, S!EchoError, S!EchoEnd,
              S!EchoOn, S!ErrorOn, S!SendOn, S!HasError
<1>6. SelectTypes'
  BY <1>1, <1>2, MoreFdsAre DEF SelectInv, SelectTypes
<1>7. SelectReady'
  <2> SUFFICES ASSUME NEW f \in rset \ {Listener}, ~(i + 1 > f) PROVE S!Readable(f)'
    BY <1>1, <1>2 DEF SelectReady
  <2>1. f \in MoreFds /\ f # i
    BY <1>1, MoreFdsAre DEF SelectInv, SelectTypes
  <2>2. S!Readable(f)
    BY <1>1, <2>1, MoreFdsAre DEF SelectInv, SelectReady
  <2>3. sock[f] \in Clients \ {sock[i]}
    BY <1>1, <1>3, <2>1, <2>2 DEF SelectInv, EchoInv, EchoTypes, EchoApart, S!Readable
  <2> QED BY <1>2, <1>5, <2>2, <2>3 DEF S!Readable
<1>8. S!KilledByOlder'
  <2>1. PICK c \in Clients : c = sock[i]
    BY <1>3
  <2>2. ~(maxfd \in MoreFds /\ sock[maxfd] = c)
    BY <1>1, <2>1, MoreFdsAre, ClientsAre DEF SelectInv, EchoInv, EchoApart
  <2>3. ~S!Newest(c)'
    BY <1>2, <2>2 DEF S!Newest
  <2> QED BY <1>2, <1>5, <2>1, <2>3 DEF S!KilledByOlder
<1> QED BY <1>4, <1>6, <1>7, <1>8 DEF SelectInv

\* The other steps of the loop.
LEMMA SelectGoes ==
    ASSUME SelectInv, S!Select \/ S!Accept \/ S!NoAccept \/ S!Skip \/ S!Again
    PROVE  SelectInv'
<1>1. alive /\ alive'
  BY DEF S!Select, S!Accept, S!NoAccept, S!Skip, S!Again, S!Goto, S!InLoop, S!AcceptAs, S!world
<1>2. S!KilledByOlder'
  BY <1>1 DEF S!KilledByOlder
<1>3. CASE S!Accept
  <2>1. PICK f \in MoreFds : /\ Accepts(MoreFds, f) /\ rfds' = rfds \cup {f}
                             /\ maxfd' = IF f > maxfd THEN f ELSE maxfd
    BY <1>3, CallsAlike DEF S!Accept
  <2>2. pc = "accept" /\ pc' = "loop" /\ i' = Listener + 1 /\ rset' = rset
    BY <1>3 DEF S!Accept, S!Goto
  <2>3. EchoInv(MoreFds)'
    BY <2>1, AcceptKeeps DEF SelectInv
  <2>4. SelectTypes'
    BY <2>1, <2>2, MoreFdsAre DEF SelectInv, SelectTypes
  <2>5. SelectReady'
    BY <2>1, <2>2, ClientsAre, MoreFdsAre
       DEF SelectInv, SelectTypes, SelectReady, EchoInv, EchoTypes, S!Readable, Accepts
  <2> QED BY <1>2, <2>3, <2>4, <2>5 DEF SelectInv
<1>4. CASE S!Select \/ S!NoAccept \/ S!Skip \/ S!Again
  <2>1. UNCHANGED <<alive, sock, waiting, inq, cut, asked, came, client>>
    BY <1>4 DEF S!Select, S!NoAccept, S!Skip, S!Again, S!world, S!clientVars
  <2>2. EchoInv(MoreFds)'
    BY <2>1 DEF SelectInv, EchoInv, EchoTypes, EchoApart, EchoCounts
  <2>3. SelectTypes'
    <3>1. CASE S!Select
      BY <3>1 DEF SelectInv, SelectTypes, S!Select, S!Goto
    <3>2. CASE S!NoAccept
      BY <3>2, MoreFdsAre DEF SelectInv, SelectTypes, S!NoAccept, S!Goto
    <3>3. CASE S!Again
      BY <3>3 DEF SelectInv, SelectTypes, S!Again, S!Goto
    <3>4. CASE S!Skip
      BY <3>4, MoreFdsAre DEF SelectInv, SelectTypes, S!Skip, S!InLoop, S!NextFd
    <3> QED BY <1>4, <3>1, <3>2, <3>3, <3>4
  <2>4. SelectReady'
    <3>1. CASE S!Select
      BY <2>1, <3>1 DEF S!Select, S!Goto, SelectReady, S!Readable
    <3>2. CASE S!NoAccept
      BY <2>1, <3>2 DEF S!NoAccept, S!Goto, SelectInv, SelectReady, S!Readable
    <3>3. CASE S!Skip
      BY <2>1, <3>3, MoreFdsAre
         DEF S!Skip, S!InLoop, S!NextFd, SelectInv, SelectTypes, SelectReady, S!Readable
    <3>4. CASE S!Again
      BY <3>4 DEF S!Again, S!Goto, SelectReady
    <3> QED BY <1>4, <3>1, <3>2, <3>3, <3>4
  <2> QED BY <1>2, <2>2, <2>3, <2>4 DEF SelectInv
<1> QED BY <1>3, <1>4

LEMMA SelectStep == SelectInv /\ S!Next => SelectInv'
BY SelectPeer, SelectSends, SelectGoes DEF S!Next, S!Server

LEMMA SelectHolds == SelectInv => S!NeverBlocks /\ S!KilledByOlder
BY MoreFdsAre DEF SelectInv, SelectReady, SelectTypes, S!NeverBlocks

-----------------------------------------------------------------------------
(* poll.c                                                                  *)

PollTypes ==
    /\ revents \in [MoreFds \cup {Listener} -> BOOLEAN] /\ used \subseteq MoreFds \cup {Listener}
    /\ maxfd \in MoreFds \cup {Listener} /\ i \in Int /\ (pc = "loop" => i > Listener)

\* Where revents says so, there is a descriptor: from poll, or, if the loop now goes
\* further than poll did, because accept gave out all the lower ones.
PollReady ==
    \A f \in MoreFds :
        /\ f < maxfd /\ revents[f]
        /\ pc = "accept" \/ (pc = "loop" /\ i <= f)
        => sock[f] # NULL

PollInv == EchoInv(MoreFds) /\ PollTypes /\ PollReady /\ RudeInv

LEMMA PollInit == P!Init => PollInv
BY ClientsAre, MoreFdsAre
   DEF P!Init, P!WorldInit, P!Slots, PollInv, EchoInv, EchoTypes, EchoApart, EchoCounts, Cuts,
       PollTypes, PollReady, RudeInv

LEMMA PollPeer == ASSUME PollInv, NEW c \in Clients, P!Peer(c), UNCHANGED P!server
                  PROVE  PollInv'
<1>1. E!Peer(c)
  BY PeersAlike
<1>2. EchoInv(MoreFds)' /\ RudeInv'
  BY <1>1, PeerKeeps DEF PollInv
<1>3. UNCHANGED <<revents, used, maxfd, pc, i>>
  BY DEF P!server
<1>4. sock' = sock
  BY <1>1 DEF E!Peer, E!Connect, E!Ask, E!Leave, E!LateReset
<1>5. PollTypes' /\ PollReady'
  BY <1>3, <1>4 DEF PollInv, PollTypes, PollReady
<1> QED BY <1>2, <1>5 DEF PollInv

LEMMA PollTurn ==
    ASSUME PollInv, P!InLoop
    PROVE  i \in MoreFds /\ i < maxfd /\ alive /\ pc = "loop"
BY MoreFdsAre DEF PollInv, PollTypes, P!InLoop

\* A turn of the loop.
LEMMA PollServes ==
    ASSUME PollInv, P!Echo \/ P!EchoError \/ P!End \/ P!Skip
    PROVE  PollInv'
<1>1. i \in MoreFds /\ i < maxfd /\ pc = "loop"
  BY PollTurn DEF P!Echo, P!EchoError, P!End, P!Skip
<1>2. /\ i' = i + 1 /\ UNCHANGED <<revents, maxfd, pc>> /\ used' \subseteq used
      /\ \A f \in MoreFds : f # i /\ sock[f] # NULL => sock'[f] # NULL
  BY <1>1 DEF P!Echo, P!EchoError, P!End, P!Skip, P!NextFd, P!EchoOn, P!ErrorOn, P!CloseOn,
              P!world, PollInv, EchoInv, EchoTypes
<1>3. EchoInv(MoreFds)' /\ RudeInv'
  <2>1. CASE P!Echo \/ P!EchoError
    BY <1>1, <2>1, CallsAlike, EchoKeeps DEF P!Echo, P!EchoError, PollInv
  <2>2. CASE P!End
    BY <1>1, <2>2, CallsAlike, CloseKeeps DEF P!End, PollInv
  <2>3. CASE P!Skip
    BY <2>3 DEF P!Skip, P!world, P!clientVars, PollInv, EchoInv, EchoTypes, EchoApart,
                EchoCounts, RudeInv
  <2> QED BY <2>1, <2>2, <2>3
<1>4. PollTypes'
  BY <1>1, <1>2, MoreFdsAre DEF PollInv, PollTypes
<1>5. PollReady'
  BY <1>1, <1>2, MoreFdsAre DEF PollInv, PollTypes, PollReady
<1> QED BY <1>3, <1>4, <1>5 DEF PollInv

\* The other steps of the loop.
LEMMA PollGoes ==
    ASSUME PollInv, P!Poll \/ P!Accept \/ P!NoAccept \/ P!Again
    PROVE  PollInv'
<1>1. CASE P!Accept
  <2>1. PICK f \in MoreFds : /\ Accepts(MoreFds, f) /\ used' = used \cup {f}
                             /\ maxfd' = IF f > maxfd THEN f ELSE maxfd
    BY <1>1, CallsAlike DEF P!Accept
  <2>2. pc = "accept" /\ pc' = "loop" /\ i' = Listener + 1 /\ revents' = revents
    BY <1>1 DEF P!Accept, P!Goto
  <2>3. EchoInv(MoreFds)' /\ RudeInv'
    BY <2>1, AcceptKeeps DEF PollInv
  <2>4. PollTypes'
    BY <2>1, <2>2, MoreFdsAre DEF PollInv, PollTypes
  <2>5. PollReady'
    <3> SUFFICES ASSUME NEW g \in MoreFds, g < maxfd', revents[g] PROVE sock'[g] # NULL
      BY <2>2 DEF PollReady
    <3>1. sock' \in [MoreFds -> Clients \cup {NULL}] /\ sock'[f] # NULL
      BY <2>1, ClientsAre DEF Accepts, PollInv, EchoInv, EchoTypes
    <3>2. g # f => sock'[g] = sock[g]
      BY <2>1 DEF Accepts, PollInv, EchoInv, EchoTypes
    <3>3. CASE g < maxfd
      BY <2>2, <3>1, <3>2, <3>3 DEF PollInv, PollReady
    <3>4. CASE ~(g < maxfd)
      <4>1. g < f
        BY <2>1, <3>4, MoreFdsAre DEF PollInv, PollTypes
      <4>2. sock[g] # NULL
        BY <2>1, <4>1, MoreFdsAre DEF Accepts
      <4> QED BY <3>1, <3>2, <4>2
    <3> QED BY <3>3, <3>4
  <2> QED BY <2>3, <2>4, <2>5 DEF PollInv
<1>2. CASE P!Poll \/ P!NoAccept \/ P!Again
  <2>1. UNCHANGED <<alive, sock, waiting, inq, cut, asked, came, client>>
    BY <1>2 DEF P!Poll, P!NoAccept, P!Again, P!world, P!clientVars
  <2>2. EchoInv(MoreFds)' /\ RudeInv'
    BY <2>1 DEF PollInv, EchoInv, EchoTypes, EchoApart, EchoCounts, RudeInv
  <2>3. PollTypes' /\ PollReady'
    <3>1. CASE P!Poll
      <4>1. /\ revents' \in [MoreFds \cup {Listener} -> BOOLEAN]
            /\ \A f \in MoreFds : f < maxfd /\ revents'[f] => sock[f] # NULL
        BY <3>1, MoreFdsAre DEF P!Poll, P!Slots, P!Seen, P!Readable, PollInv, PollTypes
      <4> QED BY <2>1, <3>1, <4>1 DEF P!Poll, P!Goto, PollInv, PollTypes, PollReady
    <3>2. CASE P!NoAccept
      BY <2>1, <3>2, MoreFdsAre DEF P!NoAccept, P!Goto, PollInv, PollTypes, PollReady
    <3>3. CASE P!Again
      BY <3>3 DEF P!Again, P!Goto, PollInv, PollTypes, PollReady
    <3> QED BY <1>2, <3>1, <3>2, <3>3
  <2> QED BY <2>2, <2>3 DEF PollInv
<1> QED BY <1>1, <1>2

LEMMA PollStep == PollInv /\ P!Next => PollInv'
BY PollPeer, PollServes, PollGoes DEF P!Next, P!Server

LEMMA PollHolds == PollInv => P!OpenOnly /\ P!OnlyRudeKills
BY PollTurn DEF PollInv, PollTypes, PollReady, RudeInv, P!OpenOnly, P!OnlyRudeKills

-----------------------------------------------------------------------------
(* What the event loops know of a batch.                                   *)

\* Each element of a finite set once, in some order.
LEMMA OrderIs ==
    ASSUME NEW T, IsFiniteSet(T), NEW order \in SetToSeqs(T)
    PROVE  /\ order \in Seq(T) /\ DOMAIN order = 1 .. Len(order)
           /\ \A k, l \in 1 .. Len(order) : order[k] = order[l] => k = l
<1>1. Cardinality(T) \in Nat
  BY FS_CardinalityType
<1>2. /\ order \in [1 .. Cardinality(T) -> T]
      /\ \A k, l \in 1 .. Cardinality(T) : k # l => order[k] # order[l]
  BY DEF SetToSeqs
<1> QED BY <1>1, <1>2

\* The rest of a batch.
LEMMA RestOfBatch ==
    ASSUME NEW T, NEW s \in Seq(T), s # <<>>
    PROVE  /\ Tail(s) \in Seq(T) /\ Len(Tail(s)) = Len(s) - 1 /\ Head(s) = s[1] /\ 1 \in 1 .. Len(s)
           /\ \A k \in 1 .. Len(Tail(s)) : k + 1 \in 1 .. Len(s) /\ Tail(s)[k] = s[k + 1] /\ k + 1 # 1
OBVIOUS

-----------------------------------------------------------------------------
(* epoll.c                                                                 *)

EpollEvents == [fd : ConnFds \cup {Listener}, who : Clients \cup {NULL}]

\* Each descriptor is in the batch once, and is open.
EpollBatch ==
    /\ watched \subseteq ConnFds \cup {Listener} /\ batch \in Seq(EpollEvents)
    /\ \A k, l \in 1 .. Len(batch) : batch[k].fd = batch[l].fd => k = l
    /\ \A k \in 1 .. Len(batch) :
          batch[k].fd # Listener => sock[batch[k].fd] # NULL /\ sock[batch[k].fd] = batch[k].who
    /\ \A k \in 1 .. Len(batch) : batch[k].fd = Listener => batch[k].who = NULL

EpollInv == EchoInv(ConnFds) /\ EpollBatch /\ RudeInv

LEMMA EpollInit == E!Init => EpollInv
BY ClientsAre
   DEF E!Init, E!WorldInit, EpollInv, EchoInv, EchoTypes, EchoApart, EchoCounts, Cuts,
       EpollBatch, RudeInv

LEMMA EpollPeer == ASSUME EpollInv, NEW c \in Clients, E!Peer(c), UNCHANGED E!server
                   PROVE  EpollInv'
<1>1. EchoInv(ConnFds)' /\ RudeInv'
  BY PeerKeeps DEF EpollInv
<1>2. UNCHANGED <<watched, batch>>
  BY DEF E!server
<1>3. sock' = sock
  BY DEF E!Peer, E!Connect, E!Ask, E!Leave, E!LateReset
<1>4. EpollBatch'
  BY <1>2, <1>3 DEF EpollInv, EpollBatch
<1> QED BY <1>1, <1>4 DEF EpollInv

LEMMA EpollWait == ASSUME EpollInv, E!Wait PROVE EpollInv'
<1> DEFINE ready == {f \in watched : E!Readable(f)}
<1>1. PICK order \in SetToSeqs(ready) :
         batch' = [k \in DOMAIN order |-> [fd |-> order[k], who |-> E!Owner(order[k])]]
  <2>1. E!SetToSeqs(ready) = SetToSeqs(ready)
    <3>1. E!Cardinality(ready) = Cardinality(ready)
      BY DEF E!Cardinality, Cardinality
    <3> QED BY <3>1, Zenon DEF E!SetToSeqs, SetToSeqs
  <2> QED BY <2>1, Zenon DEF E!Wait
<1>2. UNCHANGED <<alive, sock, waiting, inq, cut, asked, came, client, watched>>
  BY DEF E!Wait, E!world, E!clientVars
<1>3. ready \subseteq ConnFds \cup {Listener} /\ IsFiniteSet(ready)
  <2>1. IsFiniteSet(ConnFds \cup {Listener})
    BY ReactorAssumption, FS_AddElement
  <2> QED BY <1>1, <2>1, FS_Subset DEF EpollInv, EpollBatch
<1>4. /\ order \in Seq(ready) /\ DOMAIN order = 1 .. Len(order)
      /\ \A k, l \in 1 .. Len(order) : order[k] = order[l] => k = l
  <2> HIDE DEF ready
  <2> QED BY <1>1, <1>3, OrderIs
<1>5. ASSUME NEW k \in 1 .. Len(order)
      PROVE  /\ [fd |-> order[k], who |-> E!Owner(order[k])] \in EpollEvents
             /\ order[k] # Listener => sock[order[k]] # NULL /\ E!Owner(order[k]) = sock[order[k]]
             /\ order[k] = Listener => E!Owner(order[k]) = NULL
  <2>1. order[k] \in ConnFds \cup {Listener} /\ E!Readable(order[k])
    BY <1>1, <1>3, <1>4
  <2> QED BY <2>1 DEF E!Readable, E!Owner, EpollEvents, EpollInv, EchoInv, EchoTypes
<1>6. /\ batch' \in Seq(EpollEvents) /\ Len(batch') = Len(order)
      /\ \A k \in 1 .. Len(order) : batch'[k].fd = order[k] /\ batch'[k].who = E!Owner(order[k])
  BY <1>1, <1>4, <1>5
<1>7. EpollBatch'
  <2>1. watched' \subseteq ConnFds \cup {Listener}
    BY <1>2 DEF EpollInv, EpollBatch
  <2>2. \A k, l \in 1 .. Len(batch') : batch'[k].fd = batch'[l].fd => k = l
    BY <1>4, <1>6
  <2>3. ASSUME NEW k \in 1 .. Len(batch')
        PROVE  /\ batch'[k].fd # Listener =>
                     sock'[batch'[k].fd] # NULL /\ sock'[batch'[k].fd] = batch'[k].who
               /\ batch'[k].fd = Listener => batch'[k].who = NULL
    <3>1. /\ k \in 1 .. Len(order) /\ batch'[k].fd = order[k]
          /\ batch'[k].who = E!Owner(order[k]) /\ sock' = sock
      BY <1>2, <1>6
    <3> QED BY <1>5, <3>1, Zenon
  <2> QED BY <1>6, <2>1, <2>2, <2>3 DEF EpollBatch
<1>8. EchoInv(ConnFds)' /\ RudeInv'
  BY <1>2 DEF EpollInv, EchoInv, EchoTypes, EchoApart, EchoCounts, RudeInv
<1> QED BY <1>7, <1>8 DEF EpollInv

\* The event at the head is handled; of the descriptors of the others none is closed
\* or given to another client.
LEMMA EpollTurn ==
    ASSUME EpollInv, NEW f \in ConnFds \cup {Listener}, E!Turn(f),
           watched' \subseteq ConnFds \cup {Listener},
           \A g \in ConnFds : g # f /\ sock[g] # NULL => sock'[g] = sock[g]
    PROVE  EpollBatch'
<1>1. batch # <<>> /\ Head(batch).fd = f /\ batch' = Tail(batch) /\ batch \in Seq(EpollEvents)
  BY DEF E!Turn, EpollInv, EpollBatch
<1>2. /\ batch' \in Seq(EpollEvents) /\ batch[1].fd = f /\ 1 \in 1 .. Len(batch)
      /\ \A k \in 1 .. Len(batch') : /\ k + 1 \in 1 .. Len(batch) /\ k + 1 # 1
                                     /\ batch'[k] = batch[k + 1]
  BY <1>1, RestOfBatch
<1>3. ASSUME NEW k \in 1 .. Len(batch')
      PROVE  batch'[k].fd # f /\ batch'[k].fd \in ConnFds \cup {Listener}
  <2>1. batch[k + 1].fd # batch[1].fd
    BY <1>2 DEF EpollInv, EpollBatch
  <2>2. batch[k + 1] \in EpollEvents
    BY <1>1, <1>2
  <2> QED BY <1>2, <2>1, <2>2 DEF EpollEvents
<1>4. ASSUME NEW k \in 1 .. Len(batch'), NEW l \in 1 .. Len(batch'), batch'[k].fd = batch'[l].fd
      PROVE  k = l
  <2>1. k + 1 = l + 1
    BY <1>2, <1>4 DEF EpollInv, EpollBatch
  <2> QED BY <2>1
<1>5. ASSUME NEW k \in 1 .. Len(batch'), batch'[k].fd # Listener
      PROVE  sock'[batch'[k].fd] # NULL /\ sock'[batch'[k].fd] = batch'[k].who
  <2>1. sock[batch'[k].fd] # NULL /\ sock[batch'[k].fd] = batch'[k].who
    BY <1>2, <1>5 DEF EpollInv, EpollBatch
  <2> QED BY <1>3, <1>5, <2>1
<1>6. ASSUME NEW k \in 1 .. Len(batch'), batch'[k].fd = Listener PROVE batch'[k].who = NULL
  BY <1>2, <1>6 DEF EpollInv, EpollBatch
<1> QED BY <1>2, <1>4, <1>5, <1>6 DEF EpollBatch

LEMMA EpollServes ==
    ASSUME EpollInv,
           \/ E!Accept \/ E!AcceptFails
           \/ \E f \in ConnFds : E!Echo(f) \/ E!EchoError(f) \/ E!End(f)
    PROVE  EpollInv'
<1>1. CASE E!Accept
  <2>1. PICK f \in ConnFds : Accepts(ConnFds, f) /\ watched' = watched \cup {f}
    BY <1>1, CallsAlike DEF E!Accept
  <2>2. EchoInv(ConnFds)' /\ RudeInv'
    BY <2>1, AcceptKeeps DEF EpollInv
  <2>3. \A g \in ConnFds : sock[g] # NULL => sock'[g] = sock[g]
    BY <2>1 DEF Accepts, EpollInv, EchoInv, EchoTypes
  <2>4. EpollBatch'
    BY <1>1, <2>1, <2>3, EpollTurn DEF E!Accept, EpollInv, EpollBatch
  <2> QED BY <2>2, <2>4 DEF EpollInv
<1>2. CASE E!AcceptFails
  <2>1. UNCHANGED <<alive, sock, waiting, inq, cut, asked, came, client, watched>>
    BY <1>2 DEF E!AcceptFails, E!world, E!clientVars
  <2>2. EchoInv(ConnFds)' /\ RudeInv'
    BY <2>1 DEF EpollInv, EchoInv, EchoTypes, EchoApart, EchoCounts, RudeInv
  <2>3. EpollBatch'
    BY <1>2, <2>1, EpollTurn DEF E!AcceptFails, EpollInv, EpollBatch
  <2> QED BY <2>2, <2>3 DEF EpollInv
<1>3. ASSUME NEW f \in ConnFds, E!Echo(f) \/ E!EchoError(f) PROVE EpollInv'
  <2>1. E!Turn(f) /\ UNCHANGED watched /\ (E!EchoOn(f) \/ E!ErrorOn(f))
    BY <1>3 DEF E!Echo, E!EchoError
  <2>2. EchoInv(ConnFds)' /\ RudeInv'
    BY <2>1, EchoKeeps DEF EpollInv
  <2>3. sock' = sock
    BY <2>1 DEF E!EchoOn, E!ErrorOn
  <2>4. EpollBatch'
    BY <2>1, <2>3, EpollTurn DEF EpollInv, EpollBatch
  <2> QED BY <2>2, <2>4 DEF EpollInv
<1>4. ASSUME NEW f \in ConnFds, E!End(f) PROVE EpollInv'
  <2>1. E!Turn(f) /\ watched' = watched \ {f} /\ E!CloseOn(f)
    BY <1>4 DEF E!End
  <2>2. EchoInv(ConnFds)' /\ RudeInv'
    BY <2>1, CloseKeeps DEF EpollInv
  <2>3. \A g \in ConnFds : g # f => sock'[g] = sock[g]
    BY <2>1 DEF E!CloseOn, EpollInv, EchoInv, EchoTypes
  <2>4. EpollBatch'
    BY <2>1, <2>3, EpollTurn DEF EpollInv, EpollBatch
  <2> QED BY <2>2, <2>4 DEF EpollInv
<1> QED BY <1>1, <1>2, <1>3, <1>4

LEMMA EpollStep == EpollInv /\ E!Next => EpollInv'
BY EpollPeer, EpollWait, EpollServes DEF E!Next, E!Server

LEMMA EpollHolds == EpollInv => E!NoStaleDispatch /\ E!OnlyRudeKills
<1> SUFFICES ASSUME EpollInv PROVE E!NoStaleDispatch /\ E!OnlyRudeKills
  OBVIOUS
<1>1. DOMAIN batch = 1 .. Len(batch)
  BY DEF EpollInv, EpollBatch
<1> QED BY <1>1 DEF EpollInv, EpollBatch, RudeInv, E!NoStaleDispatch, E!Owner, E!OnlyRudeKills

-----------------------------------------------------------------------------
(* reactor.c: the parts of its responses.                                  *)

Parts == {"header", "body"}

\* What stands at a place of a stream of whole responses.
Part(k) == IF k % 2 = 1 THEN "header" ELSE "body"

LEMMA Parity ==
    ASSUME NEW k \in Nat
    PROVE  /\ k % 2 \in {0, 1} /\ (k + 1) % 2 = 1 - (k % 2)
           /\ \E q \in Nat : k = (2 * q) + (k % 2)
<1>1. PICK r \in 0 .. 1, q \in Int : r = k % 2 /\ k = (2 * q) + r
  <2>1. k % 2 \in 0 .. 1 /\ (k \div 2) \in Int /\ k = (2 * (k \div 2)) + (k % 2)
    OBVIOUS
  <2> QED BY <2>1
<1>2. q \in Nat
  BY <1>1
<1>3. r = 0 => (k + 1) % 2 = 1 - r
  <2> HAVE r = 0
  <2>1. k + 1 = (2 * q) + 1
    BY <1>1
  <2>2. ((2 * q) + 1) % 2 = 1
    BY <1>1
  <2>3. (k + 1) % 2 = 1
    BY <2>1, <2>2, Zenon
  <2>4. 1 - r = 1
    OBVIOUS
  <2> QED BY <2>3, <2>4, Zenon
<1>4. r = 1 => (k + 1) % 2 = 1 - r
  <2> HAVE r = 1
  <2>1. k + 1 = 2 * (q + 1)
    BY <1>1
  <2>2. (2 * (q + 1)) % 2 = 0
    BY <1>1
  <2>3. (k + 1) % 2 = 0
    BY <2>1, <2>2, Zenon
  <2>4. 1 - r = 0
    OBVIOUS
  <2> QED BY <2>3, <2>4, Zenon
<1>5. r = 0 \/ r = 1
  BY <1>1
<1>6. (k + 1) % 2 = 1 - (k % 2)
  <2>1. (k + 1) % 2 = 1 - r
    BY <1>3, <1>4, <1>5, Zenon
  <2> QED BY <1>1, <2>1, Zenon
<1> QED BY <1>1, <1>2, <1>6

LEMMA WholeIs ==
    ASSUME NEW s \in Seq(Parts)
    PROVE  Whole(s) <=> \A k \in 1 .. Len(s) : s[k] = Part(k)
BY DEF Whole, Part

LEMMA PartsTurn ==
    ASSUME NEW k \in Nat
    PROVE  Part(k) \in Parts /\ Part(k + 1) \in Parts /\ Part(k + 1) # Part(k) /\ Part(1) = "header"
<1>1. PICK r \in {0, 1} : r = k % 2 /\ (k + 1) % 2 = 1 - r
  BY Parity
<1>2. 1 % 2 = 1
  OBVIOUS
<1> QED BY <1>1, <1>2 DEF Part, Parts

\* The stream grows by its next part, and its beginning is whole.
LEMMA WholeAppend ==
    ASSUME NEW s \in Seq(Parts), NEW t \in Seq(Parts), NEW x \in Parts
    PROVE  /\ s \o t \in Seq(Parts) /\ Len(s \o t) = Len(s) + Len(t)
           /\ s \o Append(t, x) \in Seq(Parts) /\ Len(s \o Append(t, x)) = Len(s) + Len(t) + 1
           /\ (Whole(s \o t) /\ x = Part(Len(s) + Len(t) + 1)) => Whole(s \o Append(t, x))
           /\ Whole(s \o t) => Whole(s)
<1>1. /\ s \o t \in Seq(Parts) /\ Len(s \o t) = Len(s) + Len(t)
      /\ s \o Append(t, x) \in Seq(Parts) /\ Len(s \o Append(t, x)) = Len(s) + Len(t) + 1
  OBVIOUS
<1>2. /\ \A k \in 1 .. Len(s) + Len(t) : (s \o Append(t, x))[k] = (s \o t)[k]
      /\ (s \o Append(t, x))[Len(s) + Len(t) + 1] = x
  OBVIOUS
<1>3. \A k \in 1 .. Len(s) : (s \o t)[k] = s[k] /\ k \in 1 .. Len(s) + Len(t)
  OBVIOUS
<1>4. ASSUME Whole(s \o t), x = Part(Len(s) + Len(t) + 1) PROVE Whole(s \o Append(t, x))
  <2>1. \A k \in 1 .. Len(s) + Len(t) : (s \o t)[k] = Part(k)
    BY <1>1, <1>4, WholeIs
  <2>2. ASSUME NEW k \in 1 .. Len(s) + Len(t) + 1 PROVE (s \o Append(t, x))[k] = Part(k)
    <3>1. CASE k = Len(s) + Len(t) + 1
      BY <1>2, <1>4, <3>1
    <3>2. CASE k # Len(s) + Len(t) + 1
      <4>1. k \in 1 .. Len(s) + Len(t)
        BY <3>2
      <4> QED BY <1>2, <2>1, <4>1, Zenon
    <3> QED BY <3>1, <3>2
  <2> QED BY <1>1, <2>2, WholeIs
<1>5. ASSUME Whole(s \o t) PROVE Whole(s)
  BY <1>1, <1>3, <1>5, WholeIs
<1> QED BY <1>1, <1>4, <1>5

\* What a client reads moves from one sequence to the other.
LEMMA ReadMoves ==
    ASSUME NEW s \in Seq(Parts), NEW t \in Seq(Parts), t # <<>>
    PROVE  /\ Head(t) \in Parts /\ Tail(t) \in Seq(Parts) /\ Append(s, Head(t)) \in Seq(Parts)
           /\ Append(s, Head(t)) \o Tail(t) = s \o t
           /\ Whole(s \o t) => Head(t) = Part(Len(s) + 1)
<1>1. /\ Head(t) \in Parts /\ Tail(t) \in Seq(Parts) /\ Append(s, Head(t)) \in Seq(Parts)
      /\ Len(Append(s, Head(t)) \o Tail(t)) = Len(s \o t)
  OBVIOUS
<1>2. \A k \in 1 .. Len(s \o t) : (Append(s, Head(t)) \o Tail(t))[k] = (s \o t)[k]
  OBVIOUS
<1>3. Append(s, Head(t)) \o Tail(t) = s \o t
  BY <1>1, <1>2
<1>4. s \o t \in Seq(Parts) /\ (s \o t)[Len(s) + 1] = Head(t) /\ Len(s) + 1 \in 1 .. Len(s \o t)
  OBVIOUS
<1> QED BY <1>1, <1>3, <1>4, WholeIs

\* A body more, if a body was read.
Bodies(s) == {k \in DOMAIN s : s[k] = "body"}

LEMMA BodiesAppend ==
    ASSUME NEW s \in Seq(Parts), NEW x \in Parts
    PROVE  /\ Cardinality(Bodies(s)) \in Nat
           /\ Cardinality(Bodies(Append(s, x))) =
                 Cardinality(Bodies(s)) + (IF x = "body" THEN 1 ELSE 0)
<1>1. DOMAIN s = 1 .. Len(s) /\ DOMAIN Append(s, x) = 1 .. Len(s) + 1
  OBVIOUS
<1>2. IsFiniteSet(Bodies(s)) /\ Len(s) + 1 \notin Bodies(s)
  <2>1. IsFiniteSet(1 .. Len(s)) /\ Bodies(s) \subseteq 1 .. Len(s)
    BY <1>1, FS_Interval DEF Bodies
  <2> QED BY <2>1, FS_Subset
<1>3. Bodies(Append(s, x)) = IF x = "body" THEN Bodies(s) \cup {Len(s) + 1} ELSE Bodies(s)
  <2>1. \A k \in 1 .. Len(s) : Append(s, x)[k] = s[k]
    OBVIOUS
  <2>2. Append(s, x)[Len(s) + 1] = x
    OBVIOUS
  <2> QED BY <1>1, <2>1, <2>2 DEF Bodies
<1> QED BY <1>2, <1>3, FS_AddElement, FS_CardinalityType

\* Of whole responses at most half the parts are bodies.
LEMMA HalfAppend ==
    ASSUME NEW s \in Seq(Parts), 2 * Cardinality(Bodies(s)) <= Len(s),
           NEW x \in Parts, x = Part(Len(s) + 1)
    PROVE  2 * Cardinality(Bodies(Append(s, x))) <= Len(Append(s, x))
<1>1. PICK a \in Nat : a = Cardinality(Bodies(s))
  BY BodiesAppend
<1>2. PICK n \in Nat : n = Len(s)
  OBVIOUS
<1>3. Len(Append(s, x)) = n + 1
  BY <1>2
<1>4. CASE x = "body"
  <2>1. (n + 1) % 2 # 1
    BY <1>2, <1>4 DEF Part
  <2>2. PICK r \in {0, 1}, q \in Nat : r = n % 2 /\ n = 2 * q + r
    BY <1>2, Parity
  <2>3. (n + 1) % 2 = 1 - r
    BY <1>2, <2>2, Parity
  <2>4. r = 1
    BY <2>1, <2>2, <2>3
  <2>5. 2 * (a + 1) <= n + 1
    BY <1>1, <1>2, <2>2, <2>4
  <2>6. Cardinality(Bodies(Append(s, x))) = a + 1
    BY <1>1, <1>4, BodiesAppend
  <2> QED BY <1>3, <2>5, <2>6
<1>5. CASE x # "body"
  <2>1. Cardinality(Bodies(Append(s, x))) = a
    BY <1>1, <1>5, BodiesAppend
  <2> QED BY <1>1, <1>2, <1>3, <2>1
<1> QED BY <1>4, <1>5

-----------------------------------------------------------------------------
(* reactor.c                                                               *)

ReactorEvents == [fd : ConnFds \cup {Listener}, ev : {{"IN"}, {"OUT"}}, who : Clients \cup {NULL}]

ReactorTypes ==
    /\ alive \in BOOLEAN /\ sock \in [ConnFds -> Clients \cup {NULL}] /\ backlog \in Seq(Clients)
    /\ inq \in [Clients -> Nat] /\ asked \in [Clients -> Nat]
    /\ got \in [Clients -> Seq(Parts)] /\ pipe \in [Clients -> Seq(Parts)]
    /\ cut \in [Clients -> Cuts] /\ client \in [Clients -> {"away", "here", "left"}]
    /\ sate \in [ConnFds -> 0 .. 2]
    /\ watch \in [ConnFds \cup {Listener} -> SUBSET {"IN", "OUT"}] /\ watch[Listener] = {"IN"}

Queued == {backlog[k] : k \in 1 .. Len(backlog)}

\* A client waits once or is behind one descriptor, which alone is watched.
ReactorApart ==
    /\ \A f, g \in ConnFds : sock[f] = sock[g] /\ sock[f] # NULL => f = g
    /\ \A f \in ConnFds : sock[f] # NULL => sock[f] \notin Queued /\ client[sock[f]] # "away"
    /\ \A k, l \in 1 .. Len(backlog) : backlog[k] = backlog[l] => k = l
    /\ \A c \in Queued : client[c] # "away"
    /\ \A f \in ConnFds : IF sock[f] = NULL THEN watch[f] = {} ELSE watch[f] \in {{"IN"}, {"OUT"}}

\* Each descriptor is in the batch once, as it is now.
ReactorBatch ==
    /\ batch \in Seq(ReactorEvents)
    /\ \A k, l \in 1 .. Len(batch) : batch[k].fd = batch[l].fd => k = l
    /\ \A k \in 1 .. Len(batch) :
          IF batch[k].fd = Listener
          THEN batch[k].who = NULL /\ batch[k].ev = {"IN"} /\ backlog # <<>>
          ELSE /\ sock[batch[k].fd] # NULL /\ sock[batch[k].fd] = batch[k].who
               /\ batch[k].ev = watch[batch[k].fd]

Sent(c) == Len(got[c]) + Len(pipe[c])

\* The parts that send_cb has still to send.
Due(f) == IF watch[f] = {"OUT"} THEN IF sate[f] = 0 THEN 2 ELSE 1 ELSE 0

\* The part that comes next on a connection.
ReactorNext(f) == IF watch[f] = {"OUT"} /\ sate[f] = 1 THEN "body" ELSE "header"

\* The parts are in turn, and sate knows whose turn it is.
ReactorFlow ==
    /\ \A c \in Clients : Whole(got[c] \o pipe[c]) /\ 2 * Cardinality(Bodies(got[c])) <= Len(got[c])
    /\ \A c \in Clients : client[c] = "away" \/ c \in Queued => got[c] = <<>> /\ pipe[c] = <<>>
    /\ \A f \in ConnFds : sock[f] # NULL /\ cut[sock[f]] = "no" =>
                             Part(Sent(sock[f]) + 1) = ReactorNext(f)

\* No more is sent than was asked for.
ReactorCounts ==
    /\ \A c \in Clients : Sent(c) + 2 * inq[c] <= 2 * asked[c]
    /\ \A f \in ConnFds : sock[f] # NULL =>
          Sent(sock[f]) + 2 * inq[sock[f]] + Due(f) <= 2 * asked[sock[f]]

\* A connection that can end the server is of a client that left with answers due.
ReactorEnd ==
    /\ \A c \in Clients : cut[c] # "no" => client[c] = "left"
    /\ \A c \in Clients : cut[c] \in {"reset", "crossing", "broken"} => Len(got[c]) < 2 * asked[c]
    /\ ~alive => \E c \in Clients : client[c] = "left" /\ Len(got[c]) < 2 * asked[c]

ReactorInv == /\ ReactorTypes /\ ReactorApart /\ ReactorBatch
              /\ ReactorFlow /\ ReactorCounts /\ ReactorEnd
LEMMA ReactorInit == Init => ReactorInv
<1> SUFFICES ASSUME Init PROVE ReactorInv
  OBVIOUS
<1> USE ClientsAre, FewFdsAre DEF Init, Fds
<1>1. ReactorTypes
  BY DEF ReactorTypes, Cuts, Parts
<1>2. ReactorApart /\ ReactorBatch
  BY DEF ReactorApart, ReactorBatch, Queued
<1>3. ASSUME NEW c \in Clients
      PROVE  Whole(got[c] \o pipe[c]) /\ 2 * Cardinality(Bodies(got[c])) <= Len(got[c])
  <2>1. got[c] \o pipe[c] = <<>> /\ got[c] = <<>>
    OBVIOUS
  <2>2. Bodies(got[c]) = {}
    BY <2>1 DEF Bodies
  <2>3. Whole(got[c] \o pipe[c])
    BY <2>1 DEF Whole
  <2>4. Cardinality(Bodies(got[c])) = 0 /\ Len(got[c]) = 0
    BY <2>1, <2>2, FS_EmptySet
  <2> QED BY <2>3, <2>4
<1>4. ReactorFlow
  BY <1>3 DEF ReactorFlow, Queued
<1>5. ReactorCounts /\ ReactorEnd
  BY DEF ReactorCounts, ReactorEnd, Sent
<1> QED BY <1>1, <1>2, <1>4, <1>5 DEF ReactorInv

\* The backlog as a set.
LEMMA QueueGrows ==
    ASSUME ReactorTypes, ReactorApart, NEW c \in Clients, c \notin Queued,
           backlog' = Append(backlog, c)
    PROVE  /\ backlog' \in Seq(Clients) /\ Queued' = Queued \cup {c}
           /\ \A k, l \in 1 .. Len(backlog') : backlog'[k] = backlog'[l] => k = l
<1>1. PICK n \in Nat : n = Len(backlog) /\ backlog \in Seq(Clients)
  BY DEF ReactorTypes
<1>2. /\ backlog' \in Seq(Clients) /\ Len(backlog') = n + 1 /\ backlog'[n + 1] = c
      /\ \A k \in 1 .. n : backlog'[k] = backlog[k] /\ backlog[k] # c
  BY <1>1 DEF Queued
<1>3. \A k \in 1 .. n + 1 : k \in 1 .. n \/ k = n + 1
  BY <1>1
<1>4. Queued' = Queued \cup {c}
  <2>1. Queued' = {backlog'[k] : k \in 1 .. n + 1} /\ Queued = {backlog[k] : k \in 1 .. n}
    BY <1>1, <1>2 DEF Queued
  <2>2. 1 .. n \subseteq 1 .. n + 1 /\ n + 1 \in 1 .. n + 1
    BY <1>1
  <2> QED BY <1>2, <1>3, <2>1, <2>2
<1>5. \A k, l \in 1 .. n + 1 : backlog'[k] = backlog'[l] => k = l
  BY <1>1, <1>2, <1>3 DEF ReactorApart
<1> QED BY <1>2, <1>4, <1>5

LEMMA QueueShrinks ==
    ASSUME ReactorTypes, ReactorApart, backlog # <<>>, backlog' = Tail(backlog)
    PROVE  /\ backlog' \in Seq(Clients) /\ Queued' = Queued \ {Head(backlog)}
           /\ Head(backlog) \in Queued /\ Head(backlog) \in Clients
           /\ \A k, l \in 1 .. Len(backlog') : backlog'[k] = backlog'[l] => k = l
<1>1. backlog \in Seq(Clients) /\ Len(backlog) \in Nat
  BY DEF ReactorTypes
<1>2. /\ Tail(backlog) \in Seq(Clients) /\ Len(Tail(backlog)) = Len(backlog) - 1
      /\ Head(backlog) = backlog[1] /\ 1 \in 1 .. Len(backlog)
      /\ \A k \in 1 .. Len(Tail(backlog)) : /\ k + 1 \in 1 .. Len(backlog)
                                            /\ Tail(backlog)[k] = backlog[k + 1] /\ k + 1 # 1
  BY <1>1, RestOfBatch
<1>3. \A k \in 1 .. Len(backlog) : k = 1 \/ (k - 1 \in 1 .. Len(backlog') /\ (k - 1) + 1 = k)
  BY <1>1, <1>2
<1>4. Queued' = Queued \ {Head(backlog)}
  <2>1. ASSUME NEW c \in Queued' PROVE c \in Queued /\ c # Head(backlog)
    <3>1. PICK k \in 1 .. Len(backlog') : c = backlog[k + 1] /\ k + 1 \in 1 .. Len(backlog) /\ k + 1 # 1
      BY <1>2, <2>1 DEF Queued
    <3> QED BY <1>2, <3>1 DEF Queued, ReactorApart
  <2>2. ASSUME NEW c \in Queued, c # Head(backlog) PROVE c \in Queued'
    <3>1. PICK k \in 1 .. Len(backlog) : c = backlog[k] /\ k # 1
      BY <1>2, <2>2 DEF Queued
    <3>2. k - 1 \in 1 .. Len(backlog') /\ backlog'[k - 1] = c
      BY <1>2, <1>3, <3>1
    <3> QED BY <3>2 DEF Queued
  <2> QED BY <2>1, <2>2
<1>5. ASSUME NEW k \in 1 .. Len(backlog'), NEW l \in 1 .. Len(backlog'), backlog'[k] = backlog'[l]
      PROVE  k = l
  <2>1. k + 1 = l + 1
    BY <1>2, <1>5 DEF ReactorApart
  <2> QED BY <2>1
<1>6. Head(backlog) \in Queued /\ Head(backlog) \in Clients
  BY <1>1, <1>2 DEF Queued
<1> QED BY <1>2, <1>4, <1>5, <1>6

LEMMA LengthsAdd ==
    ASSUME NEW T, NEW s \in Seq(T), NEW t \in Seq(T)
    PROVE  /\ Len(s) \in Nat /\ Len(t) \in Nat /\ Len(s) + Len(t) \in Nat
           /\ Len(s) + Len(<<>>) \in Nat /\ Len(s) + Len(<<>>) <= Len(s) + Len(t)
           /\ Len(s) <= Len(s) + Len(t)
           /\ t # <<>> => /\ Len(s) < Len(s) + Len(t)
                          /\ Len(Append(s, Head(t))) + Len(Tail(t)) = Len(s) + Len(t)
<1>1. Len(s) \in Nat /\ Len(t) \in Nat /\ Len(<<>>) = 0
  OBVIOUS
<1>2. /\ Len(s) + Len(t) \in Nat /\ Len(s) + 0 \in Nat /\ Len(s) + 0 <= Len(s) + Len(t)
      /\ Len(s) <= Len(s) + Len(t)
  BY <1>1
<1>3. ASSUME t # <<>>
      PROVE  /\ Len(s) < Len(s) + Len(t)
             /\ Len(Append(s, Head(t))) + Len(Tail(t)) = Len(s) + Len(t)
  <2>1. /\ Len(t) # 0 /\ Head(t) \in T
        /\ Len(Append(s, Head(t))) = Len(s) + 1 /\ Len(Tail(t)) = Len(t) - 1
    BY <1>3
  <2>2. PICK m \in Nat, n \in Nat : m = Len(s) /\ n = Len(t)
    BY <1>1
  <2>3. m < m + n /\ (m + 1) + (n - 1) = m + n
    BY <1>1, <2>1, <2>2
  <2> QED BY <2>1, <2>2, <2>3
<1> QED BY <1>1, <1>2, <1>3

LEMMA LengthAppend ==
    ASSUME NEW T, NEW s \in Seq(T), NEW t \in Seq(T), NEW x \in T
    PROVE  Len(s) + Len(Append(t, x)) = (Len(s) + Len(t)) + 1
OBVIOUS

LEMMA StreamsAre ==
    ASSUME ReactorTypes, NEW c \in Clients
    PROVE  /\ got[c] \in Seq(Parts) /\ pipe[c] \in Seq(Parts)
           /\ Len(got[c]) \in Nat /\ Len(pipe[c]) \in Nat
           /\ Sent(c) \in Nat /\ Len(got[c]) <= Sent(c)
<1>1. got[c] \in Seq(Parts) /\ pipe[c] \in Seq(Parts)
  BY DEF ReactorTypes
<1> QED BY <1>1, LengthsAdd, Zenon DEF Sent

\* What the clients and the network do, which the server does not see at once.
LEMMA BatchKept ==
    ASSUME ReactorBatch, UNCHANGED <<batch, sock, watch>>, backlog' = backlog \/ backlog' # <<>>
    PROVE  ReactorBatch'
BY DEF ReactorBatch

LEMMA ConnectKeeps == ASSUME ReactorInv, NEW c \in Clients, Connect(c) PROVE ReactorInv'
<1> USE DEF ReactorInv
<1>1. c \notin Queued /\ \A f \in ConnFds : sock[f] # c
  BY ClientsAre DEF ReactorApart, Connect
<1>2. /\ backlog' \in Seq(Clients) /\ Queued' = Queued \cup {c}
      /\ \A k, l \in 1 .. Len(backlog') : backlog'[k] = backlog'[l] => k = l
  BY <1>1, QueueGrows DEF Connect
<1>3. /\ UNCHANGED <<alive, batch, sate, watch, sock, inq, cut, pipe, got, asked>>
      /\ client' = [client EXCEPT ![c] = "here"] /\ client[c] = "away"
  BY DEF Connect, server
<1>4. ReactorTypes'
  BY <1>2, <1>3 DEF ReactorTypes
<1>5. ReactorApart'
  <2>1. \A d \in Clients : client[d] # "away" => client'[d] # "away"
    BY <1>3 DEF ReactorTypes
  <2>2. client'[c] # "away"
    BY <1>3 DEF ReactorTypes
  <2>3. \A f \in ConnFds : sock[f] # NULL => sock[f] \in Clients
    BY DEF ReactorTypes
  <2>4. \A d \in Queued' : d \in Clients /\ client'[d] # "away"
    <3>1. \A d \in Queued : d \in Clients
      BY DEF Queued, ReactorTypes
    <3> QED BY <1>2, <2>1, <2>2, <3>1 DEF ReactorApart
  <2>5. \A f \in ConnFds : sock'[f] # NULL => sock'[f] \notin Queued' /\ client'[sock'[f]] # "away"
    BY <1>1, <1>2, <1>3, <2>1, <2>3 DEF ReactorApart
  <2>6. \A f, g \in ConnFds : sock'[f] = sock'[g] /\ sock'[f] # NULL => f = g
    BY <1>3 DEF ReactorApart
  <2>7. \A f \in ConnFds : IF sock'[f] = NULL THEN watch'[f] = {} ELSE watch'[f] \in {{"IN"}, {"OUT"}}
    BY <1>3 DEF ReactorApart
  <2> QED BY <1>2, <2>4, <2>5, <2>6, <2>7 DEF ReactorApart
<1>6. ReactorFlow'
  BY <1>1, <1>2, <1>3 DEF ReactorFlow, ReactorTypes, Sent, ReactorNext
<1>7. ReactorCounts'
  BY <1>3 DEF ReactorCounts, Sent, Due
<1>8. ReactorEnd'
  BY <1>3 DEF ReactorEnd, ReactorTypes
<1>9. ReactorBatch'
  <2>1. backlog' # <<>>
    BY <1>2 DEF Queued
  <2> QED BY <1>3, <2>1, BatchKept
<1> QED BY <1>4, <1>5, <1>6, <1>7, <1>8, <1>9

LEMMA AskKeeps == ASSUME ReactorInv, NEW c \in Clients, Ask(c) PROVE ReactorInv'
<1> USE DEF ReactorInv
<1>1. /\ UNCHANGED <<alive, batch, sate, watch, sock, backlog, cut, pipe, got, client>>
      /\ asked' = [asked EXCEPT ![c] = @ + 1] /\ inq' = [inq EXCEPT ![c] = @ + 1]
      /\ client[c] = "here"
  BY DEF Ask, server
<1>2. ReactorTypes'
  BY <1>1 DEF ReactorTypes
<1>3. ReactorApart'
  BY <1>1 DEF ReactorApart, Queued
<1>4. ReactorFlow'
  BY <1>1 DEF ReactorFlow, Queued, Sent, ReactorNext
<1>5. ReactorCounts'
  <2>1. \A d \in Clients : /\ Sent(d) \in Nat /\ Sent(d)' = Sent(d)
                           /\ asked[d] \in Nat /\ inq[d] \in Nat
                           /\ asked'[d] = IF d = c THEN asked[d] + 1 ELSE asked[d]
                           /\ inq'[d] = IF d = c THEN inq[d] + 1 ELSE inq[d]
    BY <1>1 DEF ReactorTypes, Sent
  <2>2. \A f \in ConnFds : Due(f) \in Nat /\ Due(f)' = Due(f) /\ sock'[f] = sock[f]
    BY <1>1 DEF Due
  <2>3. \A f \in ConnFds : sock[f] # NULL => sock[f] \in Clients
    BY DEF ReactorTypes
  <2> QED BY <2>1, <2>2, <2>3 DEF ReactorCounts
<1>6. ReactorEnd'
  BY <1>1 DEF ReactorEnd, ReactorTypes
<1> QED BY <1>1, <1>2, <1>3, <1>4, <1>5, <1>6, BatchKept

LEMMA ReadKeeps == ASSUME ReactorInv, NEW c \in Clients, Read(c) PROVE ReactorInv'
<1> USE DEF ReactorInv
<1>1. /\ UNCHANGED <<alive, batch, sate, watch, sock, backlog, inq, cut, asked, client>>
      /\ got' = [got EXCEPT ![c] = Append(@, Head(pipe[c]))]
      /\ pipe' = [pipe EXCEPT ![c] = Tail(@)] /\ pipe[c] # <<>>
  BY DEF Read, server, kernel
<1>2. got[c] \in Seq(Parts) /\ pipe[c] \in Seq(Parts)
  BY DEF ReactorTypes
<1>3. /\ Head(pipe[c]) \in Parts /\ Tail(pipe[c]) \in Seq(Parts)
      /\ Append(got[c], Head(pipe[c])) \in Seq(Parts)
      /\ Append(got[c], Head(pipe[c])) \o Tail(pipe[c]) = got[c] \o pipe[c]
      /\ Head(pipe[c]) = Part(Len(got[c]) + 1)
  BY <1>1, <1>2, ReadMoves DEF ReactorFlow
<1>4. /\ got'[c] = Append(got[c], Head(pipe[c])) /\ pipe'[c] = Tail(pipe[c])
      /\ \A d \in Clients \ {c} : got'[d] = got[d] /\ pipe'[d] = pipe[d]
  BY <1>1 DEF ReactorTypes
<1>5. ReactorTypes'
  <2>1. got' \in [Clients -> Seq(Parts)] /\ pipe' \in [Clients -> Seq(Parts)]
    BY <1>1, <1>3, <1>4 DEF ReactorTypes
  <2> QED BY <1>1, <2>1 DEF ReactorTypes
<1>6. ReactorApart'
  BY <1>1 DEF ReactorApart, Queued
<1>7. \A d \in Clients : Sent(d)' = Sent(d) /\ Sent(d) \in Nat
  <2>1. Len(Append(got[c], Head(pipe[c]))) + Len(Tail(pipe[c])) = Len(got[c]) + Len(pipe[c])
    BY <1>1, <1>2, LengthsAdd, Zenon
  <2>2. Sent(c)' = Sent(c) /\ Sent(c) \in Nat
    BY <1>4, <2>1, StreamsAre, Zenon DEF Sent
  <2>3. \A d \in Clients \ {c} : Sent(d)' = Sent(d) /\ Sent(d) \in Nat
    BY <1>4, StreamsAre DEF Sent
  <2> QED BY <2>2, <2>3
<1>8. ReactorFlow'
  <2>1. ASSUME NEW d \in Clients
        PROVE  (Whole(got[d] \o pipe[d]) /\ 2 * Cardinality(Bodies(got[d])) <= Len(got[d]))'
    <3>1. CASE d = c
      <4>1. Whole(got'[c] \o pipe'[c])
        BY <1>3, <1>4 DEF ReactorFlow
      <4>2. 2 * Cardinality(Bodies(got'[c])) <= Len(got'[c])
        BY <1>2, <1>3, <1>4, HalfAppend DEF ReactorFlow
      <4> QED BY <3>1, <4>1, <4>2 DEF Bodies
    <3>2. CASE d # c
      BY <1>4, <3>2 DEF ReactorFlow, Bodies
    <3> QED BY <3>1, <3>2
  <2>2. c \notin Queued /\ client[c] # "away"
    BY <1>1 DEF ReactorFlow
  <2>3. \A d \in Clients : (client[d] = "away" \/ d \in Queued => got[d] = <<>> /\ pipe[d] = <<>>)'
    BY <1>1, <1>4, <2>2 DEF ReactorFlow, Queued
  <2>4. \A f \in ConnFds : (sock[f] # NULL /\ cut[sock[f]] = "no" =>
                               Part(Sent(sock[f]) + 1) = ReactorNext(f))'
    <3>1. ASSUME NEW f \in ConnFds, sock[f] # NULL, cut[sock[f]] = "no"
          PROVE  (Part(Sent(sock[f]) + 1) = ReactorNext(f))'
      <4>1. sock[f] \in Clients
        BY <3>1 DEF ReactorTypes
      <4>2. Sent(sock[f])' = Sent(sock[f])
        <5>1. PICK d \in Clients : d = sock[f] /\ d = sock'[f]
          BY <1>1, <4>1
        <5> QED BY <1>7, <5>1 DEF Sent
      <4> QED BY <1>1, <3>1, <4>2 DEF ReactorFlow, ReactorNext, Part
    <3> QED BY <1>1, <3>1
  <2> QED BY <2>1, <2>3, <2>4 DEF ReactorFlow
<1>9. ReactorCounts'
  <2>1. \A d \in Clients : (Sent(d) + 2 * inq[d] <= 2 * asked[d])'
    BY <1>1, <1>7 DEF ReactorCounts
  <2>2. ASSUME NEW f \in ConnFds, sock[f] # NULL
        PROVE  (Sent(sock[f]) + 2 * inq[sock[f]] + Due(f) <= 2 * asked[sock[f]])'
    <3>1. PICK d \in Clients : d = sock[f] /\ d = sock'[f]
      BY <1>1, <2>2 DEF ReactorTypes
    <3>2. Sent(d)' = Sent(d) /\ Due(f)' = Due(f)
      BY <1>1, <1>7 DEF Due
    <3>3. Sent(d) + 2 * inq[d] + Due(f) <= 2 * asked[d]
      BY <2>2, <3>1 DEF ReactorCounts
    <3> QED BY <1>1, <3>1, <3>2, <3>3 DEF Sent
  <2> QED BY <1>1, <2>1, <2>2 DEF ReactorCounts
<1>10. ReactorEnd'
  <2>1. \A d \in Clients : client[d] = "left" => d # c
    BY DEF Read
  <2>2. \A d \in Clients : cut[d] # "no" => d # c
    BY <2>1 DEF ReactorEnd
  <2> QED BY <1>1, <1>4, <2>1, <2>2 DEF ReactorEnd
<1> QED BY <1>1, <1>5, <1>6, <1>8, <1>9, <1>10, BatchKept

\* A client that leaves with something unread was promised more than it has.
LEMMA LeaveKeeps == ASSUME ReactorInv, NEW c \in Clients, Leave(c) PROVE ReactorInv'
<1> USE DEF ReactorInv
<1>1. /\ UNCHANGED <<alive, batch, sate, watch, sock, backlog, inq, got, asked>>
      /\ client' = [client EXCEPT ![c] = "left"] /\ pipe' = [pipe EXCEPT ![c] = <<>>]
      /\ cut' = [cut EXCEPT ![c] = IF pipe[c] = <<>> THEN "fin" ELSE "reset"]
      /\ client[c] = "here"
  BY DEF Leave, server
<1>2. ReactorTypes'
  BY <1>1 DEF ReactorTypes, Cuts
<1>3. ReactorApart'
  <2>1. \A d : d \in Clients /\ client[d] # "away" => client'[d] # "away"
    BY <1>1 DEF ReactorTypes
  <2>2. \A d \in Queued : d \in Clients
    BY DEF ReactorTypes, Queued
  <2>3. \A f \in ConnFds : sock[f] # NULL => sock[f] \in Clients
    BY DEF ReactorTypes
  <2>4. Queued' = Queued
    BY <1>1 DEF Queued
  <2> QED BY <1>1, <2>1, <2>2, <2>3, <2>4 DEF ReactorApart
<1>4. /\ pipe'[c] = <<>> /\ cut'[c] # "no" /\ cut'[c] # "crossing" /\ cut'[c] # "broken"
      /\ client'[c] = "left"
      /\ \A d \in Clients \ {c} : pipe'[d] = pipe[d] /\ cut'[d] = cut[d] /\ client'[d] = client[d]
  BY <1>1 DEF ReactorTypes
<1>5. got[c] \in Seq(Parts) /\ pipe[c] \in Seq(Parts)
  BY DEF ReactorTypes
<1>6. ReactorFlow'
  <2>1. Whole(got[c]) /\ got[c] \o pipe'[c] = got[c]
    <3>1. Whole(got[c])
      BY <1>5, WholeAppend DEF ReactorFlow, Parts
    <3> QED BY <1>4, <1>5, <3>1
  <2>2. \A d \in Clients : (Whole(got[d] \o pipe[d]) /\ 2 * Cardinality(Bodies(got[d])) <= Len(got[d]))'
    BY <1>1, <1>4, <2>1 DEF ReactorFlow
  <2>3. \A d \in Clients : (client[d] = "away" \/ d \in Queued => got[d] = <<>> /\ pipe[d] = <<>>)'
    BY <1>1, <1>4 DEF ReactorFlow, Queued
  <2>4. ASSUME NEW f \in ConnFds, sock[f] # NULL, cut'[sock[f]] = "no"
        PROVE  (Part(Sent(sock[f]) + 1) = ReactorNext(f))'
    <3>1. PICK d \in Clients \ {c} : d = sock[f] /\ d = sock'[f]
      BY <1>1, <1>4, <2>4 DEF ReactorTypes
    <3>2. Part(Sent(d) + 1) = ReactorNext(f)
      BY <1>4, <2>4, <3>1 DEF ReactorFlow
    <3> QED BY <1>1, <1>4, <3>1, <3>2 DEF Sent, ReactorNext, Part
  <2> QED BY <1>1, <2>2, <2>3, <2>4 DEF ReactorFlow
<1>7. \A d \in Clients : Sent(d)' \in Nat /\ Sent(d)' <= Sent(d) /\ Sent(d) \in Nat
  <2>1. /\ Len(got[c]) + Len(<<>>) \in Nat
        /\ Len(got[c]) + Len(<<>>) <= Len(got[c]) + Len(pipe[c])
    BY <1>5, LengthsAdd, Zenon
  <2>2. got'[c] = got[c] /\ pipe'[c] = <<>>
    BY <1>1, <1>4
  <2>3. Sent(c)' \in Nat /\ Sent(c)' <= Sent(c) /\ Sent(c) \in Nat
    BY <2>1, <2>2, StreamsAre, Zenon DEF Sent
  <2>4. \A d \in Clients \ {c} : Sent(d)' = Sent(d) /\ Sent(d) \in Nat
    BY <1>1, <1>4, StreamsAre DEF Sent
  <2> QED BY <2>3, <2>4
<1>8. ReactorCounts'
  <2>1. \A d \in Clients : inq[d] \in Nat /\ asked[d] \in Nat
    BY DEF ReactorTypes
  <2>2. \A d \in Clients : (Sent(d) + 2 * inq[d] <= 2 * asked[d])'
    BY <1>1, <1>7, <2>1 DEF ReactorCounts
  <2>3. ASSUME NEW f \in ConnFds, sock[f] # NULL
        PROVE  (Sent(sock[f]) + 2 * inq[sock[f]] + Due(f) <= 2 * asked[sock[f]])'
    <3>1. PICK d \in Clients : d = sock[f] /\ d = sock'[f]
      BY <1>1, <2>3 DEF ReactorTypes
    <3>2. Due(f)' = Due(f) /\ Due(f) \in Nat
      BY <1>1 DEF Due
    <3>3. Sent(d) + 2 * inq[d] + Due(f) <= 2 * asked[d]
      BY <2>3, <3>1 DEF ReactorCounts
    <3>4. Sent(d)' + 2 * inq[d] + Due(f) <= 2 * asked[d]
      BY <1>7, <2>1, <3>2, <3>3
    <3> QED BY <1>1, <3>1, <3>2, <3>4 DEF Sent
  <2> QED BY <1>1, <2>2, <2>3 DEF ReactorCounts
<1>9. ReactorEnd'
  <2>1. pipe[c] # <<>> => Len(got[c]) < 2 * asked[c]
    <3>1. HAVE pipe[c] # <<>>
    <3>2. Len(got[c]) < Sent(c) /\ Len(got[c]) \in Nat /\ Sent(c) \in Nat
      BY <1>5, <3>1, LengthsAdd, StreamsAre, Zenon DEF Sent
    <3>3. Sent(c) + 2 * inq[c] <= 2 * asked[c] /\ inq[c] \in Nat /\ asked[c] \in Nat
      BY DEF ReactorCounts, ReactorTypes
    <3> QED BY <3>2, <3>3
  <2>2. cut'[c] = "reset" => pipe[c] # <<>>
    BY <1>1 DEF ReactorTypes
  <2>3. \A d \in Clients : (cut[d] \in {"reset", "crossing", "broken"} => Len(got[d]) < 2 * asked[d])'
    BY <1>1, <1>4, <2>1, <2>2 DEF ReactorEnd
  <2>4. \A d \in Clients : cut'[d] # "no" => client'[d] = "left"
    BY <1>4 DEF ReactorEnd
  <2>5. ~alive' => \E d \in Clients : client'[d] = "left" /\ Len(got'[d]) < 2 * asked'[d]
    BY <1>1, <1>4 DEF ReactorEnd
  <2> QED BY <2>3, <2>4, <2>5 DEF ReactorEnd
<1> QED BY <1>1, <1>2, <1>3, <1>6, <1>8, <1>9, BatchKept

LEMMA LateResetKeeps == ASSUME ReactorInv, NEW c \in Clients, LateReset(c) PROVE ReactorInv'
<1> USE DEF ReactorInv
<1>1. /\ UNCHANGED <<alive, batch, sate, watch, sock, backlog, inq, pipe, got, asked, client>>
      /\ cut' = [cut EXCEPT ![c] = "broken"] /\ cut[c] = "crossing"
  BY DEF LateReset, server, clientVars
<1>2. ReactorTypes'
  BY <1>1 DEF ReactorTypes, Cuts
<1>3. ReactorApart'
  BY <1>1 DEF ReactorApart, Queued
<1>4. ReactorFlow'
  BY <1>1 DEF ReactorFlow, ReactorTypes, Queued, Sent, ReactorNext
<1>5. ReactorCounts'
  BY <1>1 DEF ReactorCounts, Sent, Due
<1>6. ReactorEnd'
  BY <1>1 DEF ReactorEnd, ReactorTypes
<1> QED BY <1>1, <1>2, <1>3, <1>4, <1>5, <1>6, BatchKept

-----------------------------------------------------------------------------
(* The loop of reactor.c.                                                  *)

LEMMA ReactorWait == ASSUME ReactorInv, Wait PROVE ReactorInv'
<1> USE DEF ReactorInv
<1> DEFINE ready == {f \in Fds : Ready(f) # {}}
<1>1. PICK order \in SetToSeqs(ready) :
         batch' = [k \in DOMAIN order |->
                     [fd |-> order[k], ev |-> Ready(order[k]), who |-> Owner(order[k])]]
  BY Zenon DEF Wait
<1>2. UNCHANGED <<alive, sate, watch, sock, backlog, inq, cut, pipe, got, asked, client>>
  BY DEF Wait, kernel, clientVars
<1>3. IsFiniteSet(ready)
  <2>1. IsFiniteSet(Fds)
    BY ReactorAssumption, FS_AddElement DEF Fds
  <2> QED BY <2>1, FS_Subset
<1>4. /\ order \in Seq(ready) /\ DOMAIN order = 1 .. Len(order)
      /\ \A k, l \in 1 .. Len(order) : order[k] = order[l] => k = l
  <2> HIDE DEF ready
  <2> QED BY <1>1, <1>3, OrderIs
<1>5. ASSUME NEW f \in ready
      PROVE  /\ f \in ConnFds \cup {Listener}
             /\ f = Listener => Owner(f) = NULL /\ Ready(f) = {"IN"} /\ backlog # <<>>
             /\ f # Listener => /\ sock[f] # NULL /\ sock[f] \in Clients /\ Owner(f) = sock[f]
                                /\ Ready(f) = watch[f] /\ watch[f] \in {{"IN"}, {"OUT"}}
  <2>1. f \in ConnFds \cup {Listener} /\ Ready(f) # {} /\ Ready(f) \subseteq watch[f]
    BY DEF Fds, Ready
  <2>2. CASE f = Listener
    <3>1. watch[f] = {"IN"}
      BY <2>2 DEF ReactorTypes
    <3>2. Ready(f) = {"IN"}
      BY <2>1, <3>1
    <3>3. backlog # <<>>
      BY <2>2, <3>2 DEF Ready, Readable
    <3> QED BY <2>1, <2>2, <3>2, <3>3 DEF Owner
  <2>3. CASE f # Listener
    <3>1. f \in ConnFds /\ watch[f] # {}
      BY <2>1, <2>3
    <3>2. sock[f] # NULL /\ watch[f] \in {{"IN"}, {"OUT"}}
      BY <3>1 DEF ReactorApart
    <3>3. Ready(f) = watch[f]
      <4> PICK w \in {{"IN"}, {"OUT"}} : w = watch[f]
        BY <3>2
      <4> QED BY <2>1
    <3>4. sock[f] \in Clients
      BY <3>1, <3>2 DEF ReactorTypes
    <3> QED BY <2>1, <2>3, <3>2, <3>3, <3>4 DEF Owner
  <2> QED BY <2>2, <2>3
<1>6. ASSUME NEW k \in 1 .. Len(order)
      PROVE  /\ order[k] \in ready
             /\ [fd |-> order[k], ev |-> Ready(order[k]), who |-> Owner(order[k])] \in ReactorEvents
  <2>1. order[k] \in ready
    <3> HIDE DEF ready
    <3> QED BY <1>4
  <2>2. /\ order[k] \in ConnFds \cup {Listener} /\ Ready(order[k]) \in {{"IN"}, {"OUT"}}
        /\ Owner(order[k]) \in Clients \cup {NULL}
    <3> PICK f \in ready : f = order[k]
      BY <2>1
    <3> HIDE DEF ready
    <3>1. CASE f = Listener
      BY <1>5, <3>1
    <3>2. CASE f # Listener
      BY <1>5, <3>2
    <3> QED BY <3>1, <3>2
  <2> QED BY <2>1, <2>2 DEF ReactorEvents
<1> HIDE DEF ready
<1>7. /\ batch' \in Seq(ReactorEvents) /\ Len(batch') = Len(order)
      /\ \A k \in 1 .. Len(order) : /\ batch'[k].fd = order[k] /\ batch'[k].ev = Ready(order[k])
                                    /\ batch'[k].who = Owner(order[k])
  BY <1>1, <1>4, <1>6
<1>8. ReactorBatch'
  <2>1. \A k, l \in 1 .. Len(batch') : batch'[k].fd = batch'[l].fd => k = l
    BY <1>4, <1>7
  <2>2. ASSUME NEW k \in 1 .. Len(batch')
        PROVE  (IF batch[k].fd = Listener
                THEN batch[k].who = NULL /\ batch[k].ev = {"IN"} /\ backlog # <<>>
                ELSE /\ sock[batch[k].fd] # NULL /\ sock[batch[k].fd] = batch[k].who
                     /\ batch[k].ev = watch[batch[k].fd])'
    <3>1. PICK f \in ready : /\ batch'[k].fd = f /\ batch'[k].ev = Ready(f)
                             /\ batch'[k].who = Owner(f)
      BY <1>6, <1>7
    <3> QED BY <1>2, <1>5, <3>1
  <2> QED BY <1>7, <2>1, <2>2 DEF ReactorBatch
<1>9. ReactorTypes' /\ ReactorApart'
  <2>1. ReactorTypes'
    BY <1>2 DEF ReactorTypes
  <2>2. ReactorApart'
    BY <1>2 DEF ReactorApart, Queued
  <2> QED BY <2>1, <2>2
<1>10. ReactorFlow'
  BY <1>2 DEF ReactorFlow, Queued, Sent, ReactorNext
<1>11. ReactorCounts' /\ ReactorEnd'
  BY <1>2 DEF ReactorCounts, Sent, Due, ReactorEnd
<1> QED BY <1>8, <1>9, <1>10, <1>11

\* The event at the head is handled; of the descriptors of the others none is closed,
\* given to another client or watched for something else.
LEMMA ReactorTurn ==
    ASSUME ReactorTypes, ReactorBatch, NEW f \in ConnFds \cup {Listener}, NEW e,
           batch # <<>>, Head(batch).fd = f, e \in Head(batch).ev, batch' = Handled(e),
           f = Listener \/ backlog' = backlog,
           \A g \in ConnFds : g # f /\ sock[g] # NULL => sock'[g] = sock[g] /\ watch'[g] = watch[g]
    PROVE  /\ ReactorBatch'
           /\ f = Listener => backlog # <<>>
           /\ f # Listener => sock[f] # NULL /\ sock[f] \in Clients /\ Head(batch).ev = watch[f]
<1>1. batch \in Seq(ReactorEvents)
  BY DEF ReactorBatch
<1>2. /\ Tail(batch) \in Seq(ReactorEvents) /\ Head(batch) = batch[1] /\ 1 \in 1 .. Len(batch)
      /\ \A k \in 1 .. Len(Tail(batch)) : /\ k + 1 \in 1 .. Len(batch)
                                          /\ Tail(batch)[k] = batch[k + 1] /\ k + 1 # 1
  BY <1>1, RestOfBatch
<1>3. batch' = Tail(batch)
  <2>1. Head(batch).ev \in {{"IN"}, {"OUT"}}
    <3>1. Head(batch) \in ReactorEvents
      BY <1>1, <1>2
    <3> QED BY <3>1 DEF ReactorEvents
  <2>2. Head(batch).ev \ {e} = {}
    BY <2>1
  <2> QED BY <2>2 DEF Handled
<1>4. ASSUME NEW k \in 1 .. Len(batch')
      PROVE  batch'[k].fd # f /\ batch'[k].fd \in ConnFds \cup {Listener}
  <2>1. batch[k + 1].fd # batch[1].fd
    BY <1>2, <1>3 DEF ReactorBatch
  <2>2. batch[k + 1] \in ReactorEvents
    BY <1>1, <1>2, <1>3
  <2> QED BY <1>2, <1>3, <2>1, <2>2 DEF ReactorEvents
<1>5. ASSUME NEW k \in 1 .. Len(batch'), NEW l \in 1 .. Len(batch'), batch'[k].fd = batch'[l].fd
      PROVE  k = l
  <2>1. k + 1 = l + 1
    BY <1>2, <1>3, <1>5 DEF ReactorBatch
  <2> QED BY <2>1
<1>6. ASSUME NEW k \in 1 .. Len(batch')
      PROVE  (IF batch[k].fd = Listener
              THEN batch[k].who = NULL /\ batch[k].ev = {"IN"} /\ backlog # <<>>
              ELSE /\ sock[batch[k].fd] # NULL /\ sock[batch[k].fd] = batch[k].who
                   /\ batch[k].ev = watch[batch[k].fd])'
  <2>1. IF batch'[k].fd = Listener
        THEN batch'[k].who = NULL /\ batch'[k].ev = {"IN"} /\ backlog # <<>>
        ELSE /\ sock[batch'[k].fd] # NULL /\ sock[batch'[k].fd] = batch'[k].who
             /\ batch'[k].ev = watch[batch'[k].fd]
    BY <1>2, <1>3 DEF ReactorBatch
  <2> QED BY <1>4, <2>1
<1>7. ReactorBatch'
  BY <1>2, <1>3, <1>5, <1>6 DEF ReactorBatch
<1>8. /\ f = Listener => backlog # <<>>
      /\ f # Listener => sock[f] # NULL /\ Head(batch).ev = watch[f]
  BY <1>2 DEF ReactorBatch
<1>9. f # Listener => sock[f] \in Clients
  BY <1>8 DEF ReactorTypes
<1> QED BY <1>7, <1>8, <1>9

\* accept_cb: the client at the head of the backlog has nothing sent.
LEMMA ReactorAccept == ASSUME ReactorInv, Accept PROVE ReactorInv'
<1> USE ClientsAre, FewFdsAre DEF ReactorInv
<1> DEFINE c == Head(backlog)
<1>1. PICK f \in ConnFds : /\ sock[f] = NULL /\ sock' = [sock EXCEPT ![f] = c]
                           /\ watch' = [watch EXCEPT ![f] = {"IN"}]
  BY DEF Accept, Watch
<1>2. /\ UNCHANGED <<alive, sate, inq, cut, pipe, got, asked, client>> /\ backlog' = Tail(backlog)
      /\ batch # <<>> /\ Head(batch).fd = Listener /\ "IN" \in Head(batch).ev
      /\ batch' = Handled("IN")
  BY DEF Accept, OnIn, clientVars
<1>3. \A g \in ConnFds : g # f => sock'[g] = sock[g] /\ watch'[g] = watch[g]
  BY <1>1 DEF ReactorTypes
<1>4. ReactorBatch' /\ backlog # <<>>
  BY <1>1, <1>2, <1>3, ReactorTurn
<1>5. /\ backlog' \in Seq(Clients) /\ Queued' = Queued \ {c} /\ c \in Queued /\ c \in Clients
      /\ \A k, l \in 1 .. Len(backlog') : backlog'[k] = backlog'[l] => k = l
  BY <1>2, <1>4, QueueShrinks
<1> HIDE DEF c
<1>6. ReactorTypes'
  <2>1. sock' \in [ConnFds -> Clients \cup {NULL}]
    BY <1>1, <1>5 DEF ReactorTypes
  <2>2. /\ watch' \in [ConnFds \cup {Listener} -> SUBSET {"IN", "OUT"}]
        /\ watch'[Listener] = {"IN"}
    BY <1>1 DEF ReactorTypes
  <2> QED BY <1>2, <1>5, <2>1, <2>2 DEF ReactorTypes
<1>7. sock'[f] = c /\ watch'[f] = {"IN"} /\ c # NULL
  BY <1>1, <1>5 DEF ReactorTypes
<1>8. ReactorApart'
  <2>1. \A g \in ConnFds : sock[g] # c
    BY <1>5, <1>7 DEF ReactorApart
  <2>2. \A g, h \in ConnFds : sock'[g] = sock'[h] /\ sock'[g] # NULL => g = h
    BY <1>3, <1>7, <2>1 DEF ReactorApart
  <2>3. \A g \in ConnFds : sock'[g] # NULL => sock'[g] \notin Queued' /\ client'[sock'[g]] # "away"
    BY <1>2, <1>3, <1>5, <1>7 DEF ReactorApart
  <2>4. \A d \in Queued' : client'[d] # "away"
    BY <1>2, <1>5 DEF ReactorApart
  <2>5. \A g \in ConnFds : IF sock'[g] = NULL THEN watch'[g] = {} ELSE watch'[g] \in {{"IN"}, {"OUT"}}
    BY <1>3, <1>7 DEF ReactorApart
  <2> QED BY <1>5, <2>2, <2>3, <2>4, <2>5 DEF ReactorApart
<1>9. \A d : Sent(d)' = Sent(d)
  BY <1>2 DEF Sent
<1>10. Sent(c) = 0
  <2>1. got[c] = <<>> /\ pipe[c] = <<>>
    BY <1>5 DEF ReactorFlow
  <2> QED BY <2>1 DEF Sent
<1>11. ReactorFlow'
  <2>1. \A d \in Clients : (Whole(got[d] \o pipe[d]) /\ 2 * Cardinality(Bodies(got[d])) <= Len(got[d]))'
    BY <1>2 DEF ReactorFlow
  <2>2. \A d \in Clients : (client[d] = "away" \/ d \in Queued => got[d] = <<>> /\ pipe[d] = <<>>)'
    BY <1>2, <1>5 DEF ReactorFlow
  <2>3. ASSUME NEW g \in ConnFds, sock'[g] # NULL, cut'[sock'[g]] = "no"
        PROVE  (Part(Sent(sock[g]) + 1) = ReactorNext(g))'
    <3>1. CASE g = f
      <4>1. Part(Sent(c) + 1) = "header"
        BY <1>10, PartsTurn
      <4>2. ReactorNext(f)' = "header"
        BY <1>7 DEF ReactorNext
      <4>3. Part(Sent(sock[f]) + 1)' = Part(Sent(c) + 1)
        BY <1>2, <1>7 DEF Part, Sent
      <4> QED BY <3>1, <4>1, <4>2, <4>3
    <3>2. CASE g # f
      <4>1. Part(Sent(sock[g]) + 1) = ReactorNext(g)
        BY <1>2, <1>3, <2>3, <3>2 DEF ReactorFlow
      <4> QED BY <1>2, <1>3, <3>2, <4>1 DEF ReactorNext, Part, Sent
    <3> QED BY <3>1, <3>2
  <2> QED BY <2>1, <2>2, <2>3 DEF ReactorFlow
<1>12. ReactorCounts'
  <2>1. \A d \in Clients : (Sent(d) + 2 * inq[d] <= 2 * asked[d])'
    BY <1>2, <1>9 DEF ReactorCounts
  <2>2. ASSUME NEW g \in ConnFds, sock'[g] # NULL
        PROVE  (Sent(sock[g]) + 2 * inq[sock[g]] + Due(g) <= 2 * asked[sock[g]])'
    <3>1. CASE g = f
      <4>1. Due(f)' = 0
        BY <1>7 DEF Due
      <4>2. Sent(c) \in Nat /\ inq[c] \in Nat /\ Sent(c) + 2 * inq[c] <= 2 * asked[c]
        BY <1>5, StreamsAre DEF ReactorTypes, ReactorCounts
      <4>3. Sent(c) + 2 * inq[c] + 0 <= 2 * asked[c]
        BY <4>2
      <4> QED BY <1>2, <1>7, <3>1, <4>1, <4>3 DEF Sent
    <3>2. CASE g # f
      <4>1. Sent(sock[g]) + 2 * inq[sock[g]] + Due(g) <= 2 * asked[sock[g]]
        BY <1>3, <2>2, <3>2 DEF ReactorCounts
      <4> QED BY <1>2, <1>3, <3>2, <4>1 DEF Sent, Due
    <3> QED BY <3>1, <3>2
  <2> QED BY <2>1, <2>2 DEF ReactorCounts
<1>13. ReactorEnd'
  BY <1>2 DEF ReactorEnd
<1> QED BY <1>4, <1>6, <1>8, <1>11, <1>12, <1>13

LEMMA ReactorAcceptFails == ASSUME ReactorInv, AcceptFails PROVE ReactorInv'
<1> USE DEF ReactorInv
<1>1. /\ UNCHANGED <<alive, sate, watch, sock, backlog, inq, cut, pipe, got, asked, client>>
      /\ batch # <<>> /\ Head(batch).fd = Listener /\ "IN" \in Head(batch).ev
      /\ batch' = Handled("IN")
  BY DEF AcceptFails, OnIn, kernel, clientVars
<1>2. ReactorBatch'
  BY <1>1, ReactorTurn
<1>3. ReactorTypes'
  BY <1>1 DEF ReactorTypes
<1>4. ReactorApart'
  BY <1>1 DEF ReactorApart, Queued
<1>5. ReactorFlow'
  BY <1>1 DEF ReactorFlow, Queued, Sent, ReactorNext
<1>6. ReactorCounts' /\ ReactorEnd'
  BY <1>1 DEF ReactorCounts, Sent, Due, ReactorEnd
<1> QED BY <1>2, <1>3, <1>4, <1>5, <1>6

\* recv_cb: the requests read become two parts to send.
LEMMA ReactorRecv == ASSUME ReactorInv, NEW f \in ConnFds, Recv(f) PROVE ReactorInv'
<1> USE ClientsAre, FewFdsAre DEF ReactorInv
<1>1. /\ UNCHANGED <<alive, sock, backlog, cut, pipe, got, asked, client>>
      /\ inq[sock[f]] > 0 /\ inq' = [inq EXCEPT ![sock[f]] = 0]
      /\ watch' = [watch EXCEPT ![f] = {"OUT"}] /\ sate' = [sate EXCEPT ![f] = 0]
      /\ batch # <<>> /\ Head(batch).fd = f /\ "IN" \in Head(batch).ev
      /\ batch' = Handled("IN")
  BY DEF Recv, OnIn, clientVars, Watch, http_request
<1>2. \A g \in ConnFds : g # f => sock'[g] = sock[g] /\ watch'[g] = watch[g] /\ sate'[g] = sate[g]
  BY <1>1 DEF ReactorTypes
<1>3. ReactorBatch' /\ sock[f] # NULL /\ sock[f] \in Clients /\ Head(batch).ev = watch[f]
  BY <1>1, <1>2, ReactorTurn
<1>4. PICK c \in Clients : c = sock[f] /\ c = sock'[f] /\ c # NULL
  BY <1>1, <1>3
<1>5. watch[f] = {"IN"} /\ watch'[f] = {"OUT"} /\ sate'[f] = 0
  BY <1>1, <1>3 DEF ReactorApart, ReactorTypes
<1>6. /\ inq'[c] = 0 /\ inq[c] \in Nat /\ inq[c] > 0
      /\ \A d \in Clients : d # c => inq'[d] = inq[d]
  BY <1>1, <1>4 DEF ReactorTypes
<1>7. ReactorTypes'
  <2>1. /\ watch' \in [ConnFds \cup {Listener} -> SUBSET {"IN", "OUT"}]
        /\ watch'[Listener] = {"IN"}
    BY <1>1 DEF ReactorTypes
  <2>2. inq' \in [Clients -> Nat]
    BY <1>1 DEF ReactorTypes
  <2>3. sate' \in [ConnFds -> 0 .. 2]
    <3>1. 0 \in 0 .. 2
      OBVIOUS
    <3> QED BY <1>1, <3>1 DEF ReactorTypes
  <2> QED BY <1>1, <2>1, <2>2, <2>3 DEF ReactorTypes
<1>8. ReactorApart'
  <2>1. Queued' = Queued
    BY <1>1 DEF Queued
  <2>2. \A g \in ConnFds : IF sock'[g] = NULL THEN watch'[g] = {} ELSE watch'[g] \in {{"IN"}, {"OUT"}}
    BY <1>1, <1>2, <1>4, <1>5 DEF ReactorApart
  <2> QED BY <1>1, <2>1, <2>2 DEF ReactorApart
<1>9. ReactorFlow'
  <2>1. Queued' = Queued
    BY <1>1 DEF Queued
  <2>2. ASSUME NEW g \in ConnFds, sock'[g] # NULL, cut'[sock'[g]] = "no"
        PROVE  (Part(Sent(sock[g]) + 1) = ReactorNext(g))'
    <3>1. Part(Sent(sock[g]) + 1) = ReactorNext(g)
      BY <1>1, <2>2 DEF ReactorFlow
    <3>2. ReactorNext(g)' = ReactorNext(g)
      BY <1>2, <1>5 DEF ReactorNext
    <3>3. (Part(Sent(sock[g]) + 1))' = Part(Sent(sock[g]) + 1)
      BY <1>1 DEF Part, Sent
    <3> QED BY <3>1, <3>2, <3>3
  <2> QED BY <1>1, <2>1, <2>2 DEF ReactorFlow
<1>10. ReactorCounts'
  <2>1. \A d \in Clients : /\ Sent(d) \in Nat /\ inq[d] \in Nat /\ asked[d] \in Nat
                           /\ inq'[d] \in Nat /\ inq'[d] <= inq[d]
    <3>1. \A d \in Clients : Sent(d) \in Nat
      BY StreamsAre, Zenon
    <3>2. \A d \in Clients : inq[d] \in Nat /\ asked[d] \in Nat
      BY DEF ReactorTypes
    <3> QED BY <1>6, <3>1, <3>2
  <2>2. \A d \in Clients : Sent(d) + 2 * inq'[d] <= 2 * asked[d]
    BY <2>1 DEF ReactorCounts
  <2>3. ASSUME NEW g \in ConnFds, sock'[g] # NULL
        PROVE  (Sent(sock[g]) + 2 * inq[sock[g]] + Due(g) <= 2 * asked[sock[g]])'
    <3>1. CASE g = f
      <4>1. Due(f)' = 2
        BY <1>5 DEF Due
      <4>2. Sent(c) + 2 * inq'[c] + 2 <= 2 * asked[c]
        BY <1>6, <2>1 DEF ReactorCounts
      <4> QED BY <1>1, <1>4, <3>1, <4>1, <4>2 DEF Sent
    <3>2. CASE g # f
      <4>1. PICK d \in Clients : d = sock[g] /\ d = sock'[g] /\ d # c
        BY <1>1, <1>4, <2>3, <3>2 DEF ReactorApart, ReactorTypes
      <4>2. Sent(d) + 2 * inq[d] + Due(g) <= 2 * asked[d]
        BY <2>3, <4>1 DEF ReactorCounts
      <4>3. inq'[d] = inq[d] /\ Due(g)' = Due(g) /\ Sent(d)' = Sent(d) /\ asked' = asked
        BY <1>1, <1>2, <1>6, <3>2, <4>1 DEF Due, Sent
      <4>4. (Sent(sock[g]))' = Sent(d)'
        BY <4>1 DEF Sent
      <4> QED BY <4>1, <4>2, <4>3, <4>4
    <3> QED BY <3>1, <3>2
  <2>4. \A d : Sent(d)' = Sent(d)
    BY <1>1 DEF Sent
  <2> QED BY <1>1, <2>2, <2>3, <2>4 DEF ReactorCounts
<1>11. ReactorEnd'
  BY <1>1 DEF ReactorEnd
<1> QED BY <1>3, <1>7, <1>8, <1>9, <1>10, <1>11

LEMMA ReactorHangUp == ASSUME ReactorInv, NEW f \in ConnFds, HangUp(f) PROVE ReactorInv'
<1> USE ClientsAre, FewFdsAre DEF ReactorInv
<1>1. /\ UNCHANGED <<alive, sate, backlog, inq, cut, pipe, got, asked, client>>
      /\ sock' = [sock EXCEPT ![f] = NULL] /\ watch' = [watch EXCEPT ![f] = {}]
      /\ batch # <<>> /\ Head(batch).fd = f /\ "IN" \in Head(batch).ev
      /\ batch' = Handled("IN")
  BY DEF HangUp, OnIn, clientVars
<1>2. /\ sock'[f] = NULL /\ watch'[f] = {}
      /\ \A g \in ConnFds : g # f => sock'[g] = sock[g] /\ watch'[g] = watch[g]
  BY <1>1 DEF ReactorTypes
<1>3. ReactorBatch'
  BY <1>1, <1>2, ReactorTurn
<1>4. ReactorTypes'
  <2>1. /\ watch' \in [ConnFds \cup {Listener} -> SUBSET {"IN", "OUT"}]
        /\ watch'[Listener] = {"IN"}
    BY <1>1 DEF ReactorTypes
  <2>2. sock' \in [ConnFds -> Clients \cup {NULL}]
    BY <1>1 DEF ReactorTypes
  <2> QED BY <1>1, <2>1, <2>2 DEF ReactorTypes
<1>5. Queued' = Queued /\ \A d : Sent(d)' = Sent(d)
  BY <1>1 DEF Queued, Sent
<1>6. ReactorApart'
  BY <1>1, <1>2, <1>5 DEF ReactorApart
<1>7. ReactorFlow'
  <2>1. ASSUME NEW g \in ConnFds, sock'[g] # NULL, cut'[sock'[g]] = "no"
        PROVE  (Part(Sent(sock[g]) + 1) = ReactorNext(g))'
    <3>1. Part(Sent(sock[g]) + 1) = ReactorNext(g)
      BY <1>1, <1>2, <2>1 DEF ReactorFlow
    <3> QED BY <1>1, <1>2, <2>1, <3>1 DEF ReactorNext, Part, Sent
  <2> QED BY <1>1, <1>5, <2>1 DEF ReactorFlow
<1>8. ReactorCounts'
  <2>1. ASSUME NEW g \in ConnFds, sock'[g] # NULL
        PROVE  (Sent(sock[g]) + 2 * inq[sock[g]] + Due(g) <= 2 * asked[sock[g]])'
    <3>1. Sent(sock[g]) + 2 * inq[sock[g]] + Due(g) <= 2 * asked[sock[g]]
      BY <1>2, <2>1 DEF ReactorCounts
    <3> QED BY <1>1, <1>2, <2>1, <3>1 DEF Sent, Due
  <2> QED BY <1>1, <1>5, <2>1 DEF ReactorCounts
<1>9. ReactorEnd'
  BY <1>1 DEF ReactorEnd
<1> QED BY <1>3, <1>4, <1>6, <1>7, <1>8, <1>9

\* A stream and its next part.
LEMMA PartFollows ==
    ASSUME ReactorTypes, NEW c \in Clients, NEW part \in Parts
    PROVE  /\ Len(got[c]) + Len(Append(pipe[c], part)) = Sent(c) + 1
           /\ (Whole(got[c] \o pipe[c]) /\ part = Part(Sent(c) + 1)) =>
                  Whole(got[c] \o Append(pipe[c], part))
<1>1. got[c] \in Seq(Parts) /\ pipe[c] \in Seq(Parts)
  BY StreamsAre
<1>2. Len(got[c]) + Len(Append(pipe[c], part)) = (Len(got[c]) + Len(pipe[c])) + 1
  BY <1>1, LengthAppend, Zenon
<1>3. (Whole(got[c] \o pipe[c]) /\ part = Part(Len(got[c]) + Len(pipe[c]) + 1)) =>
         Whole(got[c] \o Append(pipe[c], part))
  BY <1>1, WholeAppend, Zenon
<1> QED BY <1>2, <1>3, Zenon DEF Sent

\* send_cb: a part goes out in its turn, or to a client that is not there to take it.
LEMMA ReactorSend ==
    ASSUME ReactorInv, NEW f \in ConnFds, OnOut(f), NEW part \in Parts, NEW n \in 1 .. 2,
           NEW w \in {{"IN"}, {"OUT"}}, Write(sock[f], part),
           sate' = [sate EXCEPT ![f] = n], watch' = [watch EXCEPT ![f] = w],
           UNCHANGED <<sock, backlog, inq, got, asked, client>>,
           \/ part = "header" /\ sate[f] = 0 /\ n = 1 /\ w = {"OUT"}
           \/ part = "body" /\ sate[f] = 1 /\ n = 2 /\ w = {"IN"}
    PROVE  ReactorInv'
<1> USE ClientsAre, FewFdsAre DEF ReactorInv
<1>1. /\ alive /\ batch # <<>> /\ Head(batch).fd = f /\ Head(batch).ev = {"OUT"}
      /\ "OUT" \in Head(batch).ev /\ batch' = Handled("OUT")
  BY DEF OnOut
<1>2. \A g \in ConnFds : g # f => sock'[g] = sock[g] /\ watch'[g] = watch[g] /\ sate'[g] = sate[g]
  BY DEF ReactorTypes
<1>3. ReactorBatch' /\ sock[f] # NULL /\ sock[f] \in Clients /\ Head(batch).ev = watch[f]
  BY <1>1, <1>2, ReactorTurn
<1>4. PICK c \in Clients : c = sock[f] /\ c = sock'[f] /\ c # NULL
  BY <1>3
<1>5. watch[f] = {"OUT"} /\ watch'[f] = w /\ sate'[f] = n
  BY <1>1, <1>3 DEF ReactorTypes
<1>6. /\ pipe' = [pipe EXCEPT ![c] = IF cut[c] = "no" THEN Append(@, part) ELSE @]
      /\ cut' = [cut EXCEPT ![c] = CASE @ = "fin" -> "crossing" [] @ = "reset" -> "broken"
                                    [] OTHER -> @]
      /\ alive' = (cut[c] # "broken")
  BY <1>4 DEF Write
<1>7. /\ \A d \in Clients : d # c => pipe'[d] = pipe[d] /\ cut'[d] = cut[d]
      /\ cut'[c] \in Cuts /\ (cut'[c] = "no" <=> cut[c] = "no")
  BY <1>6 DEF ReactorTypes, Cuts
<1>8. /\ cut[c] = "no" => pipe'[c] = Append(pipe[c], part)
      /\ cut[c] # "no" => pipe'[c] = pipe[c]
  BY <1>6 DEF ReactorTypes
<1>9. /\ got[c] \in Seq(Parts) /\ pipe[c] \in Seq(Parts) /\ Len(got[c]) \in Nat
      /\ Sent(c) \in Nat /\ Len(got[c]) <= Sent(c)
  BY StreamsAre
<1>10. Sent(c)' = IF cut[c] = "no" THEN Sent(c) + 1 ELSE Sent(c)
  <2>1. Len(got[c]) + Len(Append(pipe[c], part)) = Sent(c) + 1
    BY PartFollows
  <2>2. CASE cut[c] = "no"
    <3>1. Sent(c)' = Sent(c) + 1
      BY <1>8, <2>1, <2>2, Zenon DEF Sent
    <3> QED BY <2>2, <3>1
  <2>3. CASE cut[c] # "no"
    <3>1. Sent(c)' = Sent(c)
      BY <1>8, <2>3, Zenon DEF Sent
    <3> QED BY <2>3, <3>1
  <2> QED BY <2>2, <2>3
<1>11. \A d \in Clients : d # c => Sent(d)' = Sent(d)
  BY <1>7 DEF Sent
<1>12. /\ ReactorNext(f) = part /\ ReactorNext(f)' \in Parts /\ ReactorNext(f)' # part
       /\ Due(f) \in Nat /\ Due(f) > 0 /\ Due(f)' = Due(f) - 1
  BY <1>5 DEF ReactorNext, Due, Parts
<1>13. ReactorTypes'
  <2>1. /\ watch' \in [ConnFds \cup {Listener} -> SUBSET {"IN", "OUT"}]
        /\ watch'[Listener] = {"IN"}
    BY DEF ReactorTypes
  <2>2. sate' \in [ConnFds -> 0 .. 2]
    BY DEF ReactorTypes
  <2>3. pipe' \in [Clients -> Seq(Parts)]
    <3>1. Append(pipe[c], part) \in Seq(Parts)
      BY <1>9
    <3> QED BY <1>6, <1>9, <3>1 DEF ReactorTypes
  <2>4. cut' \in [Clients -> Cuts]
    BY <1>6, <1>7 DEF ReactorTypes
  <2>5. alive' \in BOOLEAN
    BY <1>6
  <2> QED BY <2>1, <2>2, <2>3, <2>4, <2>5 DEF ReactorTypes
<1>14. ReactorApart'
  <2>1. Queued' = Queued
    BY DEF Queued
  <2>2. \A g \in ConnFds : IF sock'[g] = NULL THEN watch'[g] = {} ELSE watch'[g] \in {{"IN"}, {"OUT"}}
    BY <1>2, <1>4, <1>5 DEF ReactorApart
  <2> QED BY <2>1, <2>2 DEF ReactorApart
<1>15. ReactorFlow'
  <2>1. cut[c] = "no" => Part(Sent(c) + 1) = part
    BY <1>4, <1>12 DEF ReactorFlow
  <2>2. ASSUME NEW d \in Clients
        PROVE  (Whole(got[d] \o pipe[d]) /\ 2 * Cardinality(Bodies(got[d])) <= Len(got[d]))'
    <3>1. Whole(got[d] \o pipe[d]) /\ 2 * Cardinality(Bodies(got[d])) <= Len(got[d])
      BY DEF ReactorFlow
    <3>2. CASE d = c /\ cut[c] = "no"
      <4>1. Whole(got[c] \o pipe[c]) /\ part = Part(Sent(c) + 1)
        BY <2>1, <3>1, <3>2
      <4>2. Whole(got[c] \o Append(pipe[c], part))
        BY <4>1, PartFollows
      <4> QED BY <1>8, <3>1, <3>2, <4>2
    <3>3. CASE ~(d = c /\ cut[c] = "no")
      BY <1>7, <1>8, <3>1, <3>3
    <3> QED BY <3>2, <3>3
  <2>3. Queued' = Queued /\ c \notin Queued /\ client[c] # "away"
    BY <1>4 DEF Queued, ReactorApart
  <2>4. \A d \in Clients : (client[d] = "away" \/ d \in Queued => got[d] = <<>> /\ pipe[d] = <<>>)'
    BY <1>7, <2>3 DEF ReactorFlow
  <2>5. ASSUME NEW g \in ConnFds, sock'[g] # NULL, cut'[sock'[g]] = "no"
        PROVE  (Part(Sent(sock[g]) + 1) = ReactorNext(g))'
    <3>1. CASE g = f
      <4>1. Sent(c)' = Sent(c) + 1 /\ cut[c] = "no"
        BY <1>4, <1>7, <1>10, <2>5, <3>1
      <4>2. Part((Sent(c) + 1) + 1) \in Parts /\ Part((Sent(c) + 1) + 1) # part
        <5>1. Sent(c) + 1 \in Nat
          BY <1>9
        <5> QED BY <2>1, <4>1, <5>1, PartsTurn
      <4>3. Part((Sent(c) + 1) + 1) = ReactorNext(f)'
        BY <1>12, <4>2 DEF Parts
      <4>4. (Part(Sent(sock[f]) + 1))' = Part((Sent(c) + 1) + 1)
        <5>1. (Sent(sock[f]))' = Sent(c)'
          BY <1>4 DEF Sent
        <5> QED BY <4>1, <5>1 DEF Part
      <4> QED BY <3>1, <4>3, <4>4
    <3>2. CASE g # f
      <4>1. PICK d \in Clients : d = sock[g] /\ d = sock'[g] /\ d # c
        BY <1>4, <2>5, <3>2 DEF ReactorApart, ReactorTypes
      <4>2. Part(Sent(d) + 1) = ReactorNext(g)
        BY <1>7, <2>5, <4>1 DEF ReactorFlow
      <4>3. Sent(d)' = Sent(d) /\ (Sent(sock[g]))' = Sent(d)' /\ ReactorNext(g)' = ReactorNext(g)
        BY <1>2, <1>11, <3>2, <4>1 DEF ReactorNext, Sent
      <4> QED BY <4>2, <4>3 DEF Part
    <3> QED BY <3>1, <3>2
  <2> QED BY <2>2, <2>4, <2>5 DEF ReactorFlow
<1>16. Sent(c) + 2 * inq[c] + Due(f) <= 2 * asked[c] /\ inq[c] \in Nat /\ asked[c] \in Nat
  BY <1>4 DEF ReactorCounts, ReactorTypes
<1>17. Sent(c)' + 2 * inq[c] + Due(f)' <= 2 * asked[c]
  <2>1. Sent(c) \in Nat /\ Due(f)' \in Nat /\ Due(f) = Due(f)' + 1
    BY <1>9, <1>12
  <2>2. Sent(c)' \in Nat /\ Sent(c)' <= Sent(c) + 1
    BY <1>10, <2>1
  <2> HIDE ClientsAre, FewFdsAre DEF ReactorInv
  <2> QED BY <1>16, <2>1, <2>2
<1>18. ReactorCounts'
  <2>1. Sent(c)' + 2 * inq[c] <= 2 * asked[c]
    <3>1. Sent(c)' \in Nat /\ Due(f)' \in Nat
      BY <1>9, <1>10, <1>12
    <3> QED BY <1>16, <1>17, <3>1
  <2>2. \A d \in Clients : (Sent(d) + 2 * inq[d] <= 2 * asked[d])'
    BY <1>11, <2>1 DEF ReactorCounts
  <2>3. ASSUME NEW g \in ConnFds, sock'[g] # NULL
        PROVE  (Sent(sock[g]) + 2 * inq[sock[g]] + Due(g) <= 2 * asked[sock[g]])'
    <3>1. CASE g = f
      <4>1. (Sent(sock[f]))' = Sent(c)'
        BY <1>4 DEF Sent
      <4> QED BY <1>4, <1>17, <3>1, <4>1
    <3>2. CASE g # f
      <4>1. PICK d \in Clients : d = sock[g] /\ d = sock'[g] /\ d # c
        BY <1>4, <2>3, <3>2 DEF ReactorApart, ReactorTypes
      <4>2. Sent(d) + 2 * inq[d] + Due(g) <= 2 * asked[d]
        BY <2>3, <4>1 DEF ReactorCounts
      <4>3. Sent(d)' = Sent(d) /\ (Sent(sock[g]))' = Sent(d)' /\ Due(g)' = Due(g)
        BY <1>2, <1>11, <3>2, <4>1 DEF Due, Sent
      <4> QED BY <4>1, <4>2, <4>3
    <3> QED BY <3>1, <3>2
  <2> QED BY <2>2, <2>3 DEF ReactorCounts
<1>19. ReactorEnd'
  <2>1. Len(got[c]) < 2 * asked[c]
    BY <1>9, <1>12, <1>16
  <2>2. cut'[c] # "no" => client[c] = "left"
    BY <1>7 DEF ReactorEnd
  <2>3. ~alive' => client[c] = "left"
    BY <1>6 DEF ReactorEnd
  <2> QED BY <1>7, <2>1, <2>2, <2>3 DEF ReactorEnd
<1> QED BY <1>3, <1>13, <1>14, <1>15, <1>18, <1>19

LEMMA ReactorStep == ReactorInv /\ [Next]_vars => ReactorInv'
<1> SUFFICES ASSUME ReactorInv, [Next]_vars PROVE ReactorInv'
  OBVIOUS
<1>1. ASSUME NEW c \in Clients, Connect(c) \/ Ask(c) \/ Read(c) \/ Leave(c) \/ LateReset(c)
      PROVE  ReactorInv'
  BY <1>1, ConnectKeeps, AskKeeps, ReadKeeps, LeaveKeeps, LateResetKeeps
<1>2. ASSUME NEW f \in ConnFds, SendHeader(f) PROVE ReactorInv'
  <2>1. /\ OnOut(f) /\ Write(sock[f], "header") /\ sate[f] = 0
        /\ sate' = [sate EXCEPT ![f] = 1] /\ watch' = [watch EXCEPT ![f] = {"OUT"}]
        /\ UNCHANGED <<sock, backlog, inq, got, asked, client>>
    BY <1>2 DEF SendHeader, Watch, clientVars
  <2>2. "header" \in Parts /\ 1 \in 1 .. 2 /\ {"OUT"} \in {{"IN"}, {"OUT"}}
    BY DEF Parts
  <2> QED BY <2>1, <2>2, ReactorSend, Zenon
<1>3. ASSUME NEW f \in ConnFds, SendFile(f) PROVE ReactorInv'
  <2>1. /\ OnOut(f) /\ Write(sock[f], "body") /\ sate[f] = 1
        /\ sate' = [sate EXCEPT ![f] = 2] /\ watch' = [watch EXCEPT ![f] = {"IN"}]
        /\ UNCHANGED <<sock, backlog, inq, got, asked, client>>
    BY <1>3 DEF SendFile, Watch, clientVars
  <2>2. "body" \in Parts /\ 2 \in 1 .. 2 /\ {"IN"} \in {{"IN"}, {"OUT"}}
    BY DEF Parts
  <2> QED BY <2>1, <2>2, ReactorSend, Zenon
<1>4. ASSUME NEW f \in ConnFds, Recv(f) \/ HangUp(f) PROVE ReactorInv'
  BY <1>4, ReactorRecv, ReactorHangUp
<1>5. CASE Wait \/ Accept \/ AcceptFails
  BY <1>5, ReactorWait, ReactorAccept, ReactorAcceptFails
<1>6. CASE UNCHANGED vars
  <2>1. UNCHANGED <<alive, batch, sate, watch, sock, backlog, inq, cut, pipe, got, asked, client>>
    BY <1>6 DEF vars, server, kernel, clientVars
  <2>2. ReactorTypes' /\ ReactorBatch'
    BY <2>1 DEF ReactorInv, ReactorTypes, ReactorBatch
  <2>3. ReactorApart'
    BY <2>1 DEF ReactorInv, ReactorApart, Queued
  <2>5. ReactorFlow'
    BY <2>1 DEF ReactorInv, ReactorFlow, Queued, Sent, ReactorNext
  <2>4. ReactorCounts' /\ ReactorEnd'
    BY <2>1 DEF ReactorInv, ReactorCounts, ReactorEnd, Sent, Due
  <2> QED BY <2>2, <2>3, <2>4, <2>5 DEF ReactorInv
<1> QED BY <1>1, <1>2, <1>3, <1>4, <1>5, <1>6 DEF Next, Server

LEMMA ReactorHolds == ReactorInv => NoStaleDispatch /\ OnlyRudeKills /\ ResponseWhole
<1> SUFFICES ASSUME ReactorInv PROVE NoStaleDispatch /\ OnlyRudeKills /\ ResponseWhole
  OBVIOUS
<1>1. NoStaleDispatch
  <2>1. DOMAIN batch = 1 .. Len(batch)
    BY DEF ReactorInv, ReactorBatch
  <2> QED BY <2>1 DEF ReactorInv, ReactorBatch, NoStaleDispatch, Owner
<1>2. ASSUME NEW c \in Clients, Len(got[c]) < 2 * asked[c] PROVE Answers(c) < asked[c]
  <2>1. got[c] \in Seq(Parts) /\ Len(got[c]) \in Nat /\ asked[c] \in Nat
    BY StreamsAre DEF ReactorInv, ReactorTypes
  <2>2. Answers(c) \in Nat /\ 2 * Answers(c) <= Len(got[c])
    BY <2>1, BodiesAppend DEF Answers, Bodies, ReactorInv, ReactorFlow, Parts
  <2> QED BY <1>2, <2>1, <2>2
<1>3. OnlyRudeKills
  BY <1>2 DEF ReactorInv, ReactorEnd, OnlyRudeKills
<1> QED BY <1>1, <1>3 DEF ReactorInv, ReactorFlow, ResponseWhole

-----------------------------------------------------------------------------
(* io.c: its threads stay apart as long as clientfd is not written under one of *)
(* them.                                                                   *)

\* A descriptor is there where it is used, and no request is read that was not made.
PlaceInv == /\ \A t \in Clients : /\ pc[t] = "start" => clientfd \in MoreFds
                                  /\ t \in Io!Running => fd[t] \in MoreFds
                                  /\ inq[t] <= asked[t]
            /\ created # NULL => clientfd \in MoreFds

\* A client's thread begins once, after the client was accepted.
QueueInv == \A c \in Clients : /\ c \in waiting \/ client[c] = "away" => pc[c] = "none" /\ created # c
                               /\ client[c] = "away" => c \notin waiting
                               /\ created = c => pc[c] = "none"

\* Whoever has a descriptor, or has it to read, is the thread of the client behind it.
OwnInv == ~overwritten => \A t \in Clients : /\ t \in Io!Running => sock[fd[t]] = t
                                             /\ pc[t] = "start" => sock[clientfd] = t /\ created = NULL
                                             /\ created = t => sock[clientfd] = t

\* A request is unread, or with its thread, or answered.
Unsent(c) == IF pc[c] = "send" /\ cut[c] = "no" THEN 1 ELSE 0

AnswerInv == ~overwritten => \A c \in Clients : /\ pc[c] = "send" /\ cut[c] = "no" => buffer[c] = c
                                                /\ \A d \in Clients \ {c} : came[c][d] = 0
                                                /\ came[c][c] + inq[c] + Unsent(c) <= asked[c]

\* A client that is not rude closes after its last answer.
LeaveInv == /\ \A c \in Clients : cut[c] # "no" => client[c] = "left"
            /\ ~overwritten => \A c \in Clients \ Rude : cut[c] # "no" =>
                                   cut[c] = "fin" /\ inq[c] = 0 /\ pc[c] # "send"

IoInv == Io!TypeOK /\ PlaceInv /\ QueueInv /\ OwnInv /\ AnswerInv /\ LeaveInv /\ Io!OnlyRudeKills

LEMMA IoConstants ==
    /\ Rude \subseteq Clients /\ NULL \notin Clients
    /\ MoreFds \subseteq Nat /\ EchoRequests \in Nat
BY ServersAssumption DEF Io!IoAssumption

USE IoConstants

LEMMA IoInit == Io!Init => IoInv
<1> SUFFICES ASSUME Io!Init PROVE IoInv
  OBVIOUS
<1>1. Io!TypeOK
  <2>1. 0 \in 0..EchoRequests
    OBVIOUS
  <2>2. inq \in [Clients -> 0..EchoRequests] /\ asked \in [Clients -> 0..EchoRequests]
    BY <2>1 DEF Io!Init
  <2>3. came \in [Clients -> [Clients \cup {NULL} -> Nat]]
    BY DEF Io!Init
  <2> QED  BY <2>2, <2>3 DEF Io!Init, Io!TypeOK
<1>2. PlaceInv /\ QueueInv /\ OwnInv
  BY DEF Io!Init, PlaceInv, QueueInv, OwnInv, Io!Running
<1>3. AnswerInv
  BY DEF Io!Init, AnswerInv, Unsent
<1>4. LeaveInv /\ Io!OnlyRudeKills
  BY DEF Io!Init, LeaveInv, Io!OnlyRudeKills
<1> QED  BY <1>1, <1>2, <1>3, <1>4 DEF IoInv

-----------------------------------------------------------------------------
(* The clients and the network.                                            *)

LEMMA IoConnect == ASSUME IoInv, NEW c \in Clients, Io!Connect(c) PROVE IoInv'
<1> USE DEF Io!Connect, Io!threadVars
<1>1. Io!TypeOK'
  BY DEF IoInv, Io!TypeOK
<1>2. PlaceInv'
  BY DEF IoInv, PlaceInv, Io!Running
<1>3. QueueInv'
  BY DEF IoInv, Io!TypeOK, QueueInv
<1>4. OwnInv'
  BY DEF IoInv, OwnInv, Io!Running
<1>5. AnswerInv'
  BY DEF IoInv, AnswerInv, Unsent
<1>6. LeaveInv'
  BY DEF IoInv, Io!TypeOK, LeaveInv
<1>7. Io!OnlyRudeKills'
  BY DEF IoInv, Io!OnlyRudeKills
<1> QED  BY <1>1, <1>2, <1>3, <1>4, <1>5, <1>6, <1>7 DEF IoInv

LEMMA IoAsk == ASSUME IoInv, NEW c \in Clients, Io!Ask(c) PROVE IoInv'
<1> USE DEF Io!Ask, Io!threadVars
<1>0. /\ inq \in [Clients -> Nat] /\ asked \in [Clients -> Nat] /\ came \in [Clients -> [Clients \cup {NULL} -> Nat]]
      /\ inq[c] <= asked[c] /\ asked[c] < EchoRequests
  <2>1. \A n \in 0..EchoRequests : n \in Nat
    OBVIOUS
  <2>2. inq \in [Clients -> Nat] /\ asked \in [Clients -> Nat]
    BY <2>1 DEF IoInv, Io!TypeOK
  <2>3. came \in [Clients -> [Clients \cup {NULL} -> Nat]]
    BY DEF IoInv, Io!TypeOK
  <2>4. inq[c] <= asked[c]
    BY DEF IoInv, PlaceInv
  <2> QED  BY <2>2, <2>3, <2>4
<1>1. Io!TypeOK'
  <2>1. inq' \in [Clients -> 0..EchoRequests] /\ asked' \in [Clients -> 0..EchoRequests]
    BY <1>0 DEF IoInv, Io!TypeOK
  <2> QED  BY <2>1 DEF IoInv, Io!TypeOK
<1>2. PlaceInv'
  BY <1>0 DEF IoInv, PlaceInv, Io!Running
<1>3. QueueInv'
  BY DEF IoInv, QueueInv
<1>4. OwnInv'
  BY DEF IoInv, OwnInv, Io!Running
<1>5. AnswerInv'
  BY <1>0 DEF IoInv, AnswerInv, Unsent
<1>6. LeaveInv'
  BY DEF IoInv, Io!TypeOK, LeaveInv
<1>7. Io!OnlyRudeKills'
  BY DEF IoInv, Io!OnlyRudeKills
<1> QED  BY <1>1, <1>2, <1>3, <1>4, <1>5, <1>6, <1>7 DEF IoInv

LEMMA IoLeave == ASSUME IoInv, NEW c \in Clients, Io!Leave(c) PROVE IoInv'
<1> USE DEF Io!threadVars
<1>0. /\ client[c] = "here" /\ (c \in Rude \/ came[c][c] = asked[c])
      /\ client' = [client EXCEPT ![c] = "left"]
      /\ UNCHANGED <<alive, clientfd, created, pc, fd, buffer, sock, waiting, inq, asked, came, overwritten>>
  BY DEF Io!Leave
<1>how. PICK how \in {"fin", "reset"} : cut' = [cut EXCEPT ![c] = how] /\ (c \notin Rude => how = "fin")
  BY DEF Io!Leave
<1>1. Io!TypeOK'
  BY <1>0, <1>how DEF IoInv, Io!TypeOK
<1>2. PlaceInv'
  BY <1>0 DEF IoInv, PlaceInv, Io!Running
<1>3. QueueInv'
  BY <1>0 DEF IoInv, Io!TypeOK, QueueInv
<1>4. OwnInv'
  BY <1>0 DEF IoInv, OwnInv, Io!Running
<1>5. AnswerInv'
  <2>1. \A d \in Clients : Unsent(d)' \in {0, Unsent(d)} /\ (cut'[d] = "no" => cut[d] = "no")
    BY <1>0, <1>how DEF IoInv, Io!TypeOK, Unsent
  <2>2. \A d \in Clients : came[d][d] \in Nat /\ inq[d] \in Nat /\ asked[d] \in Nat /\ Unsent(d) \in Nat
    BY DEF IoInv, Io!TypeOK, Unsent
  <2>3. ASSUME ~overwritten', NEW d \in Clients
        PROVE  came'[d][d] + inq'[d] + Unsent(d)' <= asked'[d]
    BY <1>0, <2>1, <2>2, <2>3 DEF IoInv, AnswerInv
  <2> QED  BY <1>0, <2>1, <2>3 DEF IoInv, AnswerInv
<1>6. LeaveInv'
  <2>1. ASSUME c \notin Rude, ~overwritten PROVE inq[c] = 0 /\ pc[c] # "send"
    <3>1. came[c][c] + inq[c] + Unsent(c) <= asked[c] /\ came[c][c] = asked[c]
      BY <1>0, <2>1 DEF IoInv, AnswerInv
    <3>2. inq[c] \in Nat /\ asked[c] \in Nat /\ cut[c] = "no"
      BY <1>0 DEF IoInv, Io!TypeOK, LeaveInv
    <3> QED  BY <3>1, <3>2 DEF Unsent
  <2> QED  BY <1>0, <1>how, <2>1 DEF IoInv, Io!TypeOK, LeaveInv
<1>7. Io!OnlyRudeKills'
  BY <1>0 DEF IoInv, Io!TypeOK, Io!OnlyRudeKills
<1> QED  BY <1>1, <1>2, <1>3, <1>4, <1>5, <1>6, <1>7 DEF IoInv

LEMMA IoLateReset == ASSUME IoInv, NEW c \in Clients, Io!LateReset(c) PROVE IoInv'
<1> USE DEF Io!LateReset, Io!threadVars, Io!clientVars
<1>1. Io!TypeOK'
  BY DEF IoInv, Io!TypeOK
<1>2. PlaceInv'
  BY DEF IoInv, PlaceInv, Io!Running
<1>3. QueueInv'
  BY DEF IoInv, QueueInv
<1>4. OwnInv'
  BY DEF IoInv, OwnInv, Io!Running
<1>5. AnswerInv'
  BY DEF IoInv, Io!TypeOK, AnswerInv, Unsent
<1>6. LeaveInv'
  BY DEF IoInv, Io!TypeOK, LeaveInv
<1>7. Io!OnlyRudeKills'
  BY DEF IoInv, Io!OnlyRudeKills
<1> QED  BY <1>1, <1>2, <1>3, <1>4, <1>5, <1>6, <1>7 DEF IoInv
-----------------------------------------------------------------------------
(* main and the threads.                                                   *)

LEMMA IoAccept == ASSUME IoInv, NEW c \in Clients, Io!Accept(c) PROVE IoInv'
<1> USE DEF Io!threadVars, Io!clientVars
<1>0. /\ created = NULL /\ c \in waiting /\ created' = c /\ waiting' = waiting \ {c}
      /\ overwritten' = (overwritten \/ \E t \in Clients : pc[t] = "start")
      /\ UNCHANGED <<alive, pc, fd, buffer, inq, cut, asked, came, client>>
  BY DEF Io!Accept
<1>f. PICK f \in MoreFds : sock[f] = NULL /\ sock' = [sock EXCEPT ![f] = c] /\ clientfd' = f
  BY DEF Io!Accept
<1>1. Io!TypeOK'
  BY <1>0, <1>f DEF IoInv, Io!TypeOK
<1>2. PlaceInv'
  BY <1>0, <1>f DEF IoInv, PlaceInv, Io!Running
<1>3. QueueInv'
  BY <1>0 DEF IoInv, QueueInv
<1>4. OwnInv'
  <2>1. ASSUME ~overwritten', NEW t \in Clients, t \in Io!Running' PROVE sock'[fd'[t]] = t
    <3>1. t \in Io!Running /\ ~overwritten /\ fd[t] \in MoreFds
      BY <1>0, <2>1 DEF IoInv, PlaceInv, Io!Running
    <3>2. sock[fd[t]] = t
      BY <3>1 DEF IoInv, OwnInv
    <3> QED  BY <1>0, <1>f, <3>1, <3>2 DEF IoInv, Io!TypeOK
  <2>2. sock'[clientfd'] = c
    BY <1>f DEF IoInv, Io!TypeOK
  <2> QED  BY <1>0, <2>1, <2>2 DEF OwnInv
<1>5. AnswerInv'
  BY <1>0 DEF IoInv, AnswerInv, Unsent
<1>6. LeaveInv'
  BY <1>0 DEF IoInv, LeaveInv
<1>7. Io!OnlyRudeKills'
  BY <1>0 DEF IoInv, Io!OnlyRudeKills
<1> QED  BY <1>1, <1>2, <1>3, <1>4, <1>5, <1>6, <1>7 DEF IoInv

LEMMA IoCreate == ASSUME IoInv, Io!Create PROVE IoInv'
<1> USE DEF Io!Create, Io!clientVars
<1>0. created \in Clients /\ created # NULL /\ clientfd \in MoreFds /\ pc[created] = "none"
  BY DEF IoInv, Io!TypeOK, PlaceInv, QueueInv
<1>1. Io!TypeOK'
  BY <1>0 DEF IoInv, Io!TypeOK
<1>2. PlaceInv'
  BY <1>0 DEF IoInv, Io!TypeOK, PlaceInv, Io!Running
<1>3. QueueInv'
  BY <1>0 DEF IoInv, Io!TypeOK, QueueInv
<1>4. OwnInv'
  BY <1>0 DEF IoInv, Io!TypeOK, OwnInv, Io!Running
<1>5. AnswerInv'
  BY <1>0 DEF IoInv, Io!TypeOK, AnswerInv, Unsent
<1>6. LeaveInv'
  BY <1>0 DEF IoInv, Io!TypeOK, LeaveInv
<1>7. Io!OnlyRudeKills'
  BY DEF IoInv, Io!OnlyRudeKills
<1> QED  BY <1>1, <1>2, <1>3, <1>4, <1>5, <1>6, <1>7 DEF IoInv

LEMMA IoStart == ASSUME IoInv, NEW t \in Clients, Io!Start(t) PROVE IoInv'
<1> USE DEF Io!Start, Io!At, Io!Goto, Io!clientVars
<1>0. pc[t] = "start" /\ clientfd \in MoreFds
  BY DEF IoInv, PlaceInv
<1>1. Io!TypeOK'
  BY <1>0 DEF IoInv, Io!TypeOK
<1>2. PlaceInv'
  BY <1>0 DEF IoInv, Io!TypeOK, PlaceInv, Io!Running
<1>3. QueueInv'
  BY <1>0 DEF IoInv, Io!TypeOK, QueueInv
<1>4. OwnInv'
  BY <1>0 DEF IoInv, Io!TypeOK, OwnInv, Io!Running
<1>5. AnswerInv'
  BY <1>0 DEF IoInv, Io!TypeOK, AnswerInv, Unsent
<1>6. LeaveInv'
  BY <1>0 DEF IoInv, Io!TypeOK, LeaveInv
<1>7. Io!OnlyRudeKills'
  BY DEF IoInv, Io!OnlyRudeKills
<1> QED  BY <1>1, <1>2, <1>3, <1>4, <1>5, <1>6, <1>7 DEF IoInv

LEMMA IoRecvData == ASSUME IoInv, NEW t \in Clients, Io!RecvData(t) PROVE IoInv'
<1> USE DEF Io!RecvData, Io!At, Io!Goto, Io!clientVars
<1>0. /\ pc[t] = "recv" /\ fd[t] \in MoreFds /\ sock[fd[t]] \in Clients /\ inq[sock[fd[t]]] > 0
      /\ ~overwritten => sock[fd[t]] = t
  BY DEF IoInv, Io!TypeOK, PlaceInv, OwnInv, Io!Running
<1>n. inq \in [Clients -> Nat] /\ inq' \in [Clients -> 0..EchoRequests]
  <2>1. 0 \in 0..EchoRequests /\ \A n \in 0..EchoRequests : n \in Nat
    OBVIOUS
  <2> QED  BY <2>1 DEF IoInv, Io!TypeOK
<1>1. Io!TypeOK'
  BY <1>0, <1>n DEF IoInv, Io!TypeOK
<1>2. PlaceInv'
  <2>1. \A u \in Clients : asked[u] \in Nat /\ inq'[u] \in {0, inq[u]}
    BY <1>n DEF IoInv, Io!TypeOK
  <2>2. \A u \in Clients : inq'[u] <= asked[u]
    BY <2>1 DEF IoInv, PlaceInv
  <2> QED  BY <1>0, <2>2 DEF IoInv, Io!TypeOK, PlaceInv, Io!Running
<1>3. QueueInv'
  BY <1>0 DEF IoInv, Io!TypeOK, QueueInv
<1>4. OwnInv'
  BY <1>0 DEF IoInv, Io!TypeOK, OwnInv, Io!Running
<1>5. AnswerInv'
  BY <1>0, <1>n DEF IoInv, Io!TypeOK, AnswerInv, Unsent
<1>6. LeaveInv'
  BY <1>0, <1>n DEF IoInv, Io!TypeOK, LeaveInv
<1>7. Io!OnlyRudeKills'
  BY DEF IoInv, Io!OnlyRudeKills
<1> QED  BY <1>1, <1>2, <1>3, <1>4, <1>5, <1>6, <1>7 DEF IoInv

LEMMA IoRecvError == ASSUME IoInv, NEW t \in Clients, Io!RecvError(t) PROVE IoInv'
<1> USE DEF Io!RecvError, Io!At, Io!Goto, Io!clientVars
<1>0. /\ pc[t] = "recv" /\ fd[t] \in MoreFds /\ sock[fd[t]] \in Clients \cup {NULL}
      /\ ~overwritten => sock[fd[t]] = t
      /\ sock[fd[t]] # NULL => cut[sock[fd[t]]] \in {"reset", "broken"}
  BY DEF IoInv, Io!TypeOK, PlaceInv, OwnInv, Io!Running
<1>c. /\ cut' \in [Clients -> {"no", "fin", "crossing", "reset", "broken"}]
      /\ \A u \in Clients : \/ cut'[u] = cut[u]
                            \/ u = sock[fd[t]] /\ cut'[u] = "broken" /\ cut[u] # "no" /\ cut[u] # "fin"
  <2>1. CASE sock[fd[t]] = NULL
    BY <2>1 DEF IoInv, Io!TypeOK
  <2>2. CASE sock[fd[t]] # NULL
    <3>1. cut' = [cut EXCEPT ![sock[fd[t]]] = "broken"] /\ sock[fd[t]] \in Clients
      BY <1>0, <2>2
    <3>2. cut[sock[fd[t]]] # "no" /\ cut[sock[fd[t]]] # "fin"
      BY <1>0, <2>2
    <3> QED  BY <3>1, <3>2 DEF IoInv, Io!TypeOK
  <2> QED  BY <2>1, <2>2
<1>1. Io!TypeOK'
  BY <1>0, <1>c DEF IoInv, Io!TypeOK
<1>2. PlaceInv'
  BY <1>0 DEF IoInv, Io!TypeOK, PlaceInv, Io!Running
<1>3. QueueInv'
  BY <1>0 DEF IoInv, Io!TypeOK, QueueInv
<1>4. OwnInv'
  BY <1>0 DEF IoInv, Io!TypeOK, OwnInv, Io!Running
<1>5. AnswerInv'
  BY <1>0, <1>c DEF IoInv, Io!TypeOK, AnswerInv, Unsent
<1>6. LeaveInv'
  BY <1>0, <1>c DEF IoInv, Io!TypeOK, LeaveInv
<1>7. Io!OnlyRudeKills'
  BY DEF IoInv, Io!OnlyRudeKills
<1> QED  BY <1>1, <1>2, <1>3, <1>4, <1>5, <1>6, <1>7 DEF IoInv

LEMMA IoRecvEnd == ASSUME IoInv, NEW t \in Clients, Io!RecvEnd(t) PROVE IoInv'
<1> USE DEF Io!RecvEnd, Io!At, Io!Goto, Io!clientVars
<1>0. pc[t] = "recv"
  OBVIOUS
<1>1. Io!TypeOK'
  BY <1>0 DEF IoInv, Io!TypeOK
<1>2. PlaceInv'
  BY <1>0 DEF IoInv, Io!TypeOK, PlaceInv, Io!Running
<1>3. QueueInv'
  BY <1>0 DEF IoInv, Io!TypeOK, QueueInv
<1>4. OwnInv'
  BY <1>0 DEF IoInv, Io!TypeOK, OwnInv, Io!Running
<1>5. AnswerInv'
  BY <1>0 DEF IoInv, Io!TypeOK, AnswerInv, Unsent
<1>6. LeaveInv'
  BY <1>0 DEF IoInv, Io!TypeOK, LeaveInv
<1>7. Io!OnlyRudeKills'
  BY DEF IoInv, Io!OnlyRudeKills
<1> QED  BY <1>1, <1>2, <1>3, <1>4, <1>5, <1>6, <1>7 DEF IoInv

LEMMA CountType ==
    ASSUME NEW U, NEW T, NEW f \in [U -> [T -> Nat]], NEW c \in U, NEW b \in T
    PROVE  [f EXCEPT ![c][b] = @ + 1] \in [U -> [T -> Nat]]
<1>1. f[c] \in [T -> Nat]
  OBVIOUS
<1>2. f[c][b] + 1 \in Nat
  BY <1>1
<1>3. [f[c] EXCEPT ![b] = f[c][b] + 1] \in [T -> Nat]
  BY <1>1, <1>2
<1> DEFINE g == [f[c] EXCEPT ![b] = f[c][b] + 1]
<1>4. g \in [T -> Nat] /\ [f EXCEPT ![c][b] = @ + 1] = [f EXCEPT ![c] = g]
  BY <1>3
<1> HIDE DEF g
<1> QED  BY <1>4

LEMMA IoSend == ASSUME IoInv, NEW t \in Clients, Io!Send(t) PROVE IoInv'
<1> DEFINE c == sock[fd[t]]
<1>0. /\ alive /\ pc[t] = "send" /\ pc' = [pc EXCEPT ![t] = "recv"] /\ fd[t] \in MoreFds
      /\ c \in Clients \cup {NULL} /\ (~overwritten => c = t)
      /\ UNCHANGED <<clientfd, created, fd, buffer, sock, waiting, inq, asked, client, overwritten>>
  BY DEF Io!Send, Io!At, Io!Goto, IoInv, Io!TypeOK, PlaceInv, OwnInv, Io!Running
<1>came. /\ came' = IF c # NULL /\ cut[c] = "no" THEN [came EXCEPT ![c][buffer[t]] = @ + 1] ELSE came
        /\ came' \in [Clients -> [Clients \cup {NULL} -> Nat]]
  <2>1. came' = IF c # NULL /\ cut[c] = "no" THEN [came EXCEPT ![c][buffer[t]] = @ + 1] ELSE came
    BY DEF Io!Send
  <2>2. CASE c # NULL /\ cut[c] = "no"
    <3>1. c \in Clients /\ buffer[t] \in Clients \cup {NULL}
      BY <1>0, <2>2 DEF IoInv, Io!TypeOK
    <3>2. came \in [Clients -> [Clients \cup {NULL} -> Nat]]
      BY DEF IoInv, Io!TypeOK
    <3>3. [came EXCEPT ![c][buffer[t]] = @ + 1] \in [Clients -> [Clients \cup {NULL} -> Nat]]
      BY <3>1, <3>2, CountType
    <3> QED  BY <2>1, <2>2, <3>3
  <2>3. CASE ~(c # NULL /\ cut[c] = "no")
    BY <2>1, <2>3 DEF IoInv, Io!TypeOK
  <2> QED  BY <2>1, <2>2, <2>3
<1>cut. /\ cut' \in [Clients -> {"no", "fin", "crossing", "reset", "broken"}]
        /\ \A u \in Clients : /\ cut'[u] = "no" <=> cut[u] = "no"
                              /\ u # c => cut'[u] = cut[u]
  BY <1>0 DEF Io!Send, IoInv, Io!TypeOK
<1>alive. alive' \in BOOLEAN /\ (~alive' => c \in Clients /\ cut[c] = "broken")
  BY <1>0 DEF Io!Send, IoInv, Io!TypeOK
<1>1. Io!TypeOK'
  BY <1>0, <1>came, <1>cut, <1>alive DEF IoInv, Io!TypeOK
<1>2. PlaceInv'
  BY <1>0 DEF IoInv, Io!TypeOK, PlaceInv, Io!Running
<1>3. QueueInv'
  BY <1>0 DEF IoInv, Io!TypeOK, QueueInv
<1>4. OwnInv'
  BY <1>0 DEF IoInv, Io!TypeOK, OwnInv, Io!Running
<1>5. AnswerInv'
  <2> SUFFICES ASSUME ~overwritten, NEW u \in Clients
               PROVE  /\ pc'[u] = "send" /\ cut'[u] = "no" => buffer'[u] = u
                      /\ \A d \in Clients \ {u} : came'[u][d] = 0
                      /\ came'[u][u] + inq'[u] + Unsent(u)' <= asked'[u]
    BY <1>0 DEF AnswerInv
  <2>1. /\ pc[u] = "send" /\ cut[u] = "no" => buffer[u] = u
        /\ \A d \in Clients \ {u} : came[u][d] = 0
        /\ came[u][u] + inq[u] + Unsent(u) <= asked[u]
        /\ c = t
        /\ came[u][u] \in Nat /\ inq[u] \in Nat /\ asked[u] \in Nat
    BY <1>0 DEF IoInv, AnswerInv, Io!TypeOK
  <2>2. pc'[u] = IF u = t THEN "recv" ELSE pc[u]
    BY <1>0 DEF IoInv, Io!TypeOK
  <2>3. CASE u = t /\ cut[t] = "no"
    <3>1. came' = [came EXCEPT ![t][t] = @ + 1] /\ t # NULL
      BY <1>came, <2>1, <2>3, <1>0
    <3>2. came'[t][t] = came[t][t] + 1 /\ \A d \in Clients \ {t} : came'[t][d] = came[t][d]
      BY <3>1 DEF IoInv, Io!TypeOK
    <3>3. Unsent(t) = 1 /\ Unsent(t)' = 0
      BY <1>0, <2>2, <2>3 DEF Unsent
    <3> QED  BY <1>0, <2>1, <2>2, <2>3, <3>2, <3>3
  <2>4. CASE ~(u = t /\ cut[t] = "no")
    <3>1. came'[u] = came[u]
      BY <1>came, <2>1, <2>4 DEF IoInv, Io!TypeOK
    <3>2. Unsent(u)' = Unsent(u)
      BY <1>0, <1>cut, <2>2, <2>4 DEF Unsent
    <3> QED  BY <1>0, <1>cut, <2>1, <2>2, <3>1, <3>2
  <2> QED  BY <2>3, <2>4
<1>6. LeaveInv'
  BY <1>0, <1>cut DEF IoInv, Io!TypeOK, LeaveInv
<1>7. Io!OnlyRudeKills'
  BY <1>0, <1>alive DEF IoInv, LeaveInv, Io!OnlyRudeKills
<1> QED  BY <1>1, <1>2, <1>3, <1>4, <1>5, <1>6, <1>7 DEF IoInv

LEMMA IoClose == ASSUME IoInv, NEW t \in Clients, Io!Close(t) PROVE IoInv'
<1> USE DEF Io!Close, Io!At, Io!Goto, Io!clientVars
<1>0. pc[t] = "close" /\ fd[t] \in MoreFds /\ (~overwritten => sock[fd[t]] = t)
  BY DEF IoInv, PlaceInv, OwnInv, Io!Running
<1>1. Io!TypeOK'
  BY <1>0 DEF IoInv, Io!TypeOK
<1>2. PlaceInv'
  BY <1>0 DEF IoInv, Io!TypeOK, PlaceInv, Io!Running
<1>3. QueueInv'
  BY <1>0 DEF IoInv, Io!TypeOK, QueueInv
<1>4. OwnInv'
  <2> SUFFICES ASSUME ~overwritten, NEW u \in Clients
               PROVE  /\ u \in Io!Running' => sock'[fd'[u]] = u
                      /\ pc'[u] = "start" => sock'[clientfd'] = u /\ created' = NULL
                      /\ created' = u => sock'[clientfd'] = u
    BY DEF OwnInv
  <2>1. pc'[u] = IF u = t THEN "done" ELSE pc[u]
    BY DEF IoInv, Io!TypeOK
  <2>2. \A f \in MoreFds : sock[f] # t => sock'[f] = sock[f]
    BY <1>0 DEF IoInv, Io!TypeOK
  <2>3. u = created => u # t /\ clientfd \in MoreFds
    BY <1>0 DEF IoInv, Io!TypeOK, QueueInv, PlaceInv
  <2> QED  BY <1>0, <2>1, <2>2, <2>3 DEF IoInv, OwnInv, PlaceInv, Io!Running
<1>5. AnswerInv'
  BY <1>0 DEF IoInv, Io!TypeOK, AnswerInv, Unsent
<1>6. LeaveInv'
  BY <1>0 DEF IoInv, Io!TypeOK, LeaveInv
<1>7. Io!OnlyRudeKills'
  BY DEF IoInv, Io!OnlyRudeKills
<1> QED  BY <1>1, <1>2, <1>3, <1>4, <1>5, <1>6, <1>7 DEF IoInv

LEMMA IoStutter == ASSUME IoInv, UNCHANGED Io!vars PROVE IoInv'
<1> USE DEF Io!vars, Io!threadVars, Io!clientVars
<1>1. (Io!TypeOK /\ PlaceInv /\ QueueInv /\ OwnInv)'
  BY DEF IoInv, Io!TypeOK, PlaceInv, QueueInv, OwnInv, Io!Running
<1>2. (AnswerInv /\ LeaveInv /\ Io!OnlyRudeKills)'
  BY DEF IoInv, AnswerInv, Unsent, LeaveInv, Io!OnlyRudeKills
<1> QED  BY <1>1, <1>2 DEF IoInv

LEMMA IoNext == IoInv /\ [Io!Next]_(Io!vars) => IoInv'
<1> SUFFICES ASSUME IoInv, [Io!Next]_(Io!vars) PROVE IoInv'
  OBVIOUS
<1>1. CASE UNCHANGED Io!vars
  BY <1>1, IoStutter
<1>2. CASE Io!Main
  BY <1>2, IoCreate, IoAccept DEF Io!Main
<1>3. ASSUME NEW c \in Clients, Io!Thread(c) PROVE IoInv'
  BY <1>3, IoStart, IoRecvData, IoRecvError, IoRecvEnd, IoSend, IoClose DEF Io!Thread
<1>4. ASSUME NEW c \in Clients, Io!Connect(c) \/ Io!Ask(c) \/ Io!Leave(c) \/ Io!LateReset(c) PROVE IoInv'
  BY <1>4, IoConnect, IoAsk, IoLeave, IoLateReset
<1> QED  BY <1>1, <1>2, <1>3, <1>4 DEF Io!Next

\* What follows.
LEMMA IoHolds == IoInv => Io!OneThreadEach /\ Io!EchoOwn /\ Io!OnlyRudeKills
<1> SUFFICES ASSUME IoInv PROVE Io!OneThreadEach /\ Io!EchoOwn /\ Io!OnlyRudeKills
  OBVIOUS
<1>1. Io!OneThreadEach
  BY DEF IoInv, OwnInv, Io!OneThreadEach, Io!Running
<1>2. Io!EchoOwn
  <2> SUFFICES ASSUME ~overwritten, NEW c \in Clients
               PROVE  (\A d \in Clients \ {c} : came[c][d] = 0) /\ came[c][c] <= asked[c]
    BY DEF Io!EchoOwn
  <2>1. came[c][c] \in Nat /\ inq[c] \in Nat /\ asked[c] \in Nat /\ Unsent(c) \in Nat
    BY DEF IoInv, Io!TypeOK, Unsent
  <2> QED  BY <2>1 DEF IoInv, AnswerInv
<1> QED  BY <1>1, <1>2 DEF IoInv

-----------------------------------------------------------------------------
(* The program that runs.                                                  *)

ServersInv == /\ program \in {"select", "poll", "epoll", "reactor", "io"}
              /\ program = "select" => SelectInv
              /\ program = "poll" => PollInv
              /\ program = "epoll" => EpollInv
              /\ program = "reactor" => ReactorInv
              /\ program = "io" => IoInv

LEMMA ServersInit == MCInit => ServersInv
BY SelectInit, PollInit, EpollInit, ReactorInit, IoInit, Zenon DEF MCInit, ServersInv

LEMMA ServersStutter == ServersInv /\ UNCHANGED all => ServersInv'
<1> SUFFICES ASSUME ServersInv, UNCHANGED all PROVE ServersInv'
  OBVIOUS
<1>1. /\ UNCHANGED <<program, alive, batch, sock, inq, cut, asked, client, waiting, came>>
      /\ UNCHANGED <<rfds, rset, revents, used, lowReady, maxfd, pc, i, watched>>
      /\ UNCHANGED vars
      /\ UNCHANGED Io!vars
  BY DEF all, vars, server, kernel, clientVars, echoOnly, loopOnly, selectOnly, pollOnly, ioOnly,
         Io!vars, Io!threadVars, Io!clientVars
<1>2. /\ EchoInv(MoreFds) => EchoInv(MoreFds)'
      /\ EchoInv(ConnFds) => EchoInv(ConnFds)'
      /\ RudeInv => RudeInv'
  BY <1>1 DEF EchoInv, EchoTypes, EchoApart, EchoCounts, RudeInv
<1>3. SelectInv => SelectInv'
  <2>1. SelectTypes => SelectTypes'
    BY <1>1 DEF SelectTypes
  <2>2. SelectReady => SelectReady'
    BY <1>1 DEF SelectReady, S!Readable
  <2>3. S!KilledByOlder => S!KilledByOlder'
    BY <1>1 DEF S!KilledByOlder, S!Newest
  <2> QED BY <1>2, <2>1, <2>2, <2>3 DEF SelectInv
<1>4. PollInv => PollInv'
  <2>1. PollTypes => PollTypes'
    BY <1>1 DEF PollTypes
  <2>2. PollReady => PollReady'
    BY <1>1 DEF PollReady
  <2> QED BY <1>2, <2>1, <2>2 DEF PollInv
<1>5. EpollInv => EpollInv'
  BY <1>1, <1>2 DEF EpollInv, EpollBatch
<1>6. ReactorInv => ReactorInv'
  BY <1>1, ReactorStep
<1>7. IoInv => IoInv'
  BY <1>1, IoStutter
<1> QED BY <1>1, <1>3, <1>4, <1>5, <1>6, <1>7 DEF ServersInv

LEMMA ServersStep == ServersInv /\ [MCNext]_all => ServersInv'
<1> SUFFICES ASSUME ServersInv, [MCNext]_all PROVE ServersInv'
  OBVIOUS
<1>1. CASE InSelect(S!Next)
  BY <1>1, SelectStep DEF ServersInv, InSelect
<1>2. CASE InPoll(P!Next)
  BY <1>2, PollStep DEF ServersInv, InPoll
<1>3. CASE InEpoll(E!Next)
  BY <1>3, EpollStep DEF ServersInv, InEpoll
<1>4. CASE InReactor(Next)
  BY <1>4, ReactorStep DEF ServersInv, InReactor
<1>5. CASE InIo(Io!Next)
  BY <1>5, IoNext DEF ServersInv, InIo
<1>6. CASE UNCHANGED all
  BY <1>6, ServersStutter
<1> QED BY <1>1, <1>2, <1>3, <1>4, <1>5, <1>6 DEF MCNext

LEMMA Invariant == MCSpec => []ServersInv
<1>1. MCInit => ServersInv
  BY ServersInit
<1>2. ServersInv /\ [MCNext]_all => ServersInv'
  BY ServersStep
<1> QED BY <1>1, <1>2, PTL DEF MCSpec

\* Each server handles a descriptor while it is what the wait said of it: select.c and
\* poll.c read none that would block or is closed, and the callbacks of epoll.c and
\* reactor.c are for the connection the event was about.
THEOREM TurnsInTime == MCSpec => []HandledInTime
<1>1. ServersInv => HandledInTime
  BY SelectHolds, PollHolds, EpollHolds, ReactorHolds DEF ServersInv, HandledInTime
<1> QED BY <1>1, Invariant, PTL

\* SIGPIPE ends poll.c, epoll.c and reactor.c only by a client that left with answers
\* due, select.c by one that is not the last accepted, and io.c only by one that left
\* too early or reset, until clientfd is overwritten.
THEOREM DeathsHaveCause == MCSpec => []DeathHasCause
<1>1. ServersInv => DeathHasCause
  BY SelectHolds, PollHolds, EpollHolds, ReactorHolds, IoHolds DEF ServersInv, DeathHasCause
<1> QED BY <1>1, Invariant, PTL

\* reactor.c sends headers, each with its file, although sate is not reset when a
\* descriptor is accepted again.
THEOREM ResponsesWhole == MCSpec => []AnswersWhole
<1>1. ServersInv => AnswersWhole
  BY ReactorHolds DEF ServersInv, AnswersWhole
<1> QED BY <1>1, Invariant, PTL

\* Each running thread of io.c has its own client's connection, until clientfd
\* is written before the last thread has read it.
THEOREM ThreadsApart == MCSpec => []OneThreadEach
<1>1. ServersInv => OneThreadEach
  BY IoHolds DEF ServersInv, OneThreadEach
<1> QED BY <1>1, Invariant, PTL

\* Until then nobody gets the bytes of another, or its own twice.
THEOREM EchoIsOwn == MCSpec => []EchoOwn
<1>1. ServersInv => EchoOwn
  BY IoHolds DEF ServersInv, EchoOwn
<1> QED BY <1>1, Invariant, PTL

\* The types of the state of io.c.
THEOREM ThreadsTypeCorrect == MCSpec => [](program = "io" => Io!TypeOK)
<1>1. ServersInv => (program = "io" => Io!TypeOK)
  BY DEF ServersInv, IoInv
<1> QED BY <1>1, Invariant, PTL
=============================================================================
