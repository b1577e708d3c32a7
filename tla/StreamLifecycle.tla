-------------------------- MODULE StreamLifecycle --------------------------
(***************************************************************************)
(* What the TCP half of the stack promises about the connection of each    *)
(* client: it goes through the passive side of the TCP states, each entered *)
(* from the one before, and only the application that holds it closes it,  *)
(* after the client has.  UstackTcp implements this specification.         *)
(***************************************************************************)
CONSTANT Clients

VARIABLES conn,  \* a client's connection: none, half, open, peer_closed, closing
          held   \* the clients whose connection has a descriptor

vars == <<conn, held>>

Init == conn = [c \in Clients |-> "none"] /\ held = {}

Move(c, from, to) == conn[c] = from /\ conn' = [conn EXCEPT ![c] = to]

Open(c) == Move(c, "none", "half") /\ UNCHANGED held
Establish(c) == Move(c, "half", "open") /\ UNCHANGED held
PeerClose(c) == Move(c, "open", "peer_closed") /\ UNCHANGED held
Accept(c) == /\ conn[c] # "none" /\ c \notin held
             /\ held' = held \cup {c} /\ UNCHANGED conn
Close(c) == c \in held /\ Move(c, "peer_closed", "closing") /\ UNCHANGED held
Remove(c) == Move(c, "closing", "none") /\ held' = held \ {c}

Next == \E c \in Clients : \/ Open(c) \/ Establish(c) \/ PeerClose(c)
                           \/ Accept(c) \/ Close(c) \/ Remove(c)

Spec == Init /\ [][Next]_vars
=============================================================================
