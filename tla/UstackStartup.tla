--------------------------- MODULE UstackStartup ---------------------------
(***************************************************************************)
(* The start of 2.4_ustack/tcp_from_king.c: the two server lcores take a      *)
(* descriptor each from a bitmap without a lock, and the table of streams is   *)
(* created by whichever lcore calls tcpInstance first, the TCP server or the   *)
(* packet lcore (ng_tcp_out, on every turn of its loop).  nbind and nlisten    *)
(* look a descriptor up among the UDP hosts first, then in the table.         *)
(*                                                                         *)
(* The model ends when the servers are about to serve and the packet lcore    *)
(* has its table.  Memory does not run out.                                 *)
(***************************************************************************)
EXTENDS Integers

CONSTANTS Fds,     \* the descriptors of the bitmap, in the order of the scan
          NULL

ASSUME StartupAssumption == /\ Fds \subseteq Nat /\ {3, 4} \subseteq Fds
                            /\ NULL \notin Nat /\ NULL \notin {"pkt", "udp", "tcp"}

Servers == {"udp", "tcp"}
Lcores == {"pkt", "tcp"}         \* those that call tcpInstance
Tables == Lcores                 \* the memory each would allocate

VARIABLES
    fd_table,    \* the bits set
    fd,          \* a server's descriptor
    lhost,       \* whether the UDP host is listed
    tInst,       \* the table in force, or NULL
    listed,      \* the tables whose list holds the listening stream
    mine,        \* what tcpInstance returned to the TCP server
    uport, tport,   \* the ports bound: of the UDP host, of the listening stream
    status,      \* of the listening stream
    pc,
    mixed        \* history: the shared objects two calls were making at once

portVars == <<uport, tport, status>>
vars == <<fd_table, fd, lhost, tInst, listed, mine, portVars, pc, mixed>>

Init == /\ fd_table = {} /\ fd = [s \in Servers |-> NULL]
        /\ lhost = FALSE /\ tInst = NULL /\ listed = {} /\ mine = NULL
        /\ uport = NULL /\ tport = NULL /\ status = "CLOSED"
        /\ pc = [l \in {"pkt", "udp", "tcp"} |-> IF l = "pkt" THEN "inst" ELSE "scan"]
        /\ mixed = {}

Goto(l, a, b) == pc[l] = a /\ pc' = [pc EXCEPT ![l] = b]

Overlap(what, happens) == mixed' = IF happens THEN mixed \cup {what} ELSE mixed

-----------------------------------------------------------------------------
\* Mutant: the first bit is taken, whether or not it is clear.
ScanFull(s) == /\ Goto(s, "scan", "set")
               /\ fd' = [fd EXCEPT ![s] = 3]
               /\ Overlap("fds", \E u \in Servers \ {s} : pc[u] = "set")
               /\ UNCHANGED <<fd_table, lhost, tInst, listed, mine, portVars>>

\* get_fd_frombitmap: the first clear bit is found, then set.
Scan(s) == /\ Goto(s, "scan", "set")
           /\ \E d \in Fds \ fd_table :
                 /\ \A e \in Fds \ fd_table : d <= e
                 /\ fd' = [fd EXCEPT ![s] = d]
           /\ Overlap("fds", \E u \in Servers \ {s} : pc[u] = "set")
           /\ UNCHANGED <<fd_table, lhost, tInst, listed, mine, portVars>>

SetBit(s) == /\ Goto(s, "set", IF s = "udp" THEN "add" ELSE "inst")
             /\ fd_table' = fd_table \cup {fd[s]}
             /\ UNCHANGED <<fd, lhost, tInst, listed, mine, portVars, mixed>>

\* Mutant: the caller allocates for itself whatever the test said.
InstTestNever(l) == /\ Goto(l, "inst", "alloc")
                    /\ Overlap("table", \E k \in Lcores \ {l} : pc[k] \in {"alloc", "wipe"})
                    /\ UNCHANGED <<fd_table, fd, lhost, tInst, listed, mine, portVars>>

\* tcpInstance: test, allocate, wipe, return; each reads tInst anew.
InstTest(l) == /\ Goto(l, "inst", IF tInst = NULL THEN "alloc" ELSE "return")
               /\ Overlap("table", \E k \in Lcores \ {l} : pc[k] \in {"alloc", "wipe"})
               /\ UNCHANGED <<fd_table, fd, lhost, tInst, listed, mine, portVars>>

InstAlloc(l) == /\ Goto(l, "alloc", "wipe")
                /\ tInst' = l
                /\ UNCHANGED <<fd_table, fd, lhost, listed, mine, portVars, mixed>>

InstWipe(l) == /\ Goto(l, "wipe", "return")
               /\ listed' = listed \ {tInst}
               /\ UNCHANGED <<fd_table, fd, lhost, tInst, mine, portVars, mixed>>

InstReturn(l) == /\ Goto(l, "return", IF l = "tcp" THEN "add" ELSE "done")
                 /\ mine' = IF l = "tcp" THEN tInst ELSE mine
                 /\ UNCHANGED <<fd_table, fd, lhost, tInst, listed, portVars, mixed>>

\* nsocket: LL_ADD of the host or of the stream
UdpAdd == /\ Goto("udp", "add", "bind")
          /\ lhost' = TRUE
          /\ UNCHANGED <<fd_table, fd, tInst, listed, mine, portVars, mixed>>

TcpAdd == /\ Goto("tcp", "add", "bind")
          /\ listed' = listed \cup {mine}
          /\ UNCHANGED <<fd_table, fd, lhost, tInst, mine, portVars, mixed>>

\* get_hostinfo_fromfd
Found(s) == IF lhost /\ fd["udp"] = fd[s] THEN "host"
            ELSE IF tInst \in listed /\ fd["tcp"] = fd[s] THEN "stream" ELSE "none"

\* nbind: the port goes to what was found; a stream is CLOSED.
Bind(s) == /\ Goto(s, "bind", IF s = "tcp" THEN "listen" ELSE "done")
           /\ uport' = IF Found(s) = "host" THEN s ELSE uport
           /\ tport' = IF Found(s) = "stream" THEN s ELSE tport
           /\ status' = IF Found(s) = "stream" THEN "CLOSED" ELSE status
           /\ UNCHANGED <<fd_table, fd, lhost, tInst, listed, mine, mixed>>

Listen == /\ Goto("tcp", "listen", "done")
          /\ status' = IF Found("tcp") = "stream" THEN "LISTEN" ELSE status
          /\ UNCHANGED <<fd_table, fd, lhost, tInst, listed, mine, uport, tport, mixed>>

Next == \/ \E s \in Servers : Scan(s) \/ SetBit(s) \/ Bind(s)
        \/ \E l \in Lcores : InstTest(l) \/ InstAlloc(l) \/ InstWipe(l) \/ InstReturn(l)
        \/ UdpAdd \/ TcpAdd \/ Listen

Spec == Init /\ [][Next]_vars

-----------------------------------------------------------------------------
(* Properties.                                                             *)

\* Types of the state.
TypeOK == /\ fd_table \subseteq Fds /\ fd \in [Servers -> Fds \cup {NULL}]
          /\ lhost \in BOOLEAN /\ listed \subseteq Tables
          /\ {tInst, mine} \subseteq Tables \cup {NULL}
          /\ {uport, tport} \subseteq Servers \cup {NULL}
          /\ status \in {"CLOSED", "LISTEN"} /\ mixed \subseteq {"fds", "table"}
          /\ pc \in [{"pkt", "udp", "tcp"} ->
                       {"scan", "set", "inst", "alloc", "wipe", "return", "add", "bind",
                        "listen", "done"}]

Started == \A l \in DOMAIN pc : pc[l] = "done"

UdpServes == lhost /\ uport = "udp"
TcpServes == tInst \in listed /\ tport = "tcp" /\ status = "LISTEN"

\* Only two calls at once of get_fd_frombitmap or of tcpInstance can spoil the
\* start; in every other order of the three lcores both servers serve.
ServesUnlessMixed == Started /\ mixed = {} => UdpServes /\ TcpServes

\* The two races spoil different things: two creations of the table cost the
\* TCP listener but never the UDP server.
UdpSurvives == Started /\ "fds" \notin mixed => UdpServes
=============================================================================
