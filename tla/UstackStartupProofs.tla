------------------------ MODULE UstackStartupProofs ------------------------
(***************************************************************************)
(* The start of the stack goes wrong only in its two races, for any bitmap of  *)
(* descriptors.                                                            *)
(***************************************************************************)
EXTENDS UstackStartup, TLAPS

\* Where each lcore can be.
PlaceInv == /\ pc["pkt"] \in {"inst", "alloc", "wipe", "return", "done"}
            /\ pc["udp"] \in {"scan", "set", "add", "bind", "done"}

\* A descriptor is taken at the end of the scan, and its bit set a step later.
TakenInv == \A s \in Servers : /\ pc[s] = "scan" => fd[s] = NULL
                               /\ pc[s] # "scan" => fd[s] \in Fds
                               /\ pc[s] \notin {"scan", "set"} => fd[s] \in fd_table

\* Scans that do not overlap find different descriptors.
ApartInv == "fds" \notin mixed =>
                /\ ~(pc["udp"] = "set" /\ pc["tcp"] = "set")
                /\ pc["udp"] # "scan" /\ pc["tcp"] # "scan" => fd["udp"] # fd["tcp"]

UdpInv == /\ pc["udp"] \in {"bind", "done"} => lhost
          /\ pc["udp"] = "done" /\ "fds" \notin mixed => uport = "udp"

\* The table, once an lcore has been given it.
InstInv == /\ \A l \in Lcores :
                 pc[l] \in {"wipe", "return", "add", "bind", "listen", "done"} => tInst # NULL
           /\ pc["tcp"] \in {"add", "bind", "listen", "done"} => mine # NULL

\* While calls of tcpInstance do not overlap there is one maker, and none after.
MakerInv == "table" \notin mixed =>
                /\ ~(pc["pkt"] \in {"alloc", "wipe"} /\ pc["tcp"] \in {"alloc", "wipe"})
                /\ \A k, l \in Lcores :
                      pc[k] \in {"return", "add", "bind", "listen", "done"}
                      => pc[l] \notin {"alloc", "wipe"}

ListedInv == "table" \notin mixed =>
                 /\ pc["tcp"] \in {"add", "bind", "listen", "done"} => mine = tInst
                 /\ pc["tcp"] \in {"bind", "listen", "done"} => tInst \in listed

TcpInv == mixed = {} => /\ pc["tcp"] \in {"listen", "done"} => tport = "tcp"
                        /\ pc["tcp"] = "done" => status = "LISTEN"

StartInv == TypeOK /\ PlaceInv /\ TakenInv /\ ApartInv /\ UdpInv /\ InstInv /\ MakerInv
            /\ ListedInv /\ TcpInv

LEMMA InitStart == Init => StartInv
BY StartupAssumption
   DEF Init, StartInv, TypeOK, PlaceInv, TakenInv, ApartInv, UdpInv, InstInv, MakerInv,
       ListedInv, TcpInv, Servers, Lcores

LEMMA StepStart == StartInv /\ [Next]_vars => StartInv'
<1>. SUFFICES ASSUME StartInv, [Next]_vars PROVE StartInv'
  OBVIOUS
<1>. USE StartupAssumption
     DEF StartInv, TypeOK, PlaceInv, TakenInv, ApartInv, UdpInv, InstInv, MakerInv, ListedInv,
         TcpInv, Servers, Lcores, Tables, portVars, Goto, Overlap
<1>1. ASSUME NEW s \in Servers, Scan(s) PROVE StartInv'
  <2>1. TypeOK'
    BY <1>1 DEF Scan
  <2>2. PlaceInv'
    BY <1>1 DEF Scan
  <2>3. TakenInv'
    BY <1>1 DEF Scan
  <2>4. ApartInv'
    BY <1>1 DEF Scan
  <2>5. UdpInv'
    BY <1>1 DEF Scan
  <2>6. InstInv'
    BY <1>1 DEF Scan
  <2>7. MakerInv'
    BY <1>1 DEF Scan
  <2>8. ListedInv'
    BY <1>1 DEF Scan
  <2>9. TcpInv'
    BY <1>1 DEF Scan
  <2>. QED
    BY ONLY <2>1, <2>2, <2>3, <2>4, <2>5, <2>6, <2>7, <2>8, <2>9 DEF StartInv
<1>2. ASSUME NEW s \in Servers, SetBit(s) PROVE StartInv'
  <2>1. TypeOK'
    BY <1>2 DEF SetBit
  <2>2. PlaceInv'
    BY <1>2 DEF SetBit
  <2>3. TakenInv'
    BY <1>2 DEF SetBit
  <2>4. ApartInv'
    BY <1>2 DEF SetBit
  <2>5. UdpInv'
    BY <1>2 DEF SetBit
  <2>6. InstInv'
    BY <1>2 DEF SetBit
  <2>7. MakerInv'
    BY <1>2 DEF SetBit
  <2>8. ListedInv'
    BY <1>2 DEF SetBit
  <2>9. TcpInv'
    BY <1>2 DEF SetBit
  <2>. QED
    BY ONLY <2>1, <2>2, <2>3, <2>4, <2>5, <2>6, <2>7, <2>8, <2>9 DEF StartInv
<1>3. ASSUME NEW s \in Servers, Bind(s) PROVE StartInv'
  <2>1. CASE s = "udp"
    <3>1. Found("udp") = "host"
      BY <1>3, <2>1 DEF Bind, Found
    <3>. QED
      BY <1>3, <2>1, <3>1 DEF Bind
  <2>2. CASE s = "tcp"
    <3>1. "fds" \notin mixed => Found("tcp") # "host"
      BY <1>3, <2>2 DEF Bind, Found
    <3>2. mixed = {} => Found("tcp") = "stream"
      BY <1>3, <2>2, <3>1 DEF Bind, Found
    <3>. QED
      BY <1>3, <2>2, <3>1, <3>2 DEF Bind
  <2>. QED
    BY <2>1, <2>2
<1>4. ASSUME NEW l \in Lcores, InstTest(l) PROVE StartInv'
  <2>1. TypeOK'
    BY <1>4 DEF InstTest
  <2>2. PlaceInv'
    BY <1>4 DEF InstTest
  <2>3. TakenInv'
    BY <1>4 DEF InstTest
  <2>4. ApartInv'
    BY <1>4 DEF InstTest
  <2>5. UdpInv'
    BY <1>4 DEF InstTest
  <2>6. InstInv'
    BY <1>4 DEF InstTest
  <2>7. MakerInv'
    BY <1>4 DEF InstTest
  <2>8. ListedInv'
    BY <1>4 DEF InstTest
  <2>9. TcpInv'
    BY <1>4 DEF InstTest
  <2>. QED
    BY ONLY <2>1, <2>2, <2>3, <2>4, <2>5, <2>6, <2>7, <2>8, <2>9 DEF StartInv
<1>5. ASSUME NEW l \in Lcores, InstAlloc(l) PROVE StartInv'
  <2>1. TypeOK'
    BY <1>5 DEF InstAlloc
  <2>2. PlaceInv'
    BY <1>5 DEF InstAlloc
  <2>3. TakenInv'
    BY <1>5 DEF InstAlloc
  <2>4. ApartInv'
    BY <1>5 DEF InstAlloc
  <2>5. UdpInv'
    BY <1>5 DEF InstAlloc
  <2>6. InstInv'
    BY <1>5 DEF InstAlloc
  <2>7. MakerInv'
    BY <1>5 DEF InstAlloc
  <2>8. ListedInv'
    BY <1>5 DEF InstAlloc
  <2>9. TcpInv'
    BY <1>5 DEF InstAlloc
  <2>. QED
    BY ONLY <2>1, <2>2, <2>3, <2>4, <2>5, <2>6, <2>7, <2>8, <2>9 DEF StartInv
<1>6. ASSUME NEW l \in Lcores, InstWipe(l) PROVE StartInv'
  <2>1. TypeOK'
    BY <1>6 DEF InstWipe
  <2>2. PlaceInv'
    BY <1>6 DEF InstWipe
  <2>3. TakenInv'
    BY <1>6 DEF InstWipe
  <2>4. ApartInv'
    BY <1>6 DEF InstWipe
  <2>5. UdpInv'
    BY <1>6 DEF InstWipe
  <2>6. InstInv'
    BY <1>6 DEF InstWipe
  <2>7. MakerInv'
    BY <1>6 DEF InstWipe
  <2>8. ListedInv'
    BY <1>6 DEF InstWipe
  <2>9. TcpInv'
    BY <1>6 DEF InstWipe
  <2>. QED
    BY ONLY <2>1, <2>2, <2>3, <2>4, <2>5, <2>6, <2>7, <2>8, <2>9 DEF StartInv
<1>7. ASSUME NEW l \in Lcores, InstReturn(l) PROVE StartInv'
  BY <1>7 DEF InstReturn
<1>8. CASE UdpAdd
  BY <1>8 DEF UdpAdd
<1>9. CASE TcpAdd
  <2>1. TypeOK'
    BY <1>9 DEF TcpAdd
  <2>2. PlaceInv'
    BY <1>9 DEF TcpAdd
  <2>3. TakenInv'
    BY <1>9 DEF TcpAdd
  <2>4. ApartInv'
    BY <1>9 DEF TcpAdd
  <2>5. UdpInv'
    BY <1>9 DEF TcpAdd
  <2>6. InstInv'
    BY <1>9 DEF TcpAdd
  <2>7. MakerInv'
    BY <1>9 DEF TcpAdd
  <2>8. ListedInv'
    BY <1>9 DEF TcpAdd
  <2>9. TcpInv'
    BY <1>9 DEF TcpAdd
  <2>. QED
    BY ONLY <2>1, <2>2, <2>3, <2>4, <2>5, <2>6, <2>7, <2>8, <2>9 DEF StartInv
<1>10. CASE Listen
  <2>1. mixed = {} => Found("tcp") = "stream"
    BY <1>10 DEF Listen, Found
  <2>. QED
    BY <1>10, <2>1 DEF Listen
<1>11. CASE UNCHANGED vars
  BY <1>11 DEF vars
<1>. QED
  BY <1>1, <1>2, <1>3, <1>4, <1>5, <1>6, <1>7, <1>8, <1>9, <1>10, <1>11 DEF Next

\* Types of the state, for any bitmap.
THEOREM TypeCorrect == Spec => []TypeOK
<1>1. StartInv => TypeOK
  BY DEF StartInv
<1>. QED
  BY InitStart, StepStart, <1>1, PTL DEF Spec

\* Unless two calls of get_fd_frombitmap (869) or of tcpInstance (409) overlap, the
\* UDP host ends up bound and the TCP listener bound, listening and in the table in
\* force, in whatever order the three lcores come.
THEOREM ServesOrMixed == Spec => []ServesUnlessMixed
<1>1. StartInv => ServesUnlessMixed
  BY DEF StartInv, TypeOK, ServesUnlessMixed, Started, UdpServes, TcpServes, UdpInv, ListedInv,
         TcpInv
<1>. QED
  BY InitStart, StepStart, <1>1, PTL DEF Spec

\* A table made twice never costs the UDP server its host.
THEOREM UdpIsApart == Spec => []UdpSurvives
<1>1. StartInv => UdpSurvives
  BY DEF StartInv, TypeOK, UdpSurvives, Started, UdpServes, UdpInv
<1>. QED
  BY InitStart, StepStart, <1>1, PTL DEF Spec
=============================================================================
