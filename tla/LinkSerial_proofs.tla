------------------------- MODULE LinkSerial_proofs -------------------------
(***************************************************************************)
(* Machine-checked proofs about LinkServer when the environment spaces out *)
(* its connections (SerialArrivals): no two threads are between accept()   *)
(* and the end of SysCheckInCmd.                                           *)
(*                                                                         *)
(* SerialInv is inductive relative to IndInv of LinkServer_proofs.  From   *)
(* it follow OneLinkPerAddress, ServedIsRegistered, that the table         *)
(* implements LinkRegistry, and, with FramesInv, FramesInOrder.            *)
(***************************************************************************)
EXTENDS LinkServer_proofs, FiniteSetTheorems

\* Where a thread's slot holds its descriptor and names it.
Holding == Serving \cup {"cleanup", "delip", "delrest"}

\* The environment: nobody is accepted while a thread is checking in.
OneCheckIn ==
    \A t, u \in Threads : pc[t] \in CheckingIn /\ pc[u] \in CheckingIn => t = u

\* What a thread checking in has found out stays true while it is the only
\* one: the slots it has looked at do not hold its address, and the slot it
\* picked stays free until it takes it.
SearchInv ==
    \A t \in Threads :
        /\ pc[t] = "none" => pos[t] = NoSlot /\ at[t] = 1
        /\ pc[t] \notin {"none", "dead"} => peer_ip[t] \in Ips
        /\ pc[t] = "scan" =>
               /\ pos[t] # NoSlot => socket_fd[pos[t]] = NoFd
               /\ \A s \in Slots : s < at[t] => ipaddr[s] # peer_ip[t]
        /\ pc[t] = "enter" => socket_fd[pos[t]] = NoFd
        /\ pc[t] = "entered" => ipaddr[pos[t]] = NoIp
        /\ pc[t] \in {"enter", "entered"} =>
               \A s \in Slots : ipaddr[s] # peer_ip[t]

\* A thread keeps the slot it entered until DelFromLinkTbl.
HoldingInv ==
    \A t \in Threads :
        /\ pc[t] \in Holding =>
               socket_fd[pos[t]] = link_fd[t] /\ ctrl_tid[pos[t]] = t
        /\ pc[t] \in {"recv", "store", "reset"} => at[t] = pos[t]
        /\ pc[t] = "delrest" => ipaddr[pos[t]] = NoIp

\* An address is visible only in a slot that is in use and that nobody is
\* filling or clearing.
AddressInv ==
    \A s \in Slots : ipaddr[s] # NoIp => socket_fd[s] # NoFd /\ mutex[s] = NoTid

\* Inductive in an environment with SerialArrivals.
SerialInv ==
    /\ OneCheckIn
    /\ SearchInv
    /\ HoldingInv
    /\ AddressInv
    /\ OneLinkPerAddress

\* The types SerialInv needs.
SerialTypes ==
    /\ socket_fd \in [Slots -> Fds \cup {NoFd}]
    /\ ipaddr \in [Slots -> Ips \cup {NoIp}]
    /\ ctrl_tid \in [Slots -> Threads \cup {NoTid}]
    /\ pc \in [Threads -> LinkPcs]
    /\ link_fd \in [Threads -> Fds \cup {NoFd}]
    /\ peer_ip \in [Threads -> Ips \cup {NoIp}]
    /\ pos \in [Threads -> Slots \cup {NoSlot}]
    /\ at \in [Threads -> Slots]

\* What IndInv gives about two threads and their slots: different threads hold
\* different descriptors, and a registered one has a slot.
LEMMA SerialContext ==
    ASSUME IndInv
    PROVE  /\ SerialTypes
           /\ \A t \in Threads : pc[t] \notin {"none", "dead"} =>
                  link_fd[t] \in Fds /\ fd_owner[link_fd[t]] = t
           /\ \A t \in Threads : pc[t] \in {"enter"} \cup Registered =>
                  pos[t] \in Slots
  BY Sentinels DEF IndInv, TypeOK, ThreadsInv, SerialTypes

-----------------------------------------------------------------------------
(* Steps that share a proof *)

\* A link that is served moves on, or to its cleanup, with its slot at hand.
LEMMA ServingSerial ==
    ASSUME IndInv, SerialInv, NEW t \in Threads,
           NEW p \in Serving \cup {"cleanup"},
           pc[t] \in Serving,
           pc' = [pc EXCEPT ![t] = p],
           UNCHANGED <<socket_fd, ipaddr, ctrl_tid, mutex, link_fd, peer_ip, pos>>,
           \A u \in Threads \ {t} : at'[u] = at[u],
           p \in {"recv", "store", "reset"} => at'[t] = pos[t]
    PROVE  SerialInv'
<1>1. SerialTypes
  BY SerialContext
<1>2. /\ pc[t] \in Holding
      /\ pc[t] \notin CheckingIn \cup {"none", "dead", "delrest"}
      /\ p \in Holding
      /\ p \notin CheckingIn \cup {"none", "dead", "delrest"}
  BY DEF Holding, Serving, CheckingIn
<1>3. /\ pc'[t] = p
      /\ \A u \in Threads : u # t => pc'[u] = pc[u] /\ at'[u] = at[u]
  BY <1>1 DEF SerialTypes
<1>4. OneCheckIn'
  BY <1>2, <1>3 DEF SerialInv, OneCheckIn
<1>5. SearchInv'
  <2>. SUFFICES ASSUME NEW u \in Threads PROVE SearchInv!(u)'
    BY DEF SearchInv
  <2>1. SearchInv!(u)
    BY DEF SerialInv, SearchInv
  <2>2. CASE u = t
    BY <1>2, <1>3, <2>1, <2>2 DEF CheckingIn
  <2>3. CASE u # t
    BY <1>3, <2>1, <2>3
  <2>. QED
    BY <2>2, <2>3
<1>6. HoldingInv'
  <2>. SUFFICES ASSUME NEW u \in Threads PROVE HoldingInv!(u)'
    BY DEF HoldingInv
  <2>1. HoldingInv!(u)
    BY DEF SerialInv, HoldingInv
  <2>2. CASE u = t
    BY <1>2, <1>3, <2>1, <2>2
  <2>3. CASE u # t
    BY <1>3, <2>1, <2>3
  <2>. QED
    BY <2>2, <2>3
<1>7. AddressInv' /\ OneLinkPerAddress'
  BY DEF SerialInv, AddressInv, OneLinkPerAddress
<1>. QED
  BY <1>4, <1>5, <1>6, <1>7 DEF SerialInv

\* A step that leaves the table, the threads' places and their slots alone.
LEMMA QuietSerial ==
    ASSUME SerialInv,
           UNCHANGED <<socket_fd, ipaddr, ctrl_tid, mutex, pc, link_fd, peer_ip, pos, at>>
    PROVE  SerialInv'
  BY DEF SerialInv, OneCheckIn, SearchInv, HoldingInv, AddressInv, OneLinkPerAddress

\* A thread ends without touching the table.
LEMMA EndSerial ==
    ASSUME IndInv, SerialInv, NEW t \in Threads,
           EndThread(t), UNCHANGED <<socket_fd, ipaddr, ctrl_tid, mutex>>
    PROVE  SerialInv'
<1>1. SerialTypes
  BY SerialContext
<1>2. /\ pc'[t] = "dead"
      /\ \A u \in Threads : u # t =>
             /\ pc'[u] = pc[u] /\ at'[u] = at[u] /\ pos'[u] = pos[u]
             /\ link_fd'[u] = link_fd[u] /\ peer_ip'[u] = peer_ip[u]
  BY <1>1 DEF SerialTypes, EndThread, Goto
<1>3. "dead" \notin CheckingIn \cup Holding
  BY DEF CheckingIn, Holding, Serving
<1>4. OneCheckIn'
  BY <1>2, <1>3 DEF SerialInv, OneCheckIn
<1>5. SearchInv'
  <2>. SUFFICES ASSUME NEW u \in Threads PROVE SearchInv!(u)'
    BY DEF SearchInv
  <2>1. SearchInv!(u)
    BY DEF SerialInv, SearchInv
  <2>2. CASE u = t
    BY <1>2, <2>2
  <2>3. CASE u # t
    BY <1>2, <2>1, <2>3
  <2>. QED
    BY <2>2, <2>3
<1>6. HoldingInv'
  <2>. SUFFICES ASSUME NEW u \in Threads PROVE HoldingInv!(u)'
    BY DEF HoldingInv
  <2>1. HoldingInv!(u)
    BY DEF SerialInv, HoldingInv
  <2>2. CASE u = t
    BY <1>2, <1>3, <2>2
  <2>3. CASE u # t
    BY <1>2, <2>1, <2>3
  <2>. QED
    BY <2>2, <2>3
<1>7. AddressInv' /\ OneLinkPerAddress'
  BY DEF SerialInv, AddressInv, OneLinkPerAddress
<1>. QED
  BY <1>4, <1>5, <1>6, <1>7 DEF SerialInv

-----------------------------------------------------------------------------
(* SysCheckInCmd *)

\* NetServer.c:252-271: a connection accepted while no other thread is checking
\* in starts its search at the first slot with no slot picked.
LEMMA AcceptSerial ==
    ASSUME IndInv, SerialInv, SerialArrivals,
           NEW t \in Threads, NEW f \in Fds, NEW ip \in Ips, Accept(t, f, ip)
    PROVE  SerialInv'
<1>1. SerialTypes
  BY SerialContext
<1>2. /\ pc[t] = "none" /\ \A u \in Threads : pc[u] \notin CheckingIn
      /\ pc'[t] = "scan" /\ peer_ip'[t] = ip
      /\ \A u \in Threads : u # t =>
             pc'[u] = pc[u] /\ link_fd'[u] = link_fd[u] /\ peer_ip'[u] = peer_ip[u]
      /\ UNCHANGED <<socket_fd, ipaddr, ctrl_tid, mutex, pos, at>>
  BY <1>1 DEF Accept, Goto, SerialTypes, tableVars
<1>3. OneCheckIn'
  BY <1>2 DEF OneCheckIn
<1>4. SearchInv'
  <2>. SUFFICES ASSUME NEW u \in Threads PROVE SearchInv!(u)'
    BY DEF SearchInv
  <2>1. SearchInv!(u)
    BY DEF SerialInv, SearchInv
  <2>2. CASE u = t
    <3>1. \A s \in Slots : ~(s < 1)
      BY DEF Slots
    <3>. QED
      BY <1>2, <2>1, <2>2, <3>1
  <2>3. CASE u # t
    BY <1>2, <2>1, <2>3
  <2>. QED
    BY <2>2, <2>3
<1>5. HoldingInv'
  <2>. SUFFICES ASSUME NEW u \in Threads PROVE HoldingInv!(u)'
    BY DEF HoldingInv
  <2>1. HoldingInv!(u)
    BY DEF SerialInv, HoldingInv
  <2>2. CASE u = t
    BY <1>2, <2>2 DEF Holding, Serving
  <2>3. CASE u # t
    BY <1>2, <2>1, <2>3
  <2>. QED
    BY <2>2, <2>3
<1>6. AddressInv' /\ OneLinkPerAddress'
  BY <1>2 DEF SerialInv, AddressInv, OneLinkPerAddress
<1>. QED
  BY <1>3, <1>4, <1>5, <1>6 DEF SerialInv

\* SysCheckInCmd.c:43-66: a slot that is not a repeated link does not hold the
\* address, because a free slot holds none; after the last slot all have been
\* looked at.
LEMMA ScanSlotSerial ==
    ASSUME IndInv, SerialInv, NEW t \in Threads, ScanSlot(t)
    PROVE  SerialInv'
<1>. USE ConstantsAssumption, Sentinels
<1>1. SerialTypes
  BY SerialContext
<1>2. /\ pc[t] = "scan"
      /\ UNCHANGED <<socket_fd, ipaddr, ctrl_tid, mutex, link_fd, peer_ip>>
      /\ \A u \in Threads : u # t =>
             pc'[u] = pc[u] /\ pos'[u] = pos[u] /\ at'[u] = at[u]
  BY <1>1 DEF ScanSlot, Goto, SerialTypes, tableVars
<1>3. pc'[t] \in {"scan", "refused", "enter"}
  BY <1>1 DEF ScanSlot, Goto, SerialTypes
<1>4. SearchInv!(t)
  BY DEF SerialInv, SearchInv
<1>5. OneCheckIn'
  BY <1>2 DEF SerialInv, CheckingIn, OneCheckIn
<1>6. SearchInv'
  <2>. SUFFICES ASSUME NEW u \in Threads PROVE SearchInv!(u)'
    BY DEF SearchInv
  <2>1. CASE u # t
    BY <1>2, <2>1 DEF SerialInv, SearchInv
  <2>2. CASE u = t
    <3>1. CASE Repeated(t, at[t])
      <4>1. pc'[t] = "refused"
        BY <1>1, <3>1 DEF ScanSlot, Goto, SerialTypes
      <4>. QED
        BY <1>2, <1>4, <2>2, <4>1
    <3>2. CASE ~Repeated(t, at[t])
      <4>1. pos'[t] = FirstFree(t, at[t])
        BY <1>1, <3>2 DEF ScanSlot, SerialTypes
      <4>2. pos'[t] # NoSlot => socket_fd[pos'[t]] = NoFd
        BY <1>2, <1>4, <4>1 DEF FirstFree
      <4>3. peer_ip[t] \in Ips
        BY <1>2, <1>4
      <4>4. ipaddr[at[t]] # peer_ip[t]
        BY <1>1, <3>2, <4>3 DEF Repeated, SerialInv, AddressInv, SerialTypes
      <4>5. \A s \in Slots : s <= at[t] => ipaddr[s] # peer_ip[t]
        BY <1>1, <1>2, <1>4, <4>4 DEF Slots, SerialTypes
      <4>6. CASE at[t] < MaxConnNum
        <5>1. pc'[t] = "scan" /\ at'[t] = at[t] + 1
          BY <1>1, <1>2, <3>2, <4>6 DEF ScanSlot, SerialTypes, Slots
        <5>2. \A s \in Slots : s < at'[t] => ipaddr[s] # peer_ip[t]
          BY <1>1, <4>5, <5>1 DEF Slots, SerialTypes
        <5>. QED
          BY <1>2, <2>2, <4>2, <4>3, <5>1, <5>2
      <4>7. CASE ~(at[t] < MaxConnNum)
        <5>1. pc'[t] = IF pos'[t] = NoSlot THEN "refused" ELSE "enter"
          BY <1>1, <3>2, <4>7 DEF ScanSlot, Goto, SerialTypes
        <5>2. \A s \in Slots : ipaddr[s] # peer_ip[t]
          BY <1>1, <4>5, <4>7 DEF Slots, SerialTypes
        <5>. QED
          BY <1>2, <2>2, <4>2, <4>3, <5>1, <5>2
      <4>. QED
        BY <4>6, <4>7
    <3>. QED
      BY <3>1, <3>2
  <2>. QED
    BY <2>1, <2>2
<1>7. HoldingInv'
  <2>. SUFFICES ASSUME NEW u \in Threads PROVE HoldingInv!(u)'
    BY DEF HoldingInv
  <2>1. HoldingInv!(u)
    BY DEF SerialInv, HoldingInv
  <2>2. CASE u = t
    BY <1>3, <2>2 DEF Holding, Serving
  <2>3. CASE u # t
    BY <1>2, <2>1, <2>3
  <2>. QED
    BY <2>2, <2>3
<1>8. AddressInv' /\ OneLinkPerAddress'
  BY <1>2 DEF SerialInv, AddressInv, OneLinkPerAddress
<1>. QED
  BY <1>5, <1>6, <1>7, <1>8 DEF SerialInv

\* SysCheckInCmd.c:80-83: the slot was free until now, so it is nobody's, and
\* nobody else is checking in who could have picked it.
LEMMA EnterFdSerial ==
    ASSUME IndInv, SerialInv, NEW t \in Threads, EnterFd(t)
    PROVE  SerialInv'
<1>. USE Sentinels
<1>1. SerialTypes /\ pos[t] \in Slots /\ link_fd[t] \in Fds
  BY SerialContext DEF EnterFd
<1>2. /\ pc[t] = "enter" /\ pc'[t] = "entered"
      /\ \A u \in Threads : u # t => pc'[u] = pc[u]
      /\ socket_fd'[pos[t]] = link_fd[t]
      /\ \A s \in Slots : s # pos[t] =>
             socket_fd'[s] = socket_fd[s] /\ mutex'[s] = mutex[s]
      /\ UNCHANGED <<ipaddr, ctrl_tid, link_fd, peer_ip, pos, at>>
  BY <1>1 DEF EnterFd, Goto, SerialTypes, IndInv, TypeOK, localVars
<1>3. /\ socket_fd[pos[t]] = NoFd /\ ipaddr[pos[t]] = NoIp
      /\ peer_ip[t] \in Ips
      /\ \A s \in Slots : ipaddr[s] # peer_ip[t]
      /\ \A u \in Threads : pc[u] \in CheckingIn => u = t
  BY <1>1, <1>2 DEF SerialInv, OneCheckIn, SearchInv, AddressInv, CheckingIn
<1>4. OneCheckIn'
  BY <1>2, <1>3 DEF OneCheckIn
<1>5. SearchInv'
  <2>. SUFFICES ASSUME NEW u \in Threads PROVE SearchInv!(u)'
    BY DEF SearchInv
  <2>1. SearchInv!(u)
    BY DEF SerialInv, SearchInv
  <2>2. CASE u = t
    BY <1>2, <1>3, <2>2
  <2>3. CASE u # t
    BY <1>2, <1>3, <2>1, <2>3 DEF CheckingIn
  <2>. QED
    BY <2>2, <2>3
<1>6. HoldingInv'
  <2>. SUFFICES ASSUME NEW u \in Threads PROVE HoldingInv!(u)'
    BY DEF HoldingInv
  <2>1. HoldingInv!(u)
    BY DEF SerialInv, HoldingInv
  <2>2. CASE u = t
    BY <1>2, <2>2 DEF Holding, Serving
  <2>3. CASE u # t
    <3>1. pc[u] \in Holding => pos[u] \in Slots /\ link_fd[u] \in Fds
      BY SerialContext DEF Holding, Registered, Serving
    <3>2. pc[u] \in Holding => pos[u] # pos[t]
      BY <1>3, <2>1, <3>1
    <3>. QED
      BY <1>2, <2>1, <2>3, <3>1, <3>2
  <2>. QED
    BY <2>2, <2>3
<1>7. AddressInv'
  BY <1>1, <1>2, <1>3 DEF SerialInv, AddressInv
<1>8. OneLinkPerAddress'
  BY <1>2 DEF SerialInv, OneLinkPerAddress
<1>. QED
  BY <1>4, <1>5, <1>6, <1>7, <1>8 DEF SerialInv

\* SysCheckInCmd.c:84-91: the address becomes visible in the one slot that has
\* it; every other thread's slot is another one.
LEMMA EnterRestSerial ==
    ASSUME IndInv, SerialInv, NEW t \in Threads, EnterRest(t)
    PROVE  SerialInv'
<1>. USE Sentinels
<1>1. SerialTypes /\ pos[t] \in Slots /\ link_fd[t] \in Fds /\ fd_owner[link_fd[t]] = t
      /\ socket_fd[pos[t]] = link_fd[t] /\ mutex[pos[t]] = t
  <2>1. pc[t] = "entered"
    BY DEF EnterRest
  <2>2. socket_fd[pos[t]] = link_fd[t] /\ mutex[pos[t]] = t
    BY <2>1 DEF IndInv, ThreadsInv
  <2>. QED
    BY <2>1, <2>2, SerialContext DEF Registered
<1>2. /\ pc[t] = "entered" /\ pc'[t] = "lookup"
      /\ \A u \in Threads : u # t => pc'[u] = pc[u]
      /\ ipaddr'[pos[t]] = peer_ip[t] /\ ctrl_tid'[pos[t]] = t
      /\ mutex'[pos[t]] = NoTid
      /\ \A s \in Slots : s # pos[t] =>
             /\ ipaddr'[s] = ipaddr[s] /\ ctrl_tid'[s] = ctrl_tid[s]
             /\ mutex'[s] = mutex[s]
      /\ UNCHANGED <<socket_fd, link_fd, peer_ip, pos, at>>
  BY <1>1 DEF EnterRest, Goto, SerialTypes, IndInv, TypeOK, localVars
<1>3. /\ peer_ip[t] \in Ips
      /\ \A s \in Slots : ipaddr[s] # peer_ip[t]
      /\ \A u \in Threads : pc[u] \in CheckingIn => u = t
  BY <1>2 DEF SerialInv, OneCheckIn, SearchInv, CheckingIn
<1>4. OneCheckIn'
  BY <1>2, <1>3 DEF CheckingIn, OneCheckIn
<1>5. SearchInv'
  <2>. SUFFICES ASSUME NEW u \in Threads PROVE SearchInv!(u)'
    BY DEF SearchInv
  <2>1. SearchInv!(u)
    BY DEF SerialInv, SearchInv
  <2>2. CASE u = t
    BY <1>2, <1>3, <2>2
  <2>3. CASE u # t
    BY <1>2, <1>3, <2>1, <2>3 DEF CheckingIn
  <2>. QED
    BY <2>2, <2>3
<1>6. HoldingInv'
  <2>. SUFFICES ASSUME NEW u \in Threads PROVE HoldingInv!(u)'
    BY DEF HoldingInv
  <2>1. HoldingInv!(u)
    BY DEF SerialInv, HoldingInv
  <2>2. CASE u = t
    BY <1>1, <1>2, <2>2
  <2>3. CASE u # t
    <3>1. pc[u] \in Holding =>
              pos[u] \in Slots /\ link_fd[u] \in Fds /\ fd_owner[link_fd[u]] = u
      BY SerialContext DEF Holding, Registered, Serving
    <3>2. pc[u] \in Holding => pos[u] # pos[t]
      BY <1>1, <2>1, <2>3, <3>1
    <3>3. pc[u] = "delrest" => pc[u] \in Holding
      BY DEF Holding
    <3>. QED
      BY <1>2, <2>1, <2>3, <3>1, <3>2, <3>3
  <2>. QED
    BY <2>2, <2>3
<1>7. AddressInv'
  BY <1>1, <1>2 DEF SerialInv, AddressInv
<1>8. OneLinkPerAddress'
  BY <1>1, <1>2, <1>3 DEF SerialInv, OneLinkPerAddress
<1>. QED
  BY <1>4, <1>5, <1>6, <1>7, <1>8 DEF SerialInv

-----------------------------------------------------------------------------
(* Link_Ctrl_Cleanup *)

\* CtrlLinkTbl.c:88-104: DelFromLinkTbl finds the slot the thread entered, as
\* its descriptor stands in no other.
LEMMA DelFindSerial ==
    ASSUME IndInv, SerialInv, NEW t \in Threads, DelFind(t)
    PROVE  SerialInv'
<1>1. SerialTypes
  BY SerialContext
<1>2. /\ pc[t] = "cleanup" /\ pc'[t] \in {"delip", "close"}
      /\ \A u \in Threads : u # t => pc'[u] = pc[u] /\ at'[u] = at[u]
      /\ UNCHANGED <<socket_fd, ipaddr, ctrl_tid, mutex, link_fd, peer_ip, pos>>
  BY <1>1 DEF DelFind, Goto, SerialTypes, tableVars
<1>3. OneCheckIn'
  BY <1>2 DEF SerialInv, CheckingIn, OneCheckIn
<1>4. SearchInv'
  <2>. SUFFICES ASSUME NEW u \in Threads PROVE SearchInv!(u)'
    BY DEF SearchInv
  <2>1. SearchInv!(u)
    BY DEF SerialInv, SearchInv
  <2>2. CASE u = t
    BY <1>2, <2>1, <2>2
  <2>3. CASE u # t
    BY <1>2, <2>1, <2>3
  <2>. QED
    BY <2>2, <2>3
<1>5. HoldingInv'
  <2>. SUFFICES ASSUME NEW u \in Threads PROVE HoldingInv!(u)'
    BY DEF HoldingInv
  <2>1. HoldingInv!(u)
    BY DEF SerialInv, HoldingInv
  <2>2. CASE u = t
    BY <1>2, <2>1, <2>2 DEF Holding
  <2>3. CASE u # t
    BY <1>2, <2>1, <2>3
  <2>. QED
    BY <2>2, <2>3
<1>6. AddressInv' /\ OneLinkPerAddress'
  BY <1>2 DEF SerialInv, AddressInv, OneLinkPerAddress
<1>. QED
  BY <1>3, <1>4, <1>5, <1>6 DEF SerialInv

\* CtrlLinkTbl.c:106-107: the address goes first, so nobody finds it repeated.
LEMMA DelIpSerial ==
    ASSUME IndInv, SerialInv, NEW t \in Threads, DelIp(t)
    PROVE  SerialInv'
<1>. USE Sentinels
<1>1. /\ SerialTypes /\ pos[t] \in Slots /\ at[t] = pos[t]
      /\ pc[t] = "delip" /\ pc[t] \in Holding
  BY SerialContext DEF DelIp, IndInv, ThreadsInv, Holding, Registered
<1>2. /\ pc'[t] = "delrest"
      /\ \A u \in Threads : u # t => pc'[u] = pc[u]
      /\ ipaddr'[pos[t]] = NoIp
      /\ \A s \in Slots : s # pos[t] =>
             ipaddr'[s] = ipaddr[s] /\ mutex'[s] = mutex[s]
      /\ UNCHANGED <<socket_fd, ctrl_tid, link_fd, peer_ip, pos, at>>
  BY <1>1 DEF DelIp, Goto, SerialTypes, IndInv, TypeOK, localVars
<1>3. NoIp \notin Ips
  BY ConstantsAssumption
<1>4. OneCheckIn'
  BY <1>2 DEF SerialInv, CheckingIn, OneCheckIn
<1>5. SearchInv'
  <2>. SUFFICES ASSUME NEW u \in Threads PROVE SearchInv!(u)'
    BY DEF SearchInv
  <2>1. SearchInv!(u)
    BY DEF SerialInv, SearchInv
  <2>2. CASE u = t
    BY <1>1, <1>2, <2>1, <2>2
  <2>3. CASE u # t
    <3>1. \A s \in Slots : ipaddr[s] # peer_ip[u] /\ peer_ip[u] \in Ips
                              => ipaddr'[s] # peer_ip[u]
      BY <1>2, <1>3
    <3>2. pc[u] = "entered" => pos[u] \in Slots
      BY SerialContext DEF Registered
    <3>3. pc[u] = "entered" => ipaddr'[pos[u]] = NoIp
      BY <1>2, <2>1, <3>2
    <3>. QED
      BY <1>2, <2>1, <2>3, <3>1, <3>3
  <2>. QED
    BY <2>2, <2>3
<1>6. HoldingInv'
  <2>. SUFFICES ASSUME NEW u \in Threads PROVE HoldingInv!(u)'
    BY DEF HoldingInv
  <2>1. HoldingInv!(u)
    BY DEF SerialInv, HoldingInv
  <2>2. CASE u = t
    BY <1>1, <1>2, <2>1, <2>2
  <2>3. CASE u # t
    <3>1. pc[u] = "delrest" => pos[u] \in Slots
      BY SerialContext DEF Registered
    <3>2. pc[u] = "delrest" => ipaddr'[pos[u]] = NoIp
      BY <1>2, <2>1, <3>1
    <3>. QED
      BY <1>2, <2>1, <2>3, <3>2
  <2>. QED
    BY <2>2, <2>3
<1>7. AddressInv'
  BY <1>1, <1>2 DEF SerialInv, AddressInv, SerialTypes
<1>8. OneLinkPerAddress'
  BY <1>2 DEF SerialInv, OneLinkPerAddress
<1>. QED
  BY <1>4, <1>5, <1>6, <1>7, <1>8 DEF SerialInv

\* CtrlLinkTbl.c:108-113: the slot is free, and its address is gone already.
LEMMA DelRestSerial ==
    ASSUME IndInv, SerialInv, NEW t \in Threads, DelRest(t)
    PROVE  SerialInv'
<1>. USE Sentinels
<1>1. /\ SerialTypes /\ pos[t] \in Slots /\ at[t] = pos[t]
      /\ pc[t] = "delrest" /\ pc[t] \in Holding
      /\ link_fd[t] \in Fds /\ fd_owner[link_fd[t]] = t
  BY SerialContext DEF DelRest, IndInv, ThreadsInv, Holding, Registered
<1>2. /\ pc'[t] = "close"
      /\ \A u \in Threads : u # t => pc'[u] = pc[u]
      /\ socket_fd'[pos[t]] = NoFd
      /\ \A s \in Slots : s # pos[t] =>
             /\ socket_fd'[s] = socket_fd[s] /\ ctrl_tid'[s] = ctrl_tid[s]
             /\ mutex'[s] = mutex[s]
      /\ UNCHANGED <<ipaddr, link_fd, peer_ip, pos, at>>
  BY <1>1 DEF DelRest, Goto, SerialTypes, IndInv, TypeOK, localVars
<1>3. socket_fd[pos[t]] = link_fd[t] /\ ipaddr[pos[t]] = NoIp
  BY <1>1 DEF SerialInv, HoldingInv
<1>4. OneCheckIn'
  BY <1>2 DEF SerialInv, CheckingIn, OneCheckIn
<1>5. SearchInv'
  <2>. SUFFICES ASSUME NEW u \in Threads PROVE SearchInv!(u)'
    BY DEF SearchInv
  <2>1. SearchInv!(u)
    BY DEF SerialInv, SearchInv
  <2>2. CASE u = t
    BY <1>1, <1>2, <2>1, <2>2
  <2>3. CASE u # t
    <3>1. pos[u] # NoSlot => pos[u] \in Slots
      BY <1>1 DEF SerialTypes
    <3>2. pc[u] = "enter" => pos[u] \in Slots
      BY SerialContext
    <3>. QED
      BY <1>2, <2>1, <2>3, <3>1, <3>2
  <2>. QED
    BY <2>2, <2>3
<1>6. HoldingInv'
  <2>. SUFFICES ASSUME NEW u \in Threads PROVE HoldingInv!(u)'
    BY DEF HoldingInv
  <2>1. HoldingInv!(u)
    BY DEF SerialInv, HoldingInv
  <2>2. CASE u = t
    BY <1>1, <1>2, <2>1, <2>2 DEF Holding, Serving
  <2>3. CASE u # t
    <3>1. pc[u] \in Holding =>
              pos[u] \in Slots /\ link_fd[u] \in Fds /\ fd_owner[link_fd[u]] = u
      BY SerialContext DEF Holding, Registered, Serving
    <3>2. pc[u] \in Holding => pos[u] # pos[t]
      BY <1>1, <1>3, <2>1, <2>3, <3>1
    <3>. QED
      BY <1>2, <2>1, <2>3, <3>1, <3>2
  <2>. QED
    BY <2>2, <2>3
<1>7. AddressInv'
  BY <1>2, <1>3 DEF SerialInv, AddressInv
<1>8. OneLinkPerAddress'
  BY <1>2 DEF SerialInv, OneLinkPerAddress
<1>. QED
  BY <1>4, <1>5, <1>6, <1>7, <1>8 DEF SerialInv

-----------------------------------------------------------------------------
(* RecvOneFrame, the handlers, and the rest *)

\* RecvOneFrame.c:113-134 and HandShakeCmd.c:34: a slot found by descriptor is
\* the slot the thread entered.
LEMMA FoundSlotIsOwn ==
    ASSUME IndInv, SerialInv, NEW t \in Threads, pc[t] \in Serving,
           NEW s \in Slots, HoldsFd(s, link_fd[t])
    PROVE  s = pos[t]
<1>1. socket_fd[pos[t]] = link_fd[t] /\ pos[t] \in Slots /\ link_fd[t] \in Fds
  BY SerialContext DEF SerialInv, HoldingInv, Holding, Registered, Serving
<1>. QED
  BY <1>1, Sentinels DEF HoldsFd, IndInv, TableSound

\* A served link's step is one of ServingSerial.
LEMMA ServedStepsSerial ==
    ASSUME IndInv, SerialInv, NEW t \in Threads,
           \/ Lookup(t) \/ (\E k \in 1..MaxSend : Recv(t, k)) \/ RecvEnd(t)
           \/ Store(t) \/ DispatchHandShake(t) \/ DispatchOther(t)
           \/ HandShakeReset(t) \/ WorkDone(t) \/ Reply(t) \/ Unwind(t)
    PROVE  SerialInv'
<1>1. at \in [Threads -> Slots]
  BY SerialContext DEF SerialTypes
<1>2. pc[t] \in {"recv", "store", "reset"} => at[t] = pos[t]
  BY DEF SerialInv, HoldingInv
<1>3. CASE Lookup(t)
  <2>1. pc[t] \in Serving
    BY <1>3 DEF Lookup, Serving
  <2>2. \/ \E s \in Slots : /\ HoldsFd(s, link_fd[t]) /\ at' = [at EXCEPT ![t] = s]
                            /\ \/ pc' = [pc EXCEPT ![t] = "recv"]
                               \/ pc' = [pc EXCEPT ![t] = "store"]
        \/ at' = at /\ pc' = [pc EXCEPT ![t] = "cleanup"]
    BY <1>3 DEF Lookup, Goto
  <2>3. UNCHANGED <<socket_fd, ipaddr, ctrl_tid, mutex, link_fd, peer_ip, pos>>
    BY <1>3 DEF Lookup
  <2>. QED
    BY <1>1, <2>1, <2>2, <2>3, ServingSerial, FoundSlotIsOwn DEF Serving
<1>4. CASE (\E k \in 1..MaxSend : Recv(t, k)) \/ RecvEnd(t)
  <2>1. /\ pc[t] = "recv"
        /\ pc' = [pc EXCEPT ![t] = "store"] \/ pc' = [pc EXCEPT ![t] = "cleanup"]
        /\ UNCHANGED <<socket_fd, ipaddr, ctrl_tid, mutex, link_fd, peer_ip, pos, at>>
    BY <1>4 DEF Recv, RecvEnd, Goto, tableVars, localVars
  <2>. QED
    BY <1>2, <2>1, ServingSerial DEF Serving
<1>5. CASE Store(t)
  <2>1. /\ pc[t] = "store" /\ pc' = [pc EXCEPT ![t] = "dispatch"]
        /\ UNCHANGED <<socket_fd, ipaddr, ctrl_tid, mutex, link_fd, peer_ip, pos, at>>
    BY <1>5 DEF Store, Goto
  <2>. QED
    BY <2>1, ServingSerial DEF Serving
<1>6. CASE DispatchHandShake(t)
  <2>1. /\ pc[t] = "dispatch"
        /\ \/ \E s \in Slots : /\ HoldsFd(s, link_fd[t]) /\ at' = [at EXCEPT ![t] = s]
                               /\ pc' = [pc EXCEPT ![t] = "reset"]
           \/ at' = at /\ pc' = [pc EXCEPT ![t] = "lookup"]
        /\ UNCHANGED <<socket_fd, ipaddr, ctrl_tid, mutex, link_fd, peer_ip, pos>>
    BY <1>6 DEF DispatchHandShake, Goto, tableVars
  <2>. QED
    BY <1>1, <2>1, ServingSerial, FoundSlotIsOwn DEF Serving
<1>7. CASE DispatchOther(t)
  <2>1. /\ pc[t] = "dispatch"
        /\ pc' = [pc EXCEPT ![t] = "work"] \/ pc' = [pc EXCEPT ![t] = "lookup"]
        /\ UNCHANGED <<socket_fd, ipaddr, ctrl_tid, mutex, link_fd, peer_ip, pos, at>>
    BY <1>7 DEF DispatchOther, Goto, tableVars
  <2>. QED
    BY <2>1, ServingSerial DEF Serving
<1>8. CASE HandShakeReset(t) \/ WorkDone(t) \/ Reply(t)
  <2>1. /\ pc[t] \in {"reset", "work", "reply"}
        /\ pc' = [pc EXCEPT ![t] = "reply"] \/ pc' = [pc EXCEPT ![t] = "lookup"]
        /\ UNCHANGED <<socket_fd, ipaddr, ctrl_tid, mutex, link_fd, peer_ip, pos, at>>
    BY <1>8 DEF HandShakeReset, WorkDone, Reply, Goto, tableVars, localVars
  <2>. QED
    BY <2>1, ServingSerial DEF Serving
<1>9. CASE Unwind(t)
  <2>1. /\ pc[t] \in Serving /\ pc' = [pc EXCEPT ![t] = "cleanup"]
        /\ UNCHANGED <<socket_fd, ipaddr, ctrl_tid, mutex, link_fd, peer_ip, pos, at>>
    BY <1>9 DEF Unwind, AtCancellationPoint, Goto, Serving, tableVars
  <2>. QED
    BY <2>1, ServingSerial
<1>. QED
  BY <1>3, <1>4, <1>5, <1>6, <1>7, <1>8, <1>9

\* The timer and the clients leave the table's registrations alone, and so do
\* the steps that end the process.
LEMMA OthersSerial ==
    ASSUME SerialInv,
           \/ Timer \/ AcceptFails \/ (\E t \in Threads : Peer(t) \/ ReplyBroken(t))
           \/ UNCHANGED vars
    PROVE  SerialInv'
<1>1. UNCHANGED <<socket_fd, ipaddr, ctrl_tid, mutex, pc, link_fd, peer_ip, pos, at>>
  <2>1. CASE Timer
    BY <2>1 DEF Timer, TimerCheck, TimerTick, TimerWake, tableVars, localVars
  <2>2. CASE AcceptFails
    BY <2>2 DEF AcceptFails, tableVars, localVars
  <2>3. CASE \E t \in Threads : Peer(t) \/ ReplyBroken(t)
    BY <2>3 DEF Peer, PeerSend, PeerClose, ReplyBroken, tableVars, localVars
  <2>4. CASE UNCHANGED vars
    BY <2>4 DEF vars, tableVars, localVars
  <2>. QED
    BY <2>1, <2>2, <2>3, <2>4
<1>. QED
  BY <1>1, QuietSerial

\* Every step of an environment with SerialArrivals preserves SerialInv.
LEMMA NextSerial ==
    ASSUME SerialArrivals, IndInv, SerialInv, [Next]_vars
    PROVE  SerialInv'
<1>1. CASE Server
  BY <1>1, AcceptSerial, OthersSerial DEF Server
<1>2. ASSUME NEW t \in Threads, LinkOwnStep(t) PROVE SerialInv'
  <2>1. CASE Refuse(t) \/ CancelledInCleanup(t) \/ Close(t)
    BY <2>1, EndSerial DEF Refuse, CancelledInCleanup, Close, tableVars
  <2>. QED
    BY <1>2, <2>1, ScanSlotSerial, EnterFdSerial, EnterRestSerial,
       DelFindSerial, DelIpSerial, DelRestSerial, ServedStepsSerial
       DEF LinkOwnStep
<1>3. ASSUME NEW t \in Threads, LinkWaitingStep(t) PROVE SerialInv'
  BY <1>3, ServedStepsSerial, OthersSerial DEF LinkWaitingStep
<1>4. CASE Timer \/ (\E t \in Threads : Peer(t)) \/ UNCHANGED vars
  BY <1>4, OthersSerial
<1>. QED
  BY <1>1, <1>2, <1>3, <1>4 DEF Next, Link

\* The empty table.
LEMMA InitSerial == Init => SerialInv
<1>. SUFFICES ASSUME Init PROVE SerialInv
  OBVIOUS
<1>. USE Sentinels DEF Init, InitCtrlLinkTbl
<1>1. \A t \in Threads : pc[t] = "none" /\ "none" \notin CheckingIn \cup Holding
  BY DEF CheckingIn, Holding, Serving
<1>. QED
  BY <1>1 DEF SerialInv, OneCheckIn, SearchInv, HoldingInv, AddressInv, OneLinkPerAddress

-----------------------------------------------------------------------------
(* The table implements the registry *)

\* Slots whose address is visible.
Used == {s \in Slots : ipaddr[s] # NoIp}

\* A step that leaves addresses alone, and the threads of the slots that have
\* one, registers and unregisters nothing.
LEMMA SameLinks ==
    ASSUME UNCHANGED ipaddr, \A s \in Used : ctrl_tid'[s] = ctrl_tid[s]
    PROVE  UNCHANGED Links
<1>1. Used' = Used
  BY DEF Used
<1>2. Links = {<<ctrl_tid[s], ipaddr[s]>> : s \in Used}
  BY DEF Links, Used
<1>3. Links' = {<<ctrl_tid'[s], ipaddr'[s]>> : s \in Used'}
  BY DEF Links, Used
<1>. QED
  BY <1>1, <1>2, <1>3

\* There are no more links than slots in use.
LEMMA LinksBound ==
    ASSUME NEW s \in Slots, ipaddr[s] = NoIp
    PROVE  Cardinality(Links) < MaxConnNum
<1>. DEFINE link == [r \in Used |-> <<ctrl_tid[r], ipaddr[r]>>]
<1>1. MaxConnNum \in Nat \ {0}
  BY ConstantsAssumption
<1>2. IsFiniteSet(Slots) /\ Cardinality(Slots) = MaxConnNum
  BY <1>1, FS_Interval DEF Slots
<1>3. IsFiniteSet(Slots \ {s}) /\ Cardinality(Slots \ {s}) = MaxConnNum - 1
  BY <1>2, FS_RemoveElement
<1>4. Used \in SUBSET (Slots \ {s})
  BY DEF Used
<1>5. IsFiniteSet(Used) /\ Cardinality(Used) <= MaxConnNum - 1
  BY <1>3, <1>4, FS_Subset
<1>6. link \in Surjection(Used, Links)
  <2>1. link \in [Used -> Links]
    BY DEF Links, Used
  <2>2. \A l \in Links : \E r \in Used : link[r] = l
    BY DEF Links, Used
  <2>. QED
    BY <2>1, <2>2 DEF Surjection
<1>7. IsFiniteSet(Links) /\ Cardinality(Links) <= Cardinality(Used)
  BY <1>5, <1>6, FS_Surjection
<1>8. Cardinality(Links) \in Nat /\ Cardinality(Used) \in Nat
  BY <1>5, <1>7, FS_CardinalityType
<1>. QED
  BY <1>1, <1>5, <1>7, <1>8

\* SysCheckInCmd.c:84-91 registers one link, of a new thread and a new address.
LEMMA EnterRestRegisters ==
    ASSUME IndInv, SerialInv, NEW t \in Threads, EnterRest(t)
    PROVE  Registry!Register(t, peer_ip[t])
<1>. USE Sentinels
<1>1. /\ SerialTypes /\ pc[t] = "entered" /\ pos[t] \in Slots
      /\ link_fd[t] \in Fds /\ fd_owner[link_fd[t]] = t
      /\ mutex[pos[t]] = t /\ socket_fd[pos[t]] = link_fd[t]
  <2>1. pc[t] = "entered"
    BY DEF EnterRest
  <2>2. mutex[pos[t]] = t /\ socket_fd[pos[t]] = link_fd[t]
    BY <2>1 DEF IndInv, ThreadsInv
  <2>. QED
    BY <2>1, <2>2, SerialContext DEF Registered
<1>2. ipaddr[pos[t]] = NoIp /\ peer_ip[t] \in Ips /\ \A s \in Slots : ipaddr[s] # peer_ip[t]
  BY <1>1 DEF SerialInv, SearchInv
<1>3. /\ ipaddr'[pos[t]] = peer_ip[t] /\ ctrl_tid'[pos[t]] = t
      /\ \A s \in Slots : s # pos[t] =>
             ipaddr'[s] = ipaddr[s] /\ ctrl_tid'[s] = ctrl_tid[s]
  BY <1>1 DEF EnterRest, SerialTypes
<1>4. Cardinality(Links) < MaxConnNum
  BY <1>1, <1>2, LinksBound
<1>5. \A l \in Links : l[1] # t /\ l[2] # peer_ip[t]
  <2>. SUFFICES ASSUME NEW s \in Slots, ipaddr[s] # NoIp
                PROVE  ctrl_tid[s] # t /\ ipaddr[s] # peer_ip[t]
    BY DEF Links
  <2>1. ctrl_tid[s] # t
    <3>1. socket_fd[s] # NoFd /\ mutex[s] = NoTid
      BY DEF SerialInv, AddressInv
    <3>2. ctrl_tid[s] = fd_owner[socket_fd[s]]
      BY <3>1 DEF IndInv, TableSound, Unlocked
    <3>3. fd_owner[socket_fd[s]] = t => pos[t] = s
      BY <1>1, <3>1 DEF IndInv, OwnersInv
    <3>. QED
      BY <1>2, <3>2, <3>3
  <2>. QED
    BY <1>2, <2>1
<1>6. Links' = Links \cup {<<t, peer_ip[t]>>}
  <2>1. Used' = Used \cup {pos[t]} /\ pos[t] \notin Used
    BY <1>1, <1>2, <1>3, ConstantsAssumption DEF Used
  <2>2. Links = {<<ctrl_tid[s], ipaddr[s]>> : s \in Used}
    BY DEF Links, Used
  <2>3. Links' = {<<ctrl_tid'[s], ipaddr'[s]>> : s \in Used'}
    BY DEF Links, Used
  <2>4. \A s \in Used : s # pos[t] /\ s \in Slots
    BY <2>1 DEF Used
  <2>. QED
    BY <1>3, <2>1, <2>2, <2>3, <2>4
<1>. QED
  BY <1>4, <1>5, <1>6 DEF Registry!Register, Registry!Cardinality, Cardinality

\* CtrlLinkTbl.c:106-107 takes one link out of the registry.
LEMMA DelIpUnregisters ==
    ASSUME IndInv, SerialInv, NEW t \in Threads, DelIp(t)
    PROVE  [Registry!Next]_Links
<1>. USE Sentinels
<1>1. /\ SerialTypes /\ pos[t] \in Slots /\ at[t] = pos[t]
  BY SerialContext DEF DelIp, IndInv, ThreadsInv, Registered
<1>2. /\ ipaddr'[pos[t]] = NoIp
      /\ \A s \in Slots : s # pos[t] => ipaddr'[s] = ipaddr[s]
      /\ UNCHANGED ctrl_tid
  BY <1>1 DEF DelIp, SerialTypes
<1>3. CASE ipaddr[pos[t]] = NoIp
  <2>1. \A s \in Slots : ipaddr'[s] = ipaddr[s]
    BY <1>2, <1>3
  <2>2. UNCHANGED Links
    BY <1>2, <2>1 DEF Links
  <2>. QED
    BY <2>2
<1>4. CASE ipaddr[pos[t]] # NoIp
  <2>. DEFINE gone == <<ctrl_tid[pos[t]], ipaddr[pos[t]]>>
  <2>1. gone \in Links
    BY <1>1, <1>4 DEF Links
  <2>2. Used' = Used \ {pos[t]}
    BY <1>1, <1>2, <1>4 DEF Used
  <2>3. Links = {<<ctrl_tid[s], ipaddr[s]>> : s \in Used}
    BY DEF Links, Used
  <2>4. Links' = {<<ctrl_tid'[s], ipaddr'[s]>> : s \in Used'}
    BY DEF Links, Used
  <2>5. \A s \in Used : s \in Slots /\ (s # pos[t] => ipaddr[s] # ipaddr[pos[t]])
    BY <1>1, <1>4 DEF Used, SerialInv, OneLinkPerAddress
  <2>6. Links' = Links \ {gone}
    BY <1>2, <2>2, <2>3, <2>4, <2>5
  <2>. QED
    BY <2>1, <2>6 DEF Registry!Next, Registry!Unregister
<1>. QED
  BY <1>3, <1>4

\* CtrlLinkTbl.c:108-113 clears the thread of a slot without an address.
LEMMA DelRestKeeps ==
    ASSUME IndInv, SerialInv, NEW t \in Threads, DelRest(t)
    PROVE  UNCHANGED Links
<1>1. /\ SerialTypes /\ pos[t] \in Slots /\ at[t] = pos[t] /\ pc[t] = "delrest"
  BY SerialContext DEF DelRest, IndInv, ThreadsInv, Registered
<1>2. ipaddr[pos[t]] = NoIp
  BY <1>1 DEF SerialInv, HoldingInv
<1>3. UNCHANGED ipaddr /\ \A s \in Used : ctrl_tid'[s] = ctrl_tid[s]
  BY <1>1, <1>2 DEF DelRest, Used, SerialTypes
<1>. QED
  BY <1>3, SameLinks

\* Every step is a step of the registry or changes nothing it shows.
LEMMA RegistryStep ==
    ASSUME IndInv, SerialInv, [Next]_vars
    PROVE  [Registry!Next]_Links
<1>1. UNCHANGED <<ipaddr, ctrl_tid>> => UNCHANGED Links
  BY SameLinks
<1>2. ASSUME NEW t \in Threads, LinkOwnStep(t) PROVE [Registry!Next]_Links
  <2>1. CASE EnterRest(t)
    <3>1. peer_ip[t] \in Ips
      BY <2>1 DEF EnterRest, SerialInv, SearchInv
    <3>. QED
      BY <2>1, <3>1, EnterRestRegisters DEF Registry!Next
  <2>2. CASE DelIp(t)
    BY <2>2, DelIpUnregisters
  <2>3. CASE DelRest(t)
    BY <2>3, DelRestKeeps
  <2>4. CASE ~(EnterRest(t) \/ DelIp(t) \/ DelRest(t))
    <3>1. UNCHANGED <<ipaddr, ctrl_tid>>
      BY <1>2, <2>4 DEF LinkOwnStep, ScanSlot, EnterFd, Refuse, Lookup, Store,
         DispatchHandShake, DispatchOther, HandShakeReset, Unwind,
         CancelledInCleanup, DelFind, Close, tableVars
    <3>. QED
      BY <1>1, <3>1
  <2>. QED
    BY <2>1, <2>2, <2>3, <2>4
<1>3. ASSUME NEW t \in Threads, LinkWaitingStep(t) \/ Peer(t)
      PROVE  [Registry!Next]_Links
  BY <1>1, <1>3 DEF LinkWaitingStep, Recv, RecvEnd, WorkDone, Reply,
     ReplyBroken, Peer, PeerSend, PeerClose, tableVars
<1>4. CASE Server \/ Timer \/ UNCHANGED vars
  BY <1>1, <1>4 DEF Server, Accept, AcceptFails, Timer, TimerCheck, TimerTick,
     TimerWake, vars, tableVars
<1>. QED
  BY <1>2, <1>3, <1>4 DEF Next, Link

-----------------------------------------------------------------------------

\* Both invariants hold in every reachable state when connections are spaced
\* out (NetServer.c:252-271 against SysCheckInCmd.c:31-93).
THEOREM SerialInductive ==
    ASSUME SerialArrivals PROVE Spec => [](IndInv /\ SerialInv)
<1>1. Init => IndInv /\ SerialInv
  BY InitIndInv, InitSerial
<1>2. IndInv /\ SerialInv /\ [Next]_vars => (IndInv /\ SerialInv)'
  BY NextIndInv, NextSerial
<1>. QED
  BY <1>1, <1>2, PTL DEF Spec

\* SysCheckInCmd.c:47-54: a client address is registered in at most one slot,
\* for any number of slots and connections.
THEOREM RepeatedLinksRefused ==
    ASSUME SerialArrivals PROVE Spec => []OneLinkPerAddress
<1>1. IndInv /\ SerialInv => OneLinkPerAddress
  BY DEF SerialInv
<1>. QED
  BY <1>1, SerialInductive, PTL

\* CtrlLinkTbl.c:88-113, HandShakeCmd.c:34: the slot a link is served in is its
\* own from check-in to clean-up.
THEOREM ServedLinksRegistered ==
    ASSUME SerialArrivals PROVE Spec => []ServedIsRegistered
<1>1. IndInv /\ SerialInv => ServedIsRegistered
  BY DEF SerialInv, HoldingInv, Holding, ServedIsRegistered
<1>. QED
  BY <1>1, SerialInductive, PTL

\* CtrlLinkTbl implements a register of at most MAX_CONN_NUM links, one per
\* client address and one per thread.
THEOREM TableImplementsRegistry ==
    ASSUME SerialArrivals PROVE Spec => ImplementsRegistry
<1>1. Init => Registry!Init
  BY DEF Init, InitCtrlLinkTbl, Registry!Init, Links
<1>2. IndInv /\ SerialInv /\ [Next]_vars => [Registry!Next]_Links
  BY RegistryStep
<1>. QED
  BY <1>1, <1>2, SerialInductive, PTL DEF Spec, ImplementsRegistry, Registry!Spec

-----------------------------------------------------------------------------
(* FramesInOrder: RecvOneFrame's hand-over of frames through the slot of     *)
(* CtrlLinkTbl keeps them in order.  FramesInv is inductive relative to      *)
(* IndInv and SerialInv.                                                    *)

\* What a link has of its frames before it handles the next one.
Waiting(t) == IF pc[t] = "store" THEN bufleft[t] ELSE unhandled_buf[pos[t]]

\* n frames of t, the first of them the one after the frame numbered d.
FramesAfter(t, d, n) == [j \in 1..n |-> <<t, d + j>>]

NoFrameOf(t, frames) == \A j \in DOMAIN frames : frames[j][1] # t

\* What waits is all the link's own, or all left there by earlier links.
OwnOrForeign(t) ==
    /\ done[t] <= taken[t]
    /\ \/ Waiting(t) = FramesAfter(t, done[t], taken[t] - done[t])
       \/ done[t] = taken[t] /\ NoFrameOf(t, Waiting(t))

\* Nothing has been read from a connection that is not served yet.
Unread(t) ==
    /\ taken[t] = 0 /\ done[t] = 0
    /\ \A s \in Slots : NoFrameOf(t, unhandled_buf[s])
    /\ \A u \in Threads : NoFrameOf(t, bufleft[u])

\* RecvOneFrame reads from the socket only when the slot's buffer is empty.
FramesInv ==
    \A t \in Threads :
        /\ pc[t] \in Serving => OwnOrForeign(t)
        /\ pc[t] = "recv" => unhandled_buf[pos[t]] = << >>
        /\ pc[t] \in {"none"} \cup CheckingIn => Unread(t)

\* The types FramesInv needs.
FrameTypes ==
    /\ pc \in [Threads -> LinkPcs]
    /\ pos \in [Threads -> Slots \cup {NoSlot}]
    /\ bufleft \in [Threads -> Seq(Frames)]
    /\ unhandled_buf \in [Slots -> Seq(Frames)]
    /\ taken \in [Threads -> 0..MaxSend]
    /\ done \in [Threads -> 0..MaxSend]

LEMMA HasFrameTypes == IndInv => FrameTypes
  BY DEF IndInv, TypeOK, FrameTypes

\* Links being served use slots of their own.
LEMMA SlotsApart ==
    ASSUME IndInv, SerialInv, NEW t \in Threads, NEW u \in Threads, t # u,
           pc[t] \in Serving, pc[u] \in Serving
    PROVE  pos[t] \in Slots /\ pos[u] \in Slots /\ pos[t] # pos[u]
<1>1. \A v \in {t, u} :
          /\ pos[v] \in Slots /\ link_fd[v] \in Fds /\ fd_owner[link_fd[v]] = v
          /\ socket_fd[pos[v]] = link_fd[v]
  BY SerialContext DEF SerialInv, HoldingInv, Holding, Registered, Serving
<1>. QED
  BY <1>1

\* There is nothing in an empty buffer, and nothing due of a link that has
\* handled all it took.
LEMMA NothingDue ==
    ASSUME NEW t, NEW d \in Nat
    PROVE  FramesAfter(t, d, 0) = << >> /\ NoFrameOf(t, << >>)
  BY DEF FramesAfter, NoFrameOf

\* A frame of t is not a frame of another thread.
LEMMA OwnAreNotOthers ==
    ASSUME NEW t, NEW u, t # u, NEW d \in Nat, NEW n \in Nat
    PROVE  NoFrameOf(u, FramesAfter(t, d, n))
  BY DEF FramesAfter, NoFrameOf

-----------------------------------------------------------------------------
(* Steps *)

\* A step that moves no frame: of thread t at most the buffer is dropped.
LEMMA FramesKept ==
    ASSUME FrameTypes, FramesInv, NEW t \in Threads,
           UNCHANGED <<unhandled_buf, taken, done>>,
           bufleft' = bufleft \/ bufleft' = [bufleft EXCEPT ![t] = << >>],
           \A u \in Threads : u # t => pc'[u] = pc[u] /\ pos'[u] = pos[u],
           pc'[t] \in Serving =>
               /\ pc[t] \in Serving \ {"store"} /\ pos'[t] = pos[t]
               /\ pc'[t] \notin {"store", "recv"},
           pc'[t] \in {"none"} \cup CheckingIn => pc[t] \in {"none"} \cup CheckingIn
    PROVE  FramesInv'
<1>. SUFFICES ASSUME NEW u \in Threads PROVE FramesInv!(u)'
  BY DEF FramesInv
<1>1. FramesInv!(u)
  BY DEF FramesInv
<1>2. Unread(u) => Unread(u)'
  <2>1. \A v \in Threads : bufleft'[v] = bufleft[v] \/ bufleft'[v] = << >>
    BY DEF FrameTypes
  <2>. QED
    BY <2>1 DEF Unread, NoFrameOf
<1>3. "recv" \in Serving /\ "store" \in Serving
  BY DEF Serving
<1>4. CASE u = t
  <2>1. pc'[t] \in Serving => Waiting(t)' = Waiting(t)
    BY DEF Waiting
  <2>2. pc'[t] \in Serving => OwnOrForeign(t)'
    BY <1>1, <1>4, <2>1 DEF OwnOrForeign, NoFrameOf, FramesAfter
  <2>. QED
    BY <1>1, <1>2, <1>3, <1>4, <2>2
<1>5. CASE u # t
  <2>1. bufleft'[u] = bufleft[u] /\ pc'[u] = pc[u] /\ pos'[u] = pos[u]
    BY <1>5 DEF FrameTypes
  <2>2. Waiting(u)' = Waiting(u)
    BY <2>1 DEF Waiting
  <2>3. OwnOrForeign(u)' = OwnOrForeign(u)
    BY <2>2 DEF OwnOrForeign, NoFrameOf, FramesAfter
  <2>. QED
    BY <1>1, <1>2, <2>1, <2>3
<1>. QED
  BY <1>4, <1>5

\* A step that moves no frame and no thread.
LEMMA FramesQuiet ==
    ASSUME FramesInv, UNCHANGED <<pc, pos, bufleft, unhandled_buf, taken, done>>
    PROVE  FramesInv'
  BY DEF FramesInv, OwnOrForeign, Waiting, FramesAfter, NoFrameOf, Unread

\* A thread that ends takes its buffer with it.
LEMMA EndKeepsFrames ==
    ASSUME FrameTypes, FramesInv, NEW t \in Threads, EndThread(t), UNCHANGED unhandled_buf
    PROVE  FramesInv'
<1>1. /\ pc'[t] = "dead"
      /\ \A u \in Threads : u # t =>
             /\ pc'[u] = pc[u] /\ pos'[u] = pos[u] /\ bufleft'[u] = bufleft[u]
             /\ taken'[u] = taken[u] /\ done'[u] = done[u]
      /\ bufleft'[t] = << >>
  BY DEF EndThread, Goto, FrameTypes
<1>2. "dead" \notin Serving \cup {"none", "recv"} \cup CheckingIn
  BY DEF Serving, CheckingIn
<1>. SUFFICES ASSUME NEW u \in Threads, u # t PROVE FramesInv!(u)'
  BY <1>1, <1>2 DEF FramesInv
<1>3. FramesInv!(u)
  BY DEF FramesInv
<1>4. Unread(u) => Unread(u)'
  BY <1>1 DEF Unread, NoFrameOf
<1>5. Waiting(u)' = Waiting(u)
  BY <1>1 DEF Waiting
<1>6. OwnOrForeign(u)' = OwnOrForeign(u)
  BY <1>1, <1>5 DEF OwnOrForeign, NoFrameOf, FramesAfter
<1>. QED
  BY <1>1, <1>3, <1>4, <1>6

\* SysCheckInCmd.c:84-96: whatever the slot holds for a link that checks in was
\* left there by others.
LEMMA EnterRestKeepsFrames ==
    ASSUME IndInv, FramesInv, NEW t \in Threads, EnterRest(t)
    PROVE  FramesInv'
<1>1. FrameTypes /\ pos[t] \in Slots /\ pc[t] = "entered"
  BY HasFrameTypes, SerialContext DEF EnterRest, Registered
<1>2. /\ pc'[t] = "lookup" /\ \A u \in Threads : u # t => pc'[u] = pc[u]
      /\ UNCHANGED <<pos, bufleft, unhandled_buf, taken, done>>
  BY <1>1 DEF EnterRest, Goto, FrameTypes, localVars, netVars
<1>3. Unread(t)
  BY <1>1 DEF FramesInv, CheckingIn
<1>4. OwnOrForeign(t)'
  BY <1>1, <1>2, <1>3 DEF Unread, OwnOrForeign, Waiting, NoFrameOf
<1>5. "lookup" \notin {"none", "recv"} \cup CheckingIn
  BY DEF CheckingIn
<1>6. ASSUME NEW u \in Threads, u # t PROVE FramesInv!(u)'
  BY <1>2, <1>6 DEF FramesInv, OwnOrForeign, Waiting, FramesAfter, NoFrameOf, Unread
<1>. QED
  BY <1>2, <1>4, <1>5, <1>6 DEF FramesInv

\* RecvOneFrame.c:60-133: the frames of the slot become those of the thread.
LEMMA LookupKeepsFrames ==
    ASSUME IndInv, SerialInv, FramesInv, NEW t \in Threads, Lookup(t)
    PROVE  FramesInv'
<1>1. FrameTypes /\ pc[t] = "lookup" /\ pc[t] \in Serving /\ OwnOrForeign(t)
  BY HasFrameTypes DEF Lookup, FramesInv, Serving
<1>2. CASE NotInTable(link_fd[t])
  <2>1. ~\E s \in Slots : HoldsFd(s, link_fd[t])
    BY <1>2 DEF NotInTable, HoldsFd
  <2>2. /\ UNCHANGED <<unhandled_buf, taken, done, bufleft, pos>>
        /\ pc' = [pc EXCEPT ![t] = "cleanup"]
    BY <2>1 DEF Lookup, Goto, netVars
  <2>3. pc'[t] = "cleanup" /\ \A u \in Threads : u # t => pc'[u] = pc[u]
    BY <1>1, <2>2 DEF FrameTypes
  <2>. QED
    BY <1>1, <2>2, <2>3, FramesKept DEF Serving, CheckingIn
<1>3. CASE ~NotInTable(link_fd[t])
  <2>1. PICK s \in Slots :
            /\ HoldsFd(s, link_fd[t])
            /\ bufleft' = [bufleft EXCEPT ![t] = unhandled_buf[s]]
            /\ unhandled_buf' = [unhandled_buf EXCEPT ![s] = << >>]
            /\ pc' = [pc EXCEPT ![t] = IF unhandled_buf[s] = << >> THEN "recv" ELSE "store"]
    BY <1>3 DEF Lookup, Goto
  <2>2. s = pos[t]
    BY <1>1, <2>1, FoundSlotIsOwn
  <2>3. /\ UNCHANGED <<pos, taken, done>>
        /\ bufleft'[t] = unhandled_buf[pos[t]] /\ unhandled_buf'[pos[t]] = << >>
        /\ pc'[t] = IF unhandled_buf[pos[t]] = << >> THEN "recv" ELSE "store"
        /\ \A u \in Threads : u # t => pc'[u] = pc[u] /\ bufleft'[u] = bufleft[u]
        /\ \A r \in Slots : r # pos[t] => unhandled_buf'[r] = unhandled_buf[r]
    BY <1>1, <2>1, <2>2 DEF Lookup, FrameTypes, netVars
  <2>4. Waiting(t) = unhandled_buf[pos[t]]
    BY <1>1 DEF Waiting
  <2>5. Waiting(t)' = Waiting(t)
    BY <2>3, <2>4 DEF Waiting
  <2>6. OwnOrForeign(t)'
    BY <1>1, <2>3, <2>5 DEF OwnOrForeign, NoFrameOf, FramesAfter
  <2>7. ASSUME NEW u \in Threads, Unread(u) PROVE Unread(u)'
    <3>1. pos[t] \in Slots
      BY <2>1, <2>2
    <3>2. \A r \in Slots : NoFrameOf(u, unhandled_buf'[r])
      BY <2>3, <2>7, NothingDue DEF Unread, NoFrameOf
    <3>3. \A v \in Threads : NoFrameOf(u, bufleft'[v])
      BY <2>3, <2>7, <3>1 DEF Unread
    <3>4. taken'[u] = 0 /\ done'[u] = 0
      BY <2>3, <2>7 DEF Unread
    <3>. QED
      BY <3>2, <3>3, <3>4 DEF Unread, NoFrameOf
  <2>8. ASSUME NEW u \in Threads, u # t PROVE FramesInv!(u)'
    <3>1. FramesInv!(u)
      BY DEF FramesInv
    <3>2. pc[u] \in Serving => pos[u] \in Slots /\ pos[u] # pos[t]
      BY <1>1, <2>8, SlotsApart
    <3>3. pc[u] \in Serving => Waiting(u)' = Waiting(u)
      BY <2>3, <2>8, <3>2 DEF Waiting
    <3>4. pc[u] \in Serving => OwnOrForeign(u)'
      BY <2>3, <3>1, <3>3 DEF OwnOrForeign, NoFrameOf, FramesAfter
    <3>5. pc[u] = "recv" => unhandled_buf'[pos'[u]] = << >>
      BY <2>3, <3>1, <3>2 DEF Serving
    <3>. QED
      BY <2>3, <2>7, <2>8, <3>1, <3>4, <3>5
  <2>9. pc'[t] \notin {"none"} \cup CheckingIn
    BY <2>3 DEF CheckingIn
  <2>. QED
    BY <2>3, <2>6, <2>8, <2>9 DEF FramesInv
<1>. QED
  BY <1>2, <1>3

\* RecvOneFrame.c:135-177: what is read follows on what was taken, and the slot
\* was empty, so nothing taken before is still to be handled.
LEMMA RecvKeepsFrames ==
    ASSUME IndInv, SerialInv, FramesInv, NEW t \in Threads, NEW k \in 1..MaxSend, Recv(t, k)
    PROVE  FramesInv'
<1>1. FrameTypes /\ pc[t] = "recv" /\ pc[t] \in Serving
      /\ OwnOrForeign(t) /\ unhandled_buf[pos[t]] = << >>
  BY HasFrameTypes DEF Recv, FramesInv, Serving
<1>2. /\ UNCHANGED <<pos, done, unhandled_buf>>
      /\ bufleft'[t] = FramesAfter(t, taken[t], k) /\ taken'[t] = taken[t] + k
      /\ pc'[t] = "store"
      /\ \A u \in Threads : u # t =>
             pc'[u] = pc[u] /\ bufleft'[u] = bufleft[u] /\ taken'[u] = taken[u]
  BY <1>1 DEF Recv, Goto, FrameTypes, FramesAfter, tableVars
<1>3. taken[t] \in Nat /\ done[t] \in Nat /\ k \in Nat
  BY <1>1 DEF FrameTypes
<1>4. done[t] = taken[t]
  <2>1. ASSUME FramesAfter(t, done[t], taken[t] - done[t]) = << >>, done[t] < taken[t]
        PROVE  FALSE
    <3>1. 1 \in DOMAIN FramesAfter(t, done[t], taken[t] - done[t])
      BY <1>3, <2>1 DEF FramesAfter
    <3>. QED
      BY <2>1, <3>1
  <2>2. Waiting(t) = << >>
    BY <1>1 DEF Waiting
  <2>. QED
    BY <1>1, <1>3, <2>1, <2>2 DEF OwnOrForeign
<1>5. OwnOrForeign(t)'
  BY <1>2, <1>3, <1>4 DEF OwnOrForeign, Waiting, FramesAfter
<1>6. ASSUME NEW u \in Threads, u # t PROVE FramesInv!(u)'
  <2>1. FramesInv!(u)
    BY DEF FramesInv
  <2>2. Waiting(u)' = Waiting(u)
    BY <1>2, <1>6 DEF Waiting
  <2>3. OwnOrForeign(u)' = OwnOrForeign(u)
    BY <1>2, <1>6, <2>2 DEF OwnOrForeign, NoFrameOf, FramesAfter
  <2>4. ASSUME Unread(u) PROVE Unread(u)'
    <3>1. NoFrameOf(u, bufleft'[t])
      BY <1>2, <1>3, <1>6, OwnAreNotOthers
    <3>. QED
      BY <1>2, <1>6, <2>4, <3>1 DEF Unread, NoFrameOf
  <2>. QED
    BY <1>2, <1>6, <2>1, <2>3, <2>4
<1>7. "store" \notin {"none"} \cup CheckingIn
  BY DEF CheckingIn
<1>. QED
  BY <1>2, <1>5, <1>6, <1>7 DEF FramesInv

\* RecvOneFrame.c:179-198: the first frame is handed over, the others stay in
\* their order.
LEMMA StoreKeepsFrames ==
    ASSUME IndInv, SerialInv, FramesInv, NEW t \in Threads, Store(t)
    PROVE  FramesInv'
<1>1. FrameTypes /\ pc[t] = "store" /\ pc[t] \in Serving /\ OwnOrForeign(t)
  BY HasFrameTypes DEF Store, FramesInv, Serving
<1>. DEFINE buf == bufleft[t]
<1>2. at[t] = pos[t] /\ pos[t] \in Slots /\ buf \in Seq(Frames) /\ buf # << >>
  <2>1. at[t] = pos[t]
    BY <1>1 DEF SerialInv, HoldingInv
  <2>2. pos[t] \in Slots /\ buf # << >>
    BY <1>1, SerialContext DEF IndInv, ThreadsInv, Registered
  <2>. QED
    BY <1>1, <2>1, <2>2 DEF FrameTypes
<1>3. /\ UNCHANGED <<pos, taken>>
      /\ bufleft'[t] = <<Head(buf)>> /\ unhandled_buf'[pos[t]] = Tail(buf)
      /\ done'[t] = IF Head(buf)[1] = t THEN Head(buf)[2] ELSE done[t]
      /\ pc'[t] = "dispatch"
      /\ \A u \in Threads : u # t =>
             pc'[u] = pc[u] /\ bufleft'[u] = bufleft[u] /\ done'[u] = done[u]
      /\ \A r \in Slots : r # pos[t] => unhandled_buf'[r] = unhandled_buf[r]
  BY <1>1, <1>2 DEF Store, Goto, FrameTypes, LeftOver, netVars
<1>4. Waiting(t) = buf /\ Waiting(t)' = Tail(buf)
  BY <1>1, <1>3 DEF Waiting
<1>5. /\ Len(buf) \in Nat \ {0} /\ DOMAIN buf = 1..Len(buf) /\ Head(buf) = buf[1]
      /\ DOMAIN Tail(buf) = 1..(Len(buf) - 1)
      /\ \A j \in 1..(Len(buf) - 1) : Tail(buf)[j] = buf[j + 1]
      /\ Tail(buf) \in Seq(Frames)
  BY <1>2
<1>6. taken[t] \in Nat /\ done[t] \in Nat
  BY <1>1 DEF FrameTypes
<1>7. OwnOrForeign(t)'
  <2>1. CASE buf = FramesAfter(t, done[t], taken[t] - done[t])
    <3>. DEFINE n == taken[t] - done[t]
    <3>1. n \in Nat
      BY <1>1, <1>6 DEF OwnOrForeign
    <3>2. Len(buf) = n /\ n > 0 /\ \A j \in 1..n : buf[j] = <<t, done[t] + j>>
      <4>1. DOMAIN buf = 1..n /\ \A j \in 1..n : buf[j] = <<t, done[t] + j>>
        BY <2>1 DEF FramesAfter
      <4>2. Len(buf) = n
        BY <1>5, <3>1, <4>1
      <4>. QED
        BY <1>5, <4>1, <4>2
    <3>3. done'[t] = done[t] + 1
      BY <1>3, <1>5, <3>1, <3>2
    <3>4. Tail(buf) = FramesAfter(t, done[t] + 1, n - 1)
      <4>1. \A j \in 1..(n - 1) : Tail(buf)[j] = <<t, (done[t] + 1) + j>>
        <5>. TAKE j \in 1..(n - 1)
        <5>. HIDE DEF n, buf
        <5>1. j + 1 \in 1..n /\ Tail(buf)[j] = buf[j + 1]
          BY <1>5, <3>1, <3>2
        <5>2. buf[j + 1] = <<t, done[t] + (j + 1)>>
          BY <3>2, <5>1
        <5>3. done[t] + (j + 1) = (done[t] + 1) + j
          BY <1>6, <3>1
        <5>. QED
          BY <5>1, <5>2, <5>3
      <4>2. Tail(buf) = [j \in 1..(n - 1) |-> Tail(buf)[j]]
        BY <1>5, <3>2
      <4>. QED
        BY <4>1, <4>2 DEF FramesAfter
    <3>5. taken'[t] - done'[t] = n - 1 /\ done'[t] <= taken'[t]
      BY <1>3, <1>6, <3>1, <3>2, <3>3
    <3>. QED
      BY <1>4, <3>3, <3>4, <3>5 DEF OwnOrForeign, FramesAfter
  <2>2. CASE done[t] = taken[t] /\ NoFrameOf(t, buf)
    <3>1. done'[t] = taken'[t]
      BY <1>3, <1>5, <2>2 DEF NoFrameOf
    <3>2. NoFrameOf(t, Tail(buf))
      BY <1>5, <2>2 DEF NoFrameOf
    <3>. QED
      BY <1>3, <1>4, <1>6, <3>1, <3>2 DEF OwnOrForeign, NoFrameOf
  <2>. QED
    BY <1>1, <1>4, <2>1, <2>2 DEF OwnOrForeign
<1>8. ASSUME NEW u \in Threads, u # t PROVE FramesInv!(u)'
  <2>1. FramesInv!(u)
    BY DEF FramesInv
  <2>2. pc[u] \in Serving => pos[u] \in Slots /\ pos[u] # pos[t]
    BY <1>1, <1>8, SlotsApart
  <2>3. pc[u] \in Serving => Waiting(u)' = Waiting(u)
    BY <1>3, <1>8, <2>2 DEF Waiting
  <2>4. pc[u] \in Serving => OwnOrForeign(u)'
    BY <1>3, <1>8, <2>1, <2>3 DEF OwnOrForeign, NoFrameOf, FramesAfter
  <2>5. pc[u] = "recv" => unhandled_buf'[pos'[u]] = << >>
    BY <1>3, <2>1, <2>2 DEF Serving
  <2>6. ASSUME Unread(u) PROVE Unread(u)'
    <3>1. NoFrameOf(u, buf)
      BY <2>6 DEF Unread
    <3>2. NoFrameOf(u, Tail(buf)) /\ NoFrameOf(u, <<Head(buf)>>)
      BY <1>5, <3>1 DEF NoFrameOf
    <3>3. \A r \in Slots : NoFrameOf(u, unhandled_buf'[r])
      BY <1>3, <2>6, <3>2 DEF Unread
    <3>4. \A v \in Threads : NoFrameOf(u, bufleft'[v])
      BY <1>3, <2>6, <3>2 DEF Unread
    <3>5. taken'[u] = 0 /\ done'[u] = 0
      BY <1>3, <1>8, <2>6 DEF Unread
    <3>. QED
      BY <3>3, <3>4, <3>5 DEF Unread, NoFrameOf
  <2>. QED
    BY <1>3, <1>8, <2>1, <2>4, <2>5, <2>6
<1>9. "dispatch" \notin {"none", "recv"} \cup CheckingIn
  BY DEF CheckingIn
<1>. QED
  BY <1>3, <1>7, <1>8, <1>9 DEF FramesInv

\* The steps that move no frame.
LEMMA OtherStepsKeepFrames ==
    ASSUME IndInv, FramesInv, NEW t \in Threads,
           \/ ScanSlot(t) \/ EnterFd(t) \/ RecvEnd(t) \/ DispatchHandShake(t)
           \/ DispatchOther(t) \/ HandShakeReset(t) \/ WorkDone(t) \/ Reply(t)
           \/ Unwind(t) \/ DelFind(t) \/ DelIp(t) \/ DelRest(t)
           \/ \E f \in Fds, ip \in Ips : Accept(t, f, ip)
    PROVE  FramesInv'
<1>1. FrameTypes
  BY HasFrameTypes
<1>2. /\ UNCHANGED <<unhandled_buf, taken, done>>
      /\ bufleft' = bufleft \/ bufleft' = [bufleft EXCEPT ![t] = << >>]
  BY DEF ScanSlot, EnterFd, RecvEnd, DispatchHandShake, DispatchOther,
     HandShakeReset, WorkDone, Reply, Unwind, DelFind, DelIp, DelRest, Accept,
     tableVars, localVars, netVars
<1>3. \A u \in Threads : u # t => pc'[u] = pc[u] /\ pos'[u] = pos[u]
  BY <1>1 DEF FrameTypes, ScanSlot, EnterFd, RecvEnd, DispatchHandShake, DispatchOther,
     HandShakeReset, WorkDone, Reply, Unwind, DelFind, DelIp, DelRest, Accept,
     Goto, localVars
<1>4. pc'[t] \in Serving =>
          /\ pc[t] \in Serving \ {"store"} /\ pos'[t] = pos[t]
          /\ pc'[t] \notin {"store", "recv"}
  BY <1>1 DEF FrameTypes, ScanSlot, EnterFd, RecvEnd, DispatchHandShake, DispatchOther,
     HandShakeReset, WorkDone, Reply, Unwind, DelFind, DelIp, DelRest, Accept,
     Goto, localVars, Serving
<1>5. pc'[t] \in {"none"} \cup CheckingIn => pc[t] \in {"none"} \cup CheckingIn
  BY <1>1 DEF FrameTypes, ScanSlot, EnterFd, RecvEnd, DispatchHandShake, DispatchOther,
     HandShakeReset, WorkDone, Reply, Unwind, DelFind, DelIp, DelRest, Accept,
     Goto, CheckingIn
<1>. QED
  BY <1>1, <1>2, <1>3, <1>4, <1>5, FramesKept

\* Every step of an environment with SerialArrivals preserves FramesInv.
LEMMA NextFrames ==
    ASSUME IndInv, SerialInv, FramesInv, [Next]_vars
    PROVE  FramesInv'
<1>1. FrameTypes
  BY HasFrameTypes
<1>2. ASSUME NEW t \in Threads, LinkOwnStep(t) PROVE FramesInv'
  <2>1. CASE Refuse(t) \/ CancelledInCleanup(t) \/ Close(t)
    BY <1>1, <2>1, EndKeepsFrames DEF Refuse, CancelledInCleanup, Close, tableVars
  <2>. QED
    BY <1>2, <2>1, EnterRestKeepsFrames, LookupKeepsFrames, StoreKeepsFrames,
       OtherStepsKeepFrames DEF LinkOwnStep
<1>3. ASSUME NEW t \in Threads, LinkWaitingStep(t) \/ Peer(t) PROVE FramesInv'
  <2>1. CASE Peer(t) \/ ReplyBroken(t)
    BY <2>1, FramesQuiet DEF Peer, PeerSend, PeerClose, ReplyBroken, tableVars, localVars, netVars
  <2>. QED
    BY <1>3, <2>1, RecvKeepsFrames, OtherStepsKeepFrames DEF LinkWaitingStep
<1>4. CASE Server
  <2>1. CASE AcceptFails
    BY <2>1, FramesQuiet DEF AcceptFails, tableVars, localVars, netVars
  <2>. QED
    BY <1>4, <2>1, OtherStepsKeepFrames DEF Server
<1>5. CASE Timer \/ UNCHANGED vars
  BY <1>5, FramesQuiet DEF Timer, TimerCheck, TimerTick, TimerWake, vars,
     tableVars, localVars, netVars
<1>. QED
  BY <1>2, <1>3, <1>4, <1>5 DEF Next, Link

\* No connection, no frame.
LEMMA InitFrames == Init => FramesInv
<1>. SUFFICES ASSUME Init PROVE FramesInv
  OBVIOUS
<1>1. "none" \notin Serving \cup {"recv"}
  BY DEF Serving
<1>2. \A t \in Threads : Unread(t)
  BY DEF Init, InitCtrlLinkTbl, Unread, NoFrameOf
<1>. QED
  BY <1>1, <1>2 DEF Init, FramesInv

\* RecvOneFrame.c:60-198: when connections are spaced out, the frames a link
\* took and has not handled wait in its slot in the order the client sent them,
\* none lost, doubled or mixed with those an earlier link left behind, for any
\* number of links, slots and frames.
THEOREM FramesStayInOrder ==
    ASSUME SerialArrivals PROVE Spec => []FramesInOrder
<1>1. Init => IndInv /\ SerialInv /\ FramesInv
  BY InitIndInv, InitSerial, InitFrames
<1>2. IndInv /\ SerialInv /\ FramesInv /\ [Next]_vars => (IndInv /\ SerialInv /\ FramesInv)'
  BY NextIndInv, NextSerial, NextFrames
<1>3. FramesInv => FramesInOrder
  BY DEF FramesInv, FramesInOrder, OwnOrForeign, Waiting, FramesAfter, NoFrameOf
<1>. QED
  BY <1>1, <1>2, <1>3, PTL DEF Spec
=============================================================================
