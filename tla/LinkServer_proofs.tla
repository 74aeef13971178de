------------------------- MODULE LinkServer_proofs -------------------------
(***************************************************************************)
(* Machine-checked proofs about LinkServer, for every number of slots,     *)
(* threads, descriptors and addresses, in every environment.               *)
(*                                                                         *)
(* IndInv is inductive.  Each action has a lemma: it shows every conjunct  *)
(* of IndInv in the next state.  The actions of a link that is being       *)
(* served share ServingStep, those that leave the threads and the table    *)
(* alone share QuietStep.                                                  *)
(***************************************************************************)
EXTENDS LinkServer, TLAPS

USE DEF NoFd, NoIp, NoTid, NoSlot

\* The C code's 0 is no thread, slot or descriptor.
LEMMA Sentinels == NoTid \notin Threads /\ NoSlot \notin Slots /\ NoFd \notin Fds
  BY DEF Threads, Slots, Fds

\* A link that is served moves on, or to its cleanup, and touches at most its
\* own locals, the counters and the left-over frames.
LEMMA ServingStep ==
    ASSUME IndInv, NEW t \in Threads, NEW p \in Serving \cup {"cleanup"},
           pc[t] \in Serving,
           pc' = [pc EXCEPT ![t] = p],
           UNCHANGED <<socket_fd, ctrl_tid, mutex, link_fd, pos, fd_owner>>,
           \A u \in Threads \ {t} : at'[u] = at[u] /\ bufleft'[u] = bufleft[u],
           p = "store" => bufleft'[t] # << >>
    PROVE  ThreadsInv' /\ OwnersInv' /\ TableSound'
<1>1. pc \in [Threads -> LinkPcs] /\ fd_owner \in [Fds -> Threads \cup {NoTid}]
      /\ socket_fd \in [Slots -> Fds \cup {NoFd}]
  BY DEF IndInv, TypeOK
<1>2. /\ pc[t] \in Registered /\ pc[t] \notin {"none", "dead", "entered", "delip", "delrest"}
      /\ p \in Registered /\ p \notin {"none", "dead", "entered", "delip", "delrest"}
  BY DEF Registered, Serving
<1>3. ThreadsInv /\ OwnersInv /\ TableSound
  BY DEF IndInv
<1>4. ThreadsInv'
  <2>. SUFFICES ASSUME NEW u \in Threads PROVE ThreadsInv!(u)'
    BY DEF ThreadsInv
  <2>1. ThreadsInv!(u)
    BY <1>3 DEF ThreadsInv
  <2>2. CASE u = t
    BY <1>1, <1>2, <2>1, <2>2
  <2>3. CASE u # t
    BY <1>1, <2>1, <2>3
  <2>. QED
    BY <2>2, <2>3
<1>5. OwnersInv'
  BY <1>1, <1>2, <1>3 DEF OwnersInv
<1>6. TableSound'
  BY <1>3 DEF TableSound, Unlocked
<1>. QED
  BY <1>4, <1>5, <1>6

\* A step that leaves the threads, the table and the descriptors alone.
LEMMA QuietStep ==
    ASSUME IndInv,
           UNCHANGED <<socket_fd, ctrl_tid, mutex, pc, link_fd, pos, at,
                       bufleft, fd_owner>>
    PROVE  ThreadsInv' /\ OwnersInv' /\ TableSound'
  BY DEF IndInv, ThreadsInv, OwnersInv, TableSound, Unlocked

\* SysCheckInCmd.c:80-83: the slot becomes locked by t and holds t's descriptor,
\* which stood in no slot before because a thread enters only once.
LEMMA EnterFdPreserves ==
    ASSUME IndInv, NEW t \in Threads, EnterFd(t)
    PROVE  IndInv'
<1>. USE ConstantsAssumption, Sentinels
<1>a. /\ pc[t] = "enter"
      /\ mutex[pos[t]] = NoTid
      /\ socket_fd' = [socket_fd EXCEPT ![pos[t]] = link_fd[t]]
      /\ mutex' = [mutex EXCEPT ![pos[t]] = t]
      /\ pc' = [pc EXCEPT ![t] = "entered"]
      /\ UNCHANGED <<ipaddr, ctrl_tid, notinformcnt, unhandled_buf,
                     link_fd, peer_ip, pos, at, bufleft, done,
                     cancelled, unwinding, fd_owner, peer_open,
                     sent, taken, tpc, ti, fate>>
  BY DEF EnterFd, tableVars, localVars, cancelVars, netVars, timerVars,
     Goto, EndThread, Unlocked
<1>b. TypeOK /\ ThreadsInv /\ OwnersInv /\ FreeSlotsInv /\ TableSound /\ NoWildCancel
  BY DEF IndInv
<1>c. /\ pos[t] \in Slots /\ link_fd[t] \in Fds /\ fd_owner[link_fd[t]] = t
      /\ \A s \in Slots : socket_fd[s] # link_fd[t]
      /\ socket_fd'[pos[t]] = link_fd[t] /\ mutex'[pos[t]] = t /\ pc'[t] = "entered"
  <2>a. ThreadsInv!(t)
    BY <1>b DEF ThreadsInv
  <2>b. /\ pc \in [Threads -> LinkPcs] /\ pos \in [Threads -> Slots \cup {NoSlot}]
        /\ link_fd \in [Threads -> Fds \cup {NoFd}] /\ at \in [Threads -> Slots]
        /\ socket_fd \in [Slots -> Fds \cup {NoFd}]
        /\ mutex \in [Slots -> Threads \cup {NoTid}]
        /\ ctrl_tid \in [Slots -> Threads \cup {NoTid}]
    BY <1>b DEF TypeOK
  <2>1. pos[t] \in Slots /\ link_fd[t] \in Fds /\ fd_owner[link_fd[t]] = t
    BY <1>a, <2>a, <2>b DEF Registered, Serving
  <2>2. \A s \in Slots : socket_fd[s] # link_fd[t]
    BY <1>a, <2>a, <2>b, <2>1, <1>b DEF ThreadsInv, OwnersInv, Registered, Serving
  <2>3. socket_fd'[pos[t]] = link_fd[t] /\ mutex'[pos[t]] = t /\ pc'[t] = "entered"
    BY <1>a, <2>a, <2>b, <2>1, <2>2 DEF Registered, Serving
  <2>. QED
    BY <2>1, <2>2, <2>3
<1>1. TypeOK'
  <2>1. socket_fd' \in [Slots -> Fds \cup {NoFd}]
    BY <1>a, <1>b DEF TypeOK, ThreadsInv
  <2>2. mutex' \in [Slots -> Threads \cup {NoTid}]
    BY <1>a, <1>b DEF TypeOK, ThreadsInv
  <2>3. pc' \in [Threads -> LinkPcs]
    BY <1>a, <1>b DEF TypeOK, ThreadsInv, LinkPcs, CheckingIn, Serving, Leaving
  <2>. QED
    BY <1>a, <1>b, <1>c, <2>1, <2>2, <2>3 DEF TypeOK
<1>2. ThreadsInv'
  <2>. SUFFICES ASSUME NEW u \in Threads PROVE ThreadsInv!(u)'
    BY DEF ThreadsInv
  <2>1. CASE u = t
    BY <1>a, <1>b, <1>c, <2>1, SMTT(30) DEF TypeOK, ThreadsInv, OwnersInv, Registered, Serving
  <2>2. CASE u # t
    BY <1>a, <1>b, <1>c, <2>2, SMTT(30) DEF TypeOK, ThreadsInv, OwnersInv, Registered, Serving
  <2>. QED
    BY <2>1, <2>2
<1>3. OwnersInv'
  <2>. SUFFICES ASSUME NEW s \in Slots PROVE OwnersInv!(s)'
    BY DEF OwnersInv
  <2>1. CASE s = pos[t]
    BY <1>a, <1>b, <1>c, <2>1, SMTT(30) DEF TypeOK, ThreadsInv, OwnersInv, Registered, Serving
  <2>2. CASE s # pos[t]
    BY <1>a, <1>b, <1>c, <2>2, SMTT(30) DEF TypeOK, ThreadsInv, OwnersInv, Registered, Serving
  <2>. QED
    BY <2>1, <2>2
<1>4. FreeSlotsInv'
  <2>. SUFFICES ASSUME NEW s \in Slots PROVE FreeSlotsInv!(s)'
    BY DEF FreeSlotsInv
  <2>1. CASE s = pos[t]
    BY <1>a, <1>b, <1>c, <2>1 DEF TypeOK, ThreadsInv, FreeSlotsInv
  <2>2. CASE s # pos[t]
    BY <1>a, <1>b, <1>c, <2>2 DEF TypeOK, ThreadsInv, FreeSlotsInv
  <2>. QED
    BY <2>1, <2>2
<1>5. TableSound'
  <2>. SUFFICES ASSUME NEW s \in Slots PROVE TableSound!(s)'
    BY DEF TableSound
  <2>1. CASE s = pos[t]
    BY <1>a, <1>b, <1>c, <2>1, SMTT(30) DEF TypeOK, ThreadsInv, OwnersInv, TableSound, Unlocked, Registered, Serving
  <2>2. CASE s # pos[t]
    BY <1>a, <1>b, <1>c, <2>2, SMTT(30) DEF TypeOK, ThreadsInv, OwnersInv, TableSound, Unlocked, Registered, Serving
  <2>. QED
    BY <2>1, <2>2
<1>6. NoWildCancel'
  BY <1>a, <1>b DEF NoWildCancel
<1>. QED
  BY <1>1, <1>2, <1>3, <1>4, <1>5, <1>6 DEF IndInv

\* SysCheckInCmd.c:84-91: the slot is unlocked and names t, the owner of the
\* descriptor t stored in it when it locked it.
LEMMA EnterRestPreserves ==
    ASSUME IndInv, NEW t \in Threads, EnterRest(t)
    PROVE  IndInv'
<1>. USE ConstantsAssumption, Sentinels
<1>a. /\ pc[t] = "entered"
      /\ ipaddr' = [ipaddr EXCEPT ![pos[t]] = peer_ip[t]]
      /\ ctrl_tid' = [ctrl_tid EXCEPT ![pos[t]] = t]
      /\ mutex' = [mutex EXCEPT ![pos[t]] = NoTid]
      /\ pc' = [pc EXCEPT ![t] = "lookup"]
      /\ UNCHANGED <<socket_fd, notinformcnt, unhandled_buf, link_fd,
                     peer_ip, pos, at, bufleft, done, cancelled,
                     unwinding, fd_owner, peer_open, sent, taken,
                     tpc, ti, fate>>
  BY DEF EnterRest, tableVars, localVars, cancelVars, netVars, timerVars,
     Goto, EndThread, Unlocked
<1>b. TypeOK /\ ThreadsInv /\ OwnersInv /\ FreeSlotsInv /\ TableSound /\ NoWildCancel
  BY DEF IndInv
<1>c. /\ pos[t] \in Slots /\ link_fd[t] \in Fds /\ fd_owner[link_fd[t]] = t
      /\ socket_fd[pos[t]] = link_fd[t] /\ mutex[pos[t]] = t
      /\ pc'[t] = "lookup" /\ ctrl_tid'[pos[t]] = t
  <2>a. ThreadsInv!(t)
    BY <1>b DEF ThreadsInv
  <2>b. /\ pc \in [Threads -> LinkPcs] /\ pos \in [Threads -> Slots \cup {NoSlot}]
        /\ link_fd \in [Threads -> Fds \cup {NoFd}] /\ at \in [Threads -> Slots]
        /\ socket_fd \in [Slots -> Fds \cup {NoFd}]
        /\ mutex \in [Slots -> Threads \cup {NoTid}]
        /\ ctrl_tid \in [Slots -> Threads \cup {NoTid}]
    BY <1>b DEF TypeOK
  <2>1. pos[t] \in Slots /\ link_fd[t] \in Fds /\ fd_owner[link_fd[t]] = t
    BY <1>a, <2>a, <2>b DEF Registered, Serving
  <2>2. socket_fd[pos[t]] = link_fd[t] /\ mutex[pos[t]] = t
    BY <1>a, <2>a, <2>b, <2>1 DEF Registered, Serving
  <2>3. pc'[t] = "lookup" /\ ctrl_tid'[pos[t]] = t
    BY <1>a, <2>a, <2>b, <2>1, <2>2 DEF Registered, Serving
  <2>. QED
    BY <2>1, <2>2, <2>3
<1>1. TypeOK'
  <2>1. ipaddr' \in [Slots -> Ips \cup {NoIp}]
    BY <1>a, <1>b DEF TypeOK, ThreadsInv
  <2>2. ctrl_tid' \in [Slots -> Threads \cup {NoTid}]
    BY <1>a, <1>b DEF TypeOK, ThreadsInv
  <2>3. mutex' \in [Slots -> Threads \cup {NoTid}]
    BY <1>a, <1>b DEF TypeOK, ThreadsInv
  <2>4. pc' \in [Threads -> LinkPcs]
    BY <1>a, <1>b DEF TypeOK, ThreadsInv, LinkPcs, CheckingIn, Serving, Leaving
  <2>. QED
    BY <1>a, <1>b, <1>c, <2>1, <2>2, <2>3, <2>4 DEF TypeOK
<1>2. ThreadsInv'
  <2>. SUFFICES ASSUME NEW u \in Threads PROVE ThreadsInv!(u)'
    BY DEF ThreadsInv
  <2>1. CASE u = t
    BY <1>a, <1>b, <1>c, <2>1, SMTT(30) DEF TypeOK, ThreadsInv, OwnersInv, Registered, Serving
  <2>2. CASE u # t
    BY <1>a, <1>b, <1>c, <2>2, SMTT(30) DEF TypeOK, ThreadsInv, OwnersInv, Registered, Serving
  <2>. QED
    BY <2>1, <2>2
<1>3. OwnersInv'
  <2>. SUFFICES ASSUME NEW s \in Slots PROVE OwnersInv!(s)'
    BY DEF OwnersInv
  <2>1. CASE s = pos[t]
    BY <1>a, <1>b, <1>c, <2>1, SMTT(30) DEF TypeOK, ThreadsInv, OwnersInv, Registered, Serving
  <2>2. CASE s # pos[t]
    BY <1>a, <1>b, <1>c, <2>2, SMTT(30) DEF TypeOK, ThreadsInv, OwnersInv, Registered, Serving
  <2>. QED
    BY <2>1, <2>2
<1>4. FreeSlotsInv'
  <2>. SUFFICES ASSUME NEW s \in Slots PROVE FreeSlotsInv!(s)'
    BY DEF FreeSlotsInv
  <2>1. CASE s = pos[t]
    BY <1>a, <1>b, <1>c, <2>1 DEF TypeOK, ThreadsInv, FreeSlotsInv
  <2>2. CASE s # pos[t]
    BY <1>a, <1>b, <1>c, <2>2 DEF TypeOK, ThreadsInv, FreeSlotsInv
  <2>. QED
    BY <2>1, <2>2
<1>5. TableSound'
  <2>. SUFFICES ASSUME NEW s \in Slots PROVE TableSound!(s)'
    BY DEF TableSound
  <2>1. CASE s = pos[t]
    BY <1>a, <1>b, <1>c, <2>1, SMTT(30) DEF TypeOK, ThreadsInv, OwnersInv, TableSound, Unlocked, Registered, Serving
  <2>2. CASE s # pos[t]
    BY <1>a, <1>b, <1>c, <2>2, SMTT(30) DEF TypeOK, ThreadsInv, OwnersInv, TableSound, Unlocked, Registered, Serving
  <2>. QED
    BY <2>1, <2>2
<1>6. NoWildCancel'
  BY <1>a, <1>b DEF NoWildCancel
<1>. QED
  BY <1>1, <1>2, <1>3, <1>4, <1>5, <1>6 DEF IndInv

\* LinkCtrl.c:105-108: a thread that never registered closes a descriptor that
\* stands in no slot, so the kernel may hand the number out again.
LEMMA RefusePreserves ==
    ASSUME IndInv, NEW t \in Threads, Refuse(t)
    PROVE  IndInv'
<1>. USE ConstantsAssumption, Sentinels
<1>a. /\ pc[t] = "refused"
      /\ pc' = [pc EXCEPT ![t] = "dead"]
      /\ link_fd' = [link_fd EXCEPT ![t] = NoFd]
      /\ peer_ip' = [peer_ip EXCEPT ![t] = NoIp]
      /\ pos' = [pos EXCEPT ![t] = NoSlot]
      /\ at' = [at EXCEPT ![t] = 1]
      /\ bufleft' = [bufleft EXCEPT ![t] = << >>]
      /\ done' = [done EXCEPT ![t] = 0]
      /\ cancelled' = [cancelled EXCEPT ![t] = FALSE]
      /\ unwinding' = [unwinding EXCEPT ![t] = FALSE]
      /\ fd_owner' = [fd_owner EXCEPT ![link_fd[t]] = NoTid]
      /\ peer_open' = [peer_open EXCEPT ![t] = FALSE]
      /\ sent' = [sent EXCEPT ![t] = 0]
      /\ taken' = [taken EXCEPT ![t] = 0]
      /\ UNCHANGED <<socket_fd, ipaddr, ctrl_tid, notinformcnt,
                     unhandled_buf, mutex, tpc, ti, fate>>
  BY DEF Refuse, tableVars, localVars, cancelVars, netVars, timerVars,
     Goto, EndThread, Unlocked
<1>b. TypeOK /\ ThreadsInv /\ OwnersInv /\ FreeSlotsInv /\ TableSound /\ NoWildCancel
  BY DEF IndInv
<1>c. /\ link_fd[t] \in Fds /\ fd_owner[link_fd[t]] = t
      /\ \A s \in Slots : socket_fd[s] # link_fd[t]
      /\ \A u \in Threads : u # t /\ pc[u] \notin {"none", "dead"} => link_fd[u] # link_fd[t] /\ link_fd[u] \in Fds
  <2>a. ThreadsInv!(t)
    BY <1>b DEF ThreadsInv
  <2>b. /\ pc \in [Threads -> LinkPcs] /\ pos \in [Threads -> Slots \cup {NoSlot}]
        /\ link_fd \in [Threads -> Fds \cup {NoFd}] /\ at \in [Threads -> Slots]
        /\ socket_fd \in [Slots -> Fds \cup {NoFd}]
        /\ mutex \in [Slots -> Threads \cup {NoTid}]
        /\ ctrl_tid \in [Slots -> Threads \cup {NoTid}]
    BY <1>b DEF TypeOK
  <2>1. link_fd[t] \in Fds /\ fd_owner[link_fd[t]] = t
    BY <1>a, <2>a, <2>b DEF Registered, Serving
  <2>2. \A s \in Slots : socket_fd[s] # link_fd[t]
    BY <1>a, <2>a, <2>b, <2>1, <1>b DEF ThreadsInv, OwnersInv, Registered, Serving
  <2>3. \A u \in Threads : u # t /\ pc[u] \notin {"none", "dead"} => link_fd[u] # link_fd[t] /\ link_fd[u] \in Fds
    BY <1>a, <2>a, <2>b, <2>1, <2>2, <1>b DEF ThreadsInv, OwnersInv, Registered, Serving
  <2>. QED
    BY <2>1, <2>2, <2>3
<1>1. TypeOK'
  <2>1. pc' \in [Threads -> LinkPcs]
    BY <1>a, <1>b DEF TypeOK, ThreadsInv, LinkPcs, CheckingIn, Serving, Leaving
  <2>2. link_fd' \in [Threads -> Fds \cup {NoFd}]
    BY <1>a, <1>b DEF TypeOK, ThreadsInv
  <2>3. peer_ip' \in [Threads -> Ips \cup {NoIp}]
    BY <1>a, <1>b DEF TypeOK, ThreadsInv
  <2>4. pos' \in [Threads -> Slots \cup {NoSlot}]
    BY <1>a, <1>b DEF TypeOK, ThreadsInv
  <2>5. at' \in [Threads -> Slots]
    BY <1>a, <1>b DEF TypeOK, ThreadsInv, Slots
  <2>6. bufleft' \in [Threads -> Seq(Frames)]
    BY <1>a, <1>b DEF TypeOK, ThreadsInv
  <2>7. done' \in [Threads -> 0..MaxSend]
    BY <1>a, <1>b DEF TypeOK, ThreadsInv, Frames
  <2>8. cancelled' \in [Threads -> BOOLEAN]
    BY <1>a, <1>b DEF TypeOK, ThreadsInv
  <2>9. unwinding' \in [Threads -> BOOLEAN]
    BY <1>a, <1>b DEF TypeOK, ThreadsInv
  <2>10. fd_owner' \in [Fds -> Threads \cup {NoTid}]
    BY <1>a, <1>b DEF TypeOK, ThreadsInv
  <2>11. peer_open' \in [Threads -> BOOLEAN]
    BY <1>a, <1>b DEF TypeOK, ThreadsInv
  <2>12. sent' \in [Threads -> 0..MaxSend]
    BY <1>a, <1>b DEF TypeOK, ThreadsInv
  <2>13. taken' \in [Threads -> 0..MaxSend]
    BY <1>a, <1>b DEF TypeOK, ThreadsInv
  <2>. QED
    BY <1>a, <1>b, <1>c, <2>1, <2>2, <2>3, <2>4, <2>5, <2>6, <2>7, <2>8, <2>9, <2>10, <2>11, <2>12, <2>13 DEF TypeOK
<1>2. ThreadsInv'
  <2>. SUFFICES ASSUME NEW u \in Threads PROVE ThreadsInv!(u)'
    BY DEF ThreadsInv
  <2>1. CASE u = t
    BY <1>a, <1>b, <1>c, <2>1, SMTT(30) DEF TypeOK, ThreadsInv, OwnersInv, Registered, Serving
  <2>2. CASE u # t
    BY <1>a, <1>b, <1>c, <2>2, SMTT(30) DEF TypeOK, ThreadsInv, OwnersInv, Registered, Serving
  <2>. QED
    BY <2>1, <2>2
<1>3. OwnersInv'
  <2>. SUFFICES ASSUME NEW s \in Slots PROVE OwnersInv!(s)'
    BY DEF OwnersInv
  <2>1. CASE socket_fd[s] = link_fd[t]
    BY <1>a, <1>b, <1>c, <2>1, SMTT(30) DEF TypeOK, ThreadsInv, OwnersInv, Registered, Serving
  <2>2. CASE socket_fd[s] # link_fd[t]
    BY <1>a, <1>b, <1>c, <2>2, SMTT(30) DEF TypeOK, ThreadsInv, OwnersInv, Registered, Serving
  <2>. QED
    BY <2>1, <2>2
<1>4. FreeSlotsInv'
  <2>. SUFFICES ASSUME NEW s \in Slots PROVE FreeSlotsInv!(s)'
    BY DEF FreeSlotsInv
  <2>1. CASE socket_fd[s] = link_fd[t]
    BY <1>a, <1>b, <1>c, <2>1 DEF TypeOK, ThreadsInv, FreeSlotsInv
  <2>2. CASE socket_fd[s] # link_fd[t]
    BY <1>a, <1>b, <1>c, <2>2 DEF TypeOK, ThreadsInv, FreeSlotsInv
  <2>. QED
    BY <2>1, <2>2
<1>5. TableSound'
  <2>. SUFFICES ASSUME NEW s \in Slots PROVE TableSound!(s)'
    BY DEF TableSound
  <2>1. CASE socket_fd[s] = link_fd[t]
    BY <1>a, <1>b, <1>c, <2>1, SMTT(30) DEF TypeOK, ThreadsInv, OwnersInv, TableSound, Unlocked, Registered, Serving
  <2>2. CASE socket_fd[s] # link_fd[t]
    BY <1>a, <1>b, <1>c, <2>2, SMTT(30) DEF TypeOK, ThreadsInv, OwnersInv, TableSound, Unlocked, Registered, Serving
  <2>. QED
    BY <2>1, <2>2
<1>6. NoWildCancel'
  BY <1>a, <1>b DEF NoWildCancel
<1>. QED
  BY <1>1, <1>2, <1>3, <1>4, <1>5, <1>6 DEF IndInv

\* RecvOneFrame.c:139: reading frames leaves the table alone, and the buffer is
\* not empty where Store takes its head.
LEMMA RecvPreserves ==
    ASSUME IndInv, NEW t \in Threads, NEW k \in 1..MaxSend, Recv(t, k)
    PROVE  IndInv'
<1>. USE ConstantsAssumption, Sentinels
<1>a. /\ pc[t] = "recv"
      /\ taken[t] + k <= sent[t]
      /\ pc' = [pc EXCEPT ![t] = "store"]
      /\ bufleft' = [bufleft EXCEPT ![t] = [j \in 1..k |-> <<t, taken[t] + j>>]]
      /\ taken' = [taken EXCEPT ![t] = taken[t] + k]
      /\ UNCHANGED <<socket_fd, ipaddr, ctrl_tid, notinformcnt,
                     unhandled_buf, mutex, link_fd, peer_ip, pos,
                     at, done, cancelled, unwinding, fd_owner,
                     peer_open, sent, tpc, ti, fate>>
  BY DEF Recv, tableVars, localVars, cancelVars, netVars, timerVars,
     Goto, EndThread, Unlocked
<1>b. taken[t] \in 0..MaxSend /\ sent[t] \in 0..MaxSend
  BY DEF IndInv, TypeOK
<1>c. \A j \in 1..k : <<t, taken[t] + j>> \in Frames
  BY <1>a, <1>b DEF Frames
<1>d. [j \in 1..k |-> <<t, taken[t] + j>>] \in Seq(Frames)
  BY <1>c
<1>1. TypeOK'
  <2>1. pc' \in [Threads -> LinkPcs]
    BY <1>a, <1>b, <1>c, <1>d DEF IndInv, TypeOK, LinkPcs, CheckingIn, Serving, Leaving
  <2>2. bufleft' \in [Threads -> Seq(Frames)]
    BY <1>a, <1>b, <1>c, <1>d DEF IndInv, TypeOK
  <2>3. taken' \in [Threads -> 0..MaxSend]
    BY <1>a, <1>b, <1>c, <1>d DEF IndInv, TypeOK
  <2>. QED
    BY <1>a, <1>b, <1>c, <1>d, <2>1, <2>2, <2>3 DEF IndInv, TypeOK
<1>2. ThreadsInv' /\ OwnersInv' /\ TableSound'
  <2>1. "recv" \in Serving /\ "store" \in Serving \cup {"cleanup"}
    BY DEF Serving
  <2>2. \A u \in Threads \ {t} : at'[u] = at[u] /\ bufleft'[u] = bufleft[u]
    BY <1>a DEF IndInv, TypeOK
  <2>3. bufleft'[t] # << >>
    <3>1. bufleft'[t] = [j \in 1..k |-> <<t, taken[t] + j>>]
      BY <1>a DEF IndInv, TypeOK
    <3>2. 1 \in DOMAIN bufleft'[t]
      BY <3>1
    <3>. QED
      BY <3>2
  <2>. QED
    BY <1>a, <2>1, <2>2, <2>3, ServingStep
<1>3. FreeSlotsInv'
  BY <1>a DEF IndInv, FreeSlotsInv
<1>4. NoWildCancel'
  BY <1>a DEF IndInv, NoWildCancel
<1>. QED
  BY <1>a, <1>1, <1>2, <1>3, <1>4 DEF IndInv

\* RecvOneFrame.c:142-155: a link whose client is gone moves to its cleanup.
LEMMA RecvEndPreserves ==
    ASSUME IndInv, NEW t \in Threads, RecvEnd(t)
    PROVE  IndInv'
<1>. USE ConstantsAssumption, Sentinels
<1>a. /\ pc[t] = "recv"
      /\ pc' = [pc EXCEPT ![t] = "cleanup"]
      /\ UNCHANGED <<socket_fd, ipaddr, ctrl_tid, notinformcnt,
                     unhandled_buf, mutex, link_fd, peer_ip, pos,
                     at, bufleft, done, cancelled, unwinding,
                     fd_owner, peer_open, sent, taken, tpc, ti,
                     fate>>
  BY DEF RecvEnd, tableVars, localVars, cancelVars, netVars, timerVars,
     Goto, EndThread, Unlocked
<1>1. TypeOK'
  <2>1. pc' \in [Threads -> LinkPcs]
    BY <1>a DEF IndInv, TypeOK, LinkPcs, CheckingIn, Serving, Leaving
  <2>. QED
    BY <1>a, <2>1 DEF IndInv, TypeOK
<1>2. ThreadsInv' /\ OwnersInv' /\ TableSound'
  <2>1. "recv" \in Serving /\ "cleanup" \in Serving \cup {"cleanup"}
    BY DEF Serving
  <2>2. \A u \in Threads \ {t} : at'[u] = at[u] /\ bufleft'[u] = bufleft[u]
    BY <1>a DEF IndInv, TypeOK
  <2>. QED
    BY <1>a, <2>1, <2>2, ServingStep
<1>3. FreeSlotsInv'
  BY <1>a DEF IndInv, FreeSlotsInv
<1>4. NoWildCancel'
  BY <1>a DEF IndInv, NoWildCancel
<1>. QED
  BY <1>a, <1>1, <1>2, <1>3, <1>4 DEF IndInv

\* RecvOneFrame.c:183-189: only left-over frames change in the table.
LEMMA StorePreserves ==
    ASSUME IndInv, NEW t \in Threads, Store(t)
    PROVE  IndInv'
<1>. USE ConstantsAssumption, Sentinels
<1>a. /\ pc[t] = "store"
      /\ unhandled_buf' = [unhandled_buf EXCEPT ![at[t]] = Tail(bufleft[t])]
      /\ pc' = [pc EXCEPT ![t] = "dispatch"]
      /\ bufleft' = [bufleft EXCEPT ![t] = <<Head(bufleft[t])>>]
      /\ done' = [done EXCEPT ![t] = IF Head(bufleft[t])[1] = t THEN Head(bufleft[t])[2] ELSE done[t]]
      /\ UNCHANGED <<socket_fd, ipaddr, ctrl_tid, notinformcnt, mutex,
                     link_fd, peer_ip, pos, at, cancelled,
                     unwinding, fd_owner, peer_open, sent, taken,
                     tpc, ti, fate>>
  BY DEF Store, LeftOver, tableVars, localVars, cancelVars, netVars, timerVars,
     Goto, EndThread, Unlocked
<1>b. bufleft[t] \in Seq(Frames) /\ bufleft[t] # << >>
  BY <1>a DEF IndInv, TypeOK, ThreadsInv
<1>c. /\ Head(bufleft[t]) \in Frames /\ Tail(bufleft[t]) \in Seq(Frames)
      /\ <<Head(bufleft[t])>> \in Seq(Frames)
  BY <1>b
<1>d. Head(bufleft[t])[2] \in 0..MaxSend
  BY <1>c DEF Frames
<1>1. TypeOK'
  <2>1. unhandled_buf' \in [Slots -> Seq(Frames)]
    BY <1>a, <1>b, <1>c, <1>d DEF IndInv, TypeOK
  <2>2. pc' \in [Threads -> LinkPcs]
    BY <1>a, <1>b, <1>c, <1>d DEF IndInv, TypeOK, LinkPcs, CheckingIn, Serving, Leaving
  <2>3. bufleft' \in [Threads -> Seq(Frames)]
    BY <1>a, <1>b, <1>c, <1>d DEF IndInv, TypeOK
  <2>4. done' \in [Threads -> 0..MaxSend]
    BY <1>a, <1>b, <1>c, <1>d DEF IndInv, TypeOK
  <2>. QED
    BY <1>a, <1>b, <1>c, <1>d, <2>1, <2>2, <2>3, <2>4 DEF IndInv, TypeOK
<1>2. ThreadsInv' /\ OwnersInv' /\ TableSound'
  <2>1. "store" \in Serving /\ "dispatch" \in Serving \cup {"cleanup"}
    BY DEF Serving
  <2>2. \A u \in Threads \ {t} : at'[u] = at[u] /\ bufleft'[u] = bufleft[u]
    BY <1>a DEF IndInv, TypeOK
  <2>. QED
    BY <1>a, <2>1, <2>2, ServingStep
<1>3. FreeSlotsInv'
  BY <1>a DEF IndInv, FreeSlotsInv
<1>4. NoWildCancel'
  BY <1>a DEF IndInv, NoWildCancel
<1>. QED
  BY <1>a, <1>1, <1>2, <1>3, <1>4 DEF IndInv

\* HandShakeCmd.c:29-31: a count goes back to 0, which FreeSlotsInv allows even
\* when the slot is not the handshaking link's any more.
LEMMA HandShakeResetPreserves ==
    ASSUME IndInv, NEW t \in Threads, HandShakeReset(t)
    PROVE  IndInv'
<1>. USE ConstantsAssumption, Sentinels
<1>a. /\ pc[t] = "reset"
      /\ notinformcnt' = [notinformcnt EXCEPT ![at[t]] = 0]
      /\ pc' = [pc EXCEPT ![t] = "reply"]
      /\ UNCHANGED <<socket_fd, ipaddr, ctrl_tid, unhandled_buf, mutex,
                     link_fd, peer_ip, pos, at, bufleft, done,
                     cancelled, unwinding, fd_owner, peer_open,
                     sent, taken, tpc, ti, fate>>
  BY DEF HandShakeReset, tableVars, localVars, cancelVars, netVars, timerVars,
     Goto, EndThread, Unlocked
<1>1. TypeOK'
  <2>1. notinformcnt' \in [Slots -> 0..(MaxNotInform + 1)]
    BY <1>a DEF IndInv, TypeOK
  <2>2. pc' \in [Threads -> LinkPcs]
    BY <1>a DEF IndInv, TypeOK, LinkPcs, CheckingIn, Serving, Leaving
  <2>. QED
    BY <1>a, <2>1, <2>2 DEF IndInv, TypeOK
<1>2. ThreadsInv' /\ OwnersInv' /\ TableSound'
  <2>1. "reset" \in Serving /\ "reply" \in Serving \cup {"cleanup"}
    BY DEF Serving
  <2>2. \A u \in Threads \ {t} : at'[u] = at[u] /\ bufleft'[u] = bufleft[u]
    BY <1>a DEF IndInv, TypeOK
  <2>. QED
    BY <1>a, <2>1, <2>2, ServingStep
<1>3. FreeSlotsInv'
  BY <1>a DEF IndInv, TypeOK, FreeSlotsInv
<1>4. NoWildCancel'
  BY <1>a DEF IndInv, NoWildCancel
<1>. QED
  BY <1>a, <1>1, <1>2, <1>3, <1>4 DEF IndInv

\* Functions.c:120: the end of a command moves the thread only.
LEMMA WorkDonePreserves ==
    ASSUME IndInv, NEW t \in Threads, WorkDone(t)
    PROVE  IndInv'
<1>. USE ConstantsAssumption, Sentinels
<1>a. /\ pc[t] = "work"
      /\ pc' = [pc EXCEPT ![t] = "reply"]
      /\ UNCHANGED <<socket_fd, ipaddr, ctrl_tid, notinformcnt,
                     unhandled_buf, mutex, link_fd, peer_ip, pos,
                     at, bufleft, done, cancelled, unwinding,
                     fd_owner, peer_open, sent, taken, tpc, ti,
                     fate>>
  BY DEF WorkDone, tableVars, localVars, cancelVars, netVars, timerVars,
     Goto, EndThread, Unlocked
<1>1. TypeOK'
  <2>1. pc' \in [Threads -> LinkPcs]
    BY <1>a DEF IndInv, TypeOK, LinkPcs, CheckingIn, Serving, Leaving
  <2>. QED
    BY <1>a, <2>1 DEF IndInv, TypeOK
<1>2. ThreadsInv' /\ OwnersInv' /\ TableSound'
  <2>1. "work" \in Serving /\ "reply" \in Serving \cup {"cleanup"}
    BY DEF Serving
  <2>2. \A u \in Threads \ {t} : at'[u] = at[u] /\ bufleft'[u] = bufleft[u]
    BY <1>a DEF IndInv, TypeOK
  <2>. QED
    BY <1>a, <2>1, <2>2, ServingStep
<1>3. FreeSlotsInv'
  BY <1>a DEF IndInv, FreeSlotsInv
<1>4. NoWildCancel'
  BY <1>a DEF IndInv, NoWildCancel
<1>. QED
  BY <1>a, <1>1, <1>2, <1>3, <1>4 DEF IndInv

\* HandShakeCmd.c:42: the answer moves the thread only.
LEMMA ReplyPreserves ==
    ASSUME IndInv, NEW t \in Threads, Reply(t)
    PROVE  IndInv'
<1>. USE ConstantsAssumption, Sentinels
<1>a. /\ pc[t] = "reply"
      /\ pc' = [pc EXCEPT ![t] = "lookup"]
      /\ UNCHANGED <<socket_fd, ipaddr, ctrl_tid, notinformcnt,
                     unhandled_buf, mutex, link_fd, peer_ip, pos,
                     at, bufleft, done, cancelled, unwinding,
                     fd_owner, peer_open, sent, taken, tpc, ti,
                     fate>>
  BY DEF Reply, tableVars, localVars, cancelVars, netVars, timerVars,
     Goto, EndThread, Unlocked
<1>1. TypeOK'
  <2>1. pc' \in [Threads -> LinkPcs]
    BY <1>a DEF IndInv, TypeOK, LinkPcs, CheckingIn, Serving, Leaving
  <2>. QED
    BY <1>a, <2>1 DEF IndInv, TypeOK
<1>2. ThreadsInv' /\ OwnersInv' /\ TableSound'
  <2>1. "reply" \in Serving /\ "lookup" \in Serving \cup {"cleanup"}
    BY DEF Serving
  <2>2. \A u \in Threads \ {t} : at'[u] = at[u] /\ bufleft'[u] = bufleft[u]
    BY <1>a DEF IndInv, TypeOK
  <2>. QED
    BY <1>a, <2>1, <2>2, ServingStep
<1>3. FreeSlotsInv'
  BY <1>a DEF IndInv, FreeSlotsInv
<1>4. NoWildCancel'
  BY <1>a DEF IndInv, NoWildCancel
<1>. QED
  BY <1>a, <1>1, <1>2, <1>3, <1>4 DEF IndInv

\* LinkCtrl.c:91: the process ends by SIGPIPE, not by cancelling thread 0.
LEMMA ReplyBrokenPreserves ==
    ASSUME IndInv, NEW t \in Threads, ReplyBroken(t)
    PROVE  IndInv'
<1>. USE ConstantsAssumption, Sentinels
<1>a. /\ fate' = "sigpipe"
      /\ UNCHANGED <<socket_fd, ipaddr, ctrl_tid, notinformcnt,
                     unhandled_buf, mutex, pc, link_fd, peer_ip,
                     pos, at, bufleft, done, cancelled,
                     unwinding, fd_owner, peer_open, sent, taken,
                     tpc, ti>>
  BY DEF ReplyBroken, tableVars, localVars, cancelVars, netVars, timerVars,
     Goto, EndThread, Unlocked
<1>1. TypeOK'
  <2>1. fate' \in {"up", "segv", "sigpipe", "exited"}
    BY <1>a DEF IndInv, TypeOK
  <2>. QED
    BY <1>a, <2>1 DEF IndInv, TypeOK
<1>2. ThreadsInv' /\ OwnersInv' /\ TableSound'
  BY <1>a, QuietStep
<1>3. FreeSlotsInv'
  BY <1>a DEF IndInv, FreeSlotsInv
<1>4. NoWildCancel'
  BY <1>a DEF IndInv, NoWildCancel
<1>. QED
  BY <1>a, <1>1, <1>2, <1>3, <1>4 DEF IndInv

\* A cancelled link that is served enters its cleanup still registered.
LEMMA UnwindPreserves ==
    ASSUME IndInv, NEW t \in Threads, Unwind(t)
    PROVE  IndInv'
<1>. USE ConstantsAssumption, Sentinels
<1>a. /\ pc[t] \in {"recv", "work", "reply", "dispatch"}
      /\ pc' = [pc EXCEPT ![t] = "cleanup"]
      /\ bufleft' = [bufleft EXCEPT ![t] = << >>]
      /\ unwinding' = [unwinding EXCEPT ![t] = TRUE]
      /\ UNCHANGED <<socket_fd, ipaddr, ctrl_tid, notinformcnt,
                     unhandled_buf, mutex, link_fd, peer_ip, pos,
                     at, done, cancelled, fd_owner, peer_open,
                     sent, taken, tpc, ti, fate>>
  BY DEF Unwind, AtCancellationPoint, tableVars, localVars, cancelVars, netVars, timerVars,
     Goto, EndThread, Unlocked
<1>1. TypeOK'
  <2>1. pc' \in [Threads -> LinkPcs]
    BY <1>a DEF IndInv, TypeOK, LinkPcs, CheckingIn, Serving, Leaving
  <2>2. bufleft' \in [Threads -> Seq(Frames)]
    BY <1>a DEF IndInv, TypeOK
  <2>3. unwinding' \in [Threads -> BOOLEAN]
    BY <1>a DEF IndInv, TypeOK
  <2>. QED
    BY <1>a, <2>1, <2>2, <2>3 DEF IndInv, TypeOK
<1>2. ThreadsInv' /\ OwnersInv' /\ TableSound'
  <2>1. pc[t] \in Serving /\ "cleanup" \in Serving \cup {"cleanup"}
    BY <1>a DEF Serving
  <2>2. \A u \in Threads \ {t} : at'[u] = at[u] /\ bufleft'[u] = bufleft[u]
    BY <1>a DEF IndInv, TypeOK
  <2>. QED
    BY <1>a, <2>1, <2>2, ServingStep
<1>3. FreeSlotsInv'
  BY <1>a DEF IndInv, FreeSlotsInv
<1>4. NoWildCancel'
  BY <1>a DEF IndInv, NoWildCancel
<1>. QED
  BY <1>a, <1>1, <1>2, <1>3, <1>4 DEF IndInv

\* LinkCtrl.c:45: a thread may die registered; its slot still names it and its
\* descriptor stays open, so TableSound is not disturbed.
LEMMA CancelledInCleanupPreserves ==
    ASSUME IndInv, NEW t \in Threads, CancelledInCleanup(t)
    PROVE  IndInv'
<1>. USE ConstantsAssumption, Sentinels
<1>a. /\ pc[t] = "cleanup"
      /\ pc' = [pc EXCEPT ![t] = "dead"]
      /\ link_fd' = [link_fd EXCEPT ![t] = NoFd]
      /\ peer_ip' = [peer_ip EXCEPT ![t] = NoIp]
      /\ pos' = [pos EXCEPT ![t] = NoSlot]
      /\ at' = [at EXCEPT ![t] = 1]
      /\ bufleft' = [bufleft EXCEPT ![t] = << >>]
      /\ done' = [done EXCEPT ![t] = 0]
      /\ cancelled' = [cancelled EXCEPT ![t] = FALSE]
      /\ unwinding' = [unwinding EXCEPT ![t] = FALSE]
      /\ peer_open' = [peer_open EXCEPT ![t] = FALSE]
      /\ sent' = [sent EXCEPT ![t] = 0]
      /\ taken' = [taken EXCEPT ![t] = 0]
      /\ UNCHANGED <<socket_fd, ipaddr, ctrl_tid, notinformcnt,
                     unhandled_buf, mutex, fd_owner, tpc, ti,
                     fate>>
  BY DEF CancelledInCleanup, tableVars, localVars, cancelVars, netVars, timerVars,
     Goto, EndThread, Unlocked
<1>b. TypeOK /\ ThreadsInv /\ OwnersInv /\ FreeSlotsInv /\ TableSound /\ NoWildCancel
  BY DEF IndInv
<1>1. TypeOK'
  <2>1. pc' \in [Threads -> LinkPcs]
    BY <1>a, <1>b DEF TypeOK, ThreadsInv, LinkPcs, CheckingIn, Serving, Leaving
  <2>2. link_fd' \in [Threads -> Fds \cup {NoFd}]
    BY <1>a, <1>b DEF TypeOK, ThreadsInv
  <2>3. peer_ip' \in [Threads -> Ips \cup {NoIp}]
    BY <1>a, <1>b DEF TypeOK, ThreadsInv
  <2>4. pos' \in [Threads -> Slots \cup {NoSlot}]
    BY <1>a, <1>b DEF TypeOK, ThreadsInv
  <2>5. at' \in [Threads -> Slots]
    BY <1>a, <1>b DEF TypeOK, ThreadsInv, Slots
  <2>6. bufleft' \in [Threads -> Seq(Frames)]
    BY <1>a, <1>b DEF TypeOK, ThreadsInv
  <2>7. done' \in [Threads -> 0..MaxSend]
    BY <1>a, <1>b DEF TypeOK, ThreadsInv, Frames
  <2>8. cancelled' \in [Threads -> BOOLEAN]
    BY <1>a, <1>b DEF TypeOK, ThreadsInv
  <2>9. unwinding' \in [Threads -> BOOLEAN]
    BY <1>a, <1>b DEF TypeOK, ThreadsInv
  <2>10. peer_open' \in [Threads -> BOOLEAN]
    BY <1>a, <1>b DEF TypeOK, ThreadsInv
  <2>11. sent' \in [Threads -> 0..MaxSend]
    BY <1>a, <1>b DEF TypeOK, ThreadsInv
  <2>12. taken' \in [Threads -> 0..MaxSend]
    BY <1>a, <1>b DEF TypeOK, ThreadsInv
  <2>. QED
    BY <1>a, <1>b, <2>1, <2>2, <2>3, <2>4, <2>5, <2>6, <2>7, <2>8, <2>9, <2>10, <2>11, <2>12 DEF TypeOK
<1>2. ThreadsInv'
  <2>. SUFFICES ASSUME NEW u \in Threads PROVE ThreadsInv!(u)'
    BY DEF ThreadsInv
  <2>1. CASE u = t
    BY <1>a, <1>b, <2>1 DEF TypeOK, ThreadsInv, OwnersInv, Registered, Serving
  <2>2. CASE u # t
    BY <1>a, <1>b, <2>2 DEF TypeOK, ThreadsInv, OwnersInv, Registered, Serving
  <2>. QED
    BY <2>1, <2>2
<1>3. OwnersInv'
  BY <1>a, <1>b DEF TypeOK, ThreadsInv, OwnersInv, Registered, Serving
<1>4. FreeSlotsInv'
  BY <1>a, <1>b DEF TypeOK, ThreadsInv, FreeSlotsInv
<1>5. TableSound'
  BY <1>a, <1>b DEF TypeOK, ThreadsInv, OwnersInv, TableSound, Unlocked, Registered, Serving
<1>6. NoWildCancel'
  BY <1>a, <1>b DEF NoWildCancel
<1>. QED
  BY <1>1, <1>2, <1>3, <1>4, <1>5, <1>6 DEF IndInv

\* CtrlLinkTbl.c:116-117: the slot found by descriptor is the slot the thread
\* registered in, and it is locked by it now.
LEMMA DelIpPreserves ==
    ASSUME IndInv, NEW t \in Threads, DelIp(t)
    PROVE  IndInv'
<1>. USE ConstantsAssumption, Sentinels
<1>a. /\ pc[t] = "delip"
      /\ mutex[at[t]] = NoTid
      /\ ipaddr' = [ipaddr EXCEPT ![at[t]] = NoIp]
      /\ mutex' = [mutex EXCEPT ![at[t]] = t]
      /\ pc' = [pc EXCEPT ![t] = "delrest"]
      /\ UNCHANGED <<socket_fd, ctrl_tid, notinformcnt, unhandled_buf,
                     link_fd, peer_ip, pos, at, bufleft, done,
                     cancelled, unwinding, fd_owner, peer_open,
                     sent, taken, tpc, ti, fate>>
  BY DEF DelIp, tableVars, localVars, cancelVars, netVars, timerVars,
     Goto, EndThread, Unlocked
<1>b. TypeOK /\ ThreadsInv /\ OwnersInv /\ FreeSlotsInv /\ TableSound /\ NoWildCancel
  BY DEF IndInv
<1>c. /\ at[t] \in Slots /\ pos[t] = at[t] /\ link_fd[t] # NoFd
      /\ fd_owner[link_fd[t]] = t /\ mutex'[at[t]] = t /\ pc'[t] = "delrest"
  <2>a. ThreadsInv!(t)
    BY <1>b DEF ThreadsInv
  <2>b. /\ pc \in [Threads -> LinkPcs] /\ pos \in [Threads -> Slots \cup {NoSlot}]
        /\ link_fd \in [Threads -> Fds \cup {NoFd}] /\ at \in [Threads -> Slots]
        /\ socket_fd \in [Slots -> Fds \cup {NoFd}]
        /\ mutex \in [Slots -> Threads \cup {NoTid}]
        /\ ctrl_tid \in [Slots -> Threads \cup {NoTid}]
    BY <1>b DEF TypeOK
  <2>1. at[t] \in Slots /\ pos[t] = at[t] /\ link_fd[t] # NoFd
    BY <1>a, <2>a, <2>b DEF Registered, Serving
  <2>2. fd_owner[link_fd[t]] = t /\ mutex'[at[t]] = t /\ pc'[t] = "delrest"
    BY <1>a, <2>a, <2>b, <2>1 DEF Registered, Serving
  <2>. QED
    BY <2>1, <2>2
<1>1. TypeOK'
  <2>1. ipaddr' \in [Slots -> Ips \cup {NoIp}]
    BY <1>a, <1>b DEF TypeOK, ThreadsInv
  <2>2. mutex' \in [Slots -> Threads \cup {NoTid}]
    BY <1>a, <1>b DEF TypeOK, ThreadsInv
  <2>3. pc' \in [Threads -> LinkPcs]
    BY <1>a, <1>b DEF TypeOK, ThreadsInv, LinkPcs, CheckingIn, Serving, Leaving
  <2>. QED
    BY <1>a, <1>b, <1>c, <2>1, <2>2, <2>3 DEF TypeOK
<1>2. ThreadsInv'
  <2>. SUFFICES ASSUME NEW u \in Threads PROVE ThreadsInv!(u)'
    BY DEF ThreadsInv
  <2>1. CASE u = t
    BY <1>a, <1>b, <1>c, <2>1, SMTT(30) DEF TypeOK, ThreadsInv, OwnersInv, Registered, Serving
  <2>2. CASE u # t
    BY <1>a, <1>b, <1>c, <2>2, SMTT(30) DEF TypeOK, ThreadsInv, OwnersInv, Registered, Serving
  <2>. QED
    BY <2>1, <2>2
<1>3. OwnersInv'
  <2>. SUFFICES ASSUME NEW s \in Slots PROVE OwnersInv!(s)'
    BY DEF OwnersInv
  <2>1. CASE s = at[t]
    BY <1>a, <1>b, <1>c, <2>1, SMTT(30) DEF TypeOK, ThreadsInv, OwnersInv, Registered, Serving
  <2>2. CASE s # at[t]
    BY <1>a, <1>b, <1>c, <2>2, SMTT(30) DEF TypeOK, ThreadsInv, OwnersInv, Registered, Serving
  <2>. QED
    BY <2>1, <2>2
<1>4. FreeSlotsInv'
  <2>. SUFFICES ASSUME NEW s \in Slots PROVE FreeSlotsInv!(s)'
    BY DEF FreeSlotsInv
  <2>1. CASE s = at[t]
    BY <1>a, <1>b, <1>c, <2>1 DEF TypeOK, ThreadsInv, FreeSlotsInv
  <2>2. CASE s # at[t]
    BY <1>a, <1>b, <1>c, <2>2 DEF TypeOK, ThreadsInv, FreeSlotsInv
  <2>. QED
    BY <2>1, <2>2
<1>5. TableSound'
  <2>. SUFFICES ASSUME NEW s \in Slots PROVE TableSound!(s)'
    BY DEF TableSound
  <2>1. CASE s = at[t]
    BY <1>a, <1>b, <1>c, <2>1, SMTT(30) DEF TypeOK, ThreadsInv, OwnersInv, TableSound, Unlocked, Registered, Serving
  <2>2. CASE s # at[t]
    BY <1>a, <1>b, <1>c, <2>2, SMTT(30) DEF TypeOK, ThreadsInv, OwnersInv, TableSound, Unlocked, Registered, Serving
  <2>. QED
    BY <2>1, <2>2
<1>6. NoWildCancel'
  BY <1>a, <1>b DEF NoWildCancel
<1>. QED
  BY <1>1, <1>2, <1>3, <1>4, <1>5, <1>6 DEF IndInv

\* CtrlLinkTbl.c:119-124: the slot becomes free with no thread and a zero count,
\* which is what keeps the timer from thread 0.
LEMMA DelRestPreserves ==
    ASSUME IndInv, NEW t \in Threads, DelRest(t)
    PROVE  IndInv'
<1>. USE ConstantsAssumption, Sentinels
<1>a. /\ pc[t] = "delrest"
      /\ socket_fd' = [socket_fd EXCEPT ![at[t]] = NoFd]
      /\ ctrl_tid' = [ctrl_tid EXCEPT ![at[t]] = NoTid]
      /\ notinformcnt' = [notinformcnt EXCEPT ![at[t]] = 0]
      /\ mutex' = [mutex EXCEPT ![at[t]] = NoTid]
      /\ pc' = [pc EXCEPT ![t] = "close"]
      /\ UNCHANGED <<ipaddr, unhandled_buf, link_fd, peer_ip, pos, at,
                     bufleft, done, cancelled, unwinding,
                     fd_owner, peer_open, sent, taken, tpc, ti,
                     fate>>
  BY DEF DelRest, tableVars, localVars, cancelVars, netVars, timerVars,
     Goto, EndThread, Unlocked
<1>b. TypeOK /\ ThreadsInv /\ OwnersInv /\ FreeSlotsInv /\ TableSound /\ NoWildCancel
  BY DEF IndInv
<1>c. /\ at[t] \in Slots /\ pos[t] = at[t] /\ link_fd[t] # NoFd
      /\ fd_owner[link_fd[t]] = t /\ pc'[t] = "close"
  <2>a. ThreadsInv!(t)
    BY <1>b DEF ThreadsInv
  <2>b. /\ pc \in [Threads -> LinkPcs] /\ pos \in [Threads -> Slots \cup {NoSlot}]
        /\ link_fd \in [Threads -> Fds \cup {NoFd}] /\ at \in [Threads -> Slots]
        /\ socket_fd \in [Slots -> Fds \cup {NoFd}]
        /\ mutex \in [Slots -> Threads \cup {NoTid}]
        /\ ctrl_tid \in [Slots -> Threads \cup {NoTid}]
    BY <1>b DEF TypeOK
  <2>1. at[t] \in Slots /\ pos[t] = at[t] /\ link_fd[t] # NoFd
    BY <1>a, <2>a, <2>b DEF Registered, Serving
  <2>2. fd_owner[link_fd[t]] = t /\ pc'[t] = "close"
    BY <1>a, <2>a, <2>b, <2>1 DEF Registered, Serving
  <2>. QED
    BY <2>1, <2>2
<1>1. TypeOK'
  <2>1. socket_fd' \in [Slots -> Fds \cup {NoFd}]
    BY <1>a, <1>b DEF TypeOK, ThreadsInv
  <2>2. ctrl_tid' \in [Slots -> Threads \cup {NoTid}]
    BY <1>a, <1>b DEF TypeOK, ThreadsInv
  <2>3. notinformcnt' \in [Slots -> 0..(MaxNotInform + 1)]
    BY <1>a, <1>b DEF TypeOK, ThreadsInv
  <2>4. mutex' \in [Slots -> Threads \cup {NoTid}]
    BY <1>a, <1>b DEF TypeOK, ThreadsInv
  <2>5. pc' \in [Threads -> LinkPcs]
    BY <1>a, <1>b DEF TypeOK, ThreadsInv, LinkPcs, CheckingIn, Serving, Leaving
  <2>. QED
    BY <1>a, <1>b, <1>c, <2>1, <2>2, <2>3, <2>4, <2>5 DEF TypeOK
<1>2. ThreadsInv'
  <2>. SUFFICES ASSUME NEW u \in Threads PROVE ThreadsInv!(u)'
    BY DEF ThreadsInv
  <2>1. CASE u = t
    BY <1>a, <1>b, <1>c, <2>1, SMTT(30) DEF TypeOK, ThreadsInv, OwnersInv, Registered, Serving
  <2>2. CASE u # t
    BY <1>a, <1>b, <1>c, <2>2, SMTT(30) DEF TypeOK, ThreadsInv, OwnersInv, Registered, Serving
  <2>. QED
    BY <2>1, <2>2
<1>3. OwnersInv'
  <2>. SUFFICES ASSUME NEW s \in Slots PROVE OwnersInv!(s)'
    BY DEF OwnersInv
  <2>1. CASE s = at[t]
    BY <1>a, <1>b, <1>c, <2>1, SMTT(30) DEF TypeOK, ThreadsInv, OwnersInv, Registered, Serving
  <2>2. CASE s # at[t]
    BY <1>a, <1>b, <1>c, <2>2, SMTT(30) DEF TypeOK, ThreadsInv, OwnersInv, Registered, Serving
  <2>. QED
    BY <2>1, <2>2
<1>4. FreeSlotsInv'
  <2>. SUFFICES ASSUME NEW s \in Slots PROVE FreeSlotsInv!(s)'
    BY DEF FreeSlotsInv
  <2>1. CASE s = at[t]
    BY <1>a, <1>b, <1>c, <2>1 DEF TypeOK, ThreadsInv, FreeSlotsInv
  <2>2. CASE s # at[t]
    BY <1>a, <1>b, <1>c, <2>2 DEF TypeOK, ThreadsInv, FreeSlotsInv
  <2>. QED
    BY <2>1, <2>2
<1>5. TableSound'
  <2>. SUFFICES ASSUME NEW s \in Slots PROVE TableSound!(s)'
    BY DEF TableSound
  <2>1. CASE s = at[t]
    BY <1>a, <1>b, <1>c, <2>1, SMTT(30) DEF TypeOK, ThreadsInv, OwnersInv, TableSound, Unlocked, Registered, Serving
  <2>2. CASE s # at[t]
    BY <1>a, <1>b, <1>c, <2>2, SMTT(30) DEF TypeOK, ThreadsInv, OwnersInv, TableSound, Unlocked, Registered, Serving
  <2>. QED
    BY <2>1, <2>2
<1>6. NoWildCancel'
  BY <1>a, <1>b DEF NoWildCancel
<1>. QED
  BY <1>1, <1>2, <1>3, <1>4, <1>5, <1>6 DEF IndInv

\* What a client sends does not reach the table.
LEMMA PeerSendPreserves ==
    ASSUME IndInv, NEW t \in Threads, PeerSend(t)
    PROVE  IndInv'
<1>. USE ConstantsAssumption, Sentinels
<1>a. /\ sent[t] < MaxSend
      /\ sent' = [sent EXCEPT ![t] = sent[t] + 1]
      /\ UNCHANGED <<socket_fd, ipaddr, ctrl_tid, notinformcnt,
                     unhandled_buf, mutex, pc, link_fd, peer_ip,
                     pos, at, bufleft, done, cancelled,
                     unwinding, fd_owner, peer_open, taken, tpc,
                     ti, fate>>
  BY DEF PeerSend, tableVars, localVars, cancelVars, netVars, timerVars,
     Goto, EndThread, Unlocked
<1>1. TypeOK'
  <2>1. sent' \in [Threads -> 0..MaxSend]
    BY <1>a DEF IndInv, TypeOK
  <2>. QED
    BY <1>a, <2>1 DEF IndInv, TypeOK
<1>2. ThreadsInv' /\ OwnersInv' /\ TableSound'
  BY <1>a, QuietStep
<1>3. FreeSlotsInv'
  BY <1>a DEF IndInv, FreeSlotsInv
<1>4. NoWildCancel'
  BY <1>a DEF IndInv, NoWildCancel
<1>. QED
  BY <1>a, <1>1, <1>2, <1>3, <1>4 DEF IndInv

\* A client that closes does not reach the table.
LEMMA PeerClosePreserves ==
    ASSUME IndInv, NEW t \in Threads, PeerClose(t)
    PROVE  IndInv'
<1>. USE ConstantsAssumption, Sentinels
<1>a. /\ peer_open' = [peer_open EXCEPT ![t] = FALSE]
      /\ UNCHANGED <<socket_fd, ipaddr, ctrl_tid, notinformcnt,
                     unhandled_buf, mutex, pc, link_fd, peer_ip,
                     pos, at, bufleft, done, cancelled,
                     unwinding, fd_owner, sent, taken, tpc, ti,
                     fate>>
  BY DEF PeerClose, tableVars, localVars, cancelVars, netVars, timerVars,
     Goto, EndThread, Unlocked
<1>1. TypeOK'
  <2>1. peer_open' \in [Threads -> BOOLEAN]
    BY <1>a DEF IndInv, TypeOK
  <2>. QED
    BY <1>a, <2>1 DEF IndInv, TypeOK
<1>2. ThreadsInv' /\ OwnersInv' /\ TableSound'
  BY <1>a, QuietStep
<1>3. FreeSlotsInv'
  BY <1>a DEF IndInv, FreeSlotsInv
<1>4. NoWildCancel'
  BY <1>a DEF IndInv, NoWildCancel
<1>. QED
  BY <1>a, <1>1, <1>2, <1>3, <1>4 DEF IndInv

\* NetServer.c:253-273: the kernel hands out a descriptor nobody owns, hence one
\* that stands in no slot.
LEMMA AcceptPreserves ==
    ASSUME IndInv, NEW t \in Threads, NEW f \in Fds, NEW ip \in Ips,
           Accept(t, f, ip)
    PROVE  IndInv'
<1>. USE ConstantsAssumption, Sentinels
<1>a. /\ pc[t] = "none" /\ fd_owner[f] = NoTid
      /\ pc' = [pc EXCEPT ![t] = "scan"]
      /\ link_fd' = [link_fd EXCEPT ![t] = f]
      /\ peer_ip' = [peer_ip EXCEPT ![t] = ip]
      /\ fd_owner' = [fd_owner EXCEPT ![f] = t]
      /\ peer_open' = [peer_open EXCEPT ![t] = TRUE]
      /\ UNCHANGED <<socket_fd, ipaddr, ctrl_tid, notinformcnt, unhandled_buf,
                     mutex, pos, at, bufleft, done, cancelled, unwinding,
                     sent, taken, tpc, ti, fate>>
  BY DEF Accept, Goto, tableVars, cancelVars, timerVars
<1>b. /\ pc \in [Threads -> LinkPcs] /\ link_fd \in [Threads -> Fds \cup {NoFd}]
      /\ fd_owner \in [Fds -> Threads \cup {NoTid}]
      /\ socket_fd \in [Slots -> Fds \cup {NoFd}]
  BY DEF IndInv, TypeOK
<1>c. ThreadsInv /\ OwnersInv /\ TableSound
  BY DEF IndInv
<1>d. \A s \in Slots : socket_fd[s] # NoFd =>
          fd_owner'[socket_fd[s]] = fd_owner[socket_fd[s]]
          /\ fd_owner[socket_fd[s]] # t
  BY <1>a, <1>b, <1>c DEF OwnersInv, Registered, Serving
<1>1. TypeOK'
  <2>1. pc' \in [Threads -> LinkPcs]
    BY <1>a, <1>b DEF LinkPcs, CheckingIn
  <2>2. /\ link_fd' \in [Threads -> Fds \cup {NoFd}]
        /\ peer_ip' \in [Threads -> Ips \cup {NoIp}]
        /\ fd_owner' \in [Fds -> Threads \cup {NoTid}]
        /\ peer_open' \in [Threads -> BOOLEAN]
    BY <1>a DEF IndInv, TypeOK
  <2>. QED
    BY <1>a, <2>1, <2>2 DEF IndInv, TypeOK
<1>2. ThreadsInv'
  <2>. SUFFICES ASSUME NEW u \in Threads PROVE ThreadsInv!(u)'
    BY DEF ThreadsInv
  <2>1. CASE u = t
    BY <1>a, <1>b, <2>1 DEF Registered, Serving
  <2>2. CASE u # t
    <3>1. ThreadsInv!(u)
      BY <1>c DEF ThreadsInv
    <3>. QED
      BY <1>a, <1>b, <2>2, <3>1
  <2>. QED
    BY <2>1, <2>2
<1>3. OwnersInv' /\ TableSound'
  BY <1>a, <1>b, <1>c, <1>d DEF OwnersInv, TableSound, Unlocked
<1>4. FreeSlotsInv' /\ NoWildCancel'
  BY <1>a DEF IndInv, FreeSlotsInv, NoWildCancel
<1>. QED
  BY <1>1, <1>2, <1>3, <1>4 DEF IndInv

\* NetServer.c:257-262: the process ends by returning, not by cancelling thread 0.
LEMMA AcceptFailsPreserves ==
    ASSUME IndInv, AcceptFails
    PROVE  IndInv'
<1>a. /\ fate' = "exited"
      /\ UNCHANGED <<socket_fd, ipaddr, ctrl_tid, notinformcnt, unhandled_buf,
                     mutex, pc, link_fd, peer_ip, pos, at, bufleft, done,
                     cancelled, unwinding, fd_owner, peer_open, sent, taken,
                     tpc, ti>>
  BY DEF AcceptFails, tableVars, localVars, cancelVars, netVars, timerVars
<1>1. TypeOK'
  BY <1>a DEF IndInv, TypeOK
<1>2. ThreadsInv' /\ OwnersInv' /\ TableSound'
  BY <1>a, QuietStep
<1>3. FreeSlotsInv' /\ NoWildCancel'
  BY <1>a DEF IndInv, FreeSlotsInv, NoWildCancel
<1>. QED
  BY <1>1, <1>2, <1>3 DEF IndInv

\* SysCheckInCmd.c:41-71: the scan moves t's own locals and leaves with a slot
\* chosen.
LEMMA ScanSlotPreserves ==
    ASSUME IndInv, NEW t \in Threads, ScanSlot(t)
    PROVE  IndInv'
<1>. USE ConstantsAssumption, Sentinels
<1>a. /\ pc[t] = "scan"
      /\ UNCHANGED <<socket_fd, ipaddr, ctrl_tid, notinformcnt, unhandled_buf,
                     mutex, link_fd, peer_ip, bufleft, done, cancelled,
                     unwinding, fd_owner, peer_open, sent, taken, tpc, ti, fate>>
  BY DEF ScanSlot, tableVars, cancelVars, netVars, timerVars
<1>b. /\ pc \in [Threads -> LinkPcs] /\ pos \in [Threads -> Slots \cup {NoSlot}]
      /\ at \in [Threads -> Slots] /\ fd_owner \in [Fds -> Threads \cup {NoTid}]
      /\ socket_fd \in [Slots -> Fds \cup {NoFd}]
  BY DEF IndInv, TypeOK
<1>c. /\ pos' \in [Threads -> Slots \cup {NoSlot}]
      /\ \A u \in Threads \ {t} : pos'[u] = pos[u]
  BY <1>b DEF ScanSlot, FirstFree
<1>d. /\ at' \in [Threads -> Slots]
      /\ \A u \in Threads \ {t} : at'[u] = at[u]
  BY <1>b DEF ScanSlot, Slots
<1>e. /\ pc'[t] \in {"scan", "refused", "enter"}
      /\ pc'[t] = "enter" => pos'[t] # NoSlot
      /\ \A u \in Threads \ {t} : pc'[u] = pc[u]
      /\ pc' \in [Threads -> {"scan", "refused", "enter"} \cup LinkPcs]
  <2>1. CASE UNCHANGED pc
    BY <1>a, <1>b, <2>1
  <2>2. CASE Goto(t, "refused")
    BY <1>b, <2>2 DEF Goto
  <2>3. CASE Goto(t, IF pos'[t] = NoSlot THEN "refused" ELSE "enter")
    BY <1>b, <2>3 DEF Goto
  <2>. QED
    BY <2>1, <2>2, <2>3 DEF ScanSlot
<1>f. ThreadsInv /\ OwnersInv /\ TableSound
  BY DEF IndInv
<1>1. TypeOK'
  <2>1. pc' \in [Threads -> LinkPcs]
    BY <1>e DEF LinkPcs, CheckingIn
  <2>. QED
    BY <1>a, <1>c, <1>d, <2>1 DEF IndInv, TypeOK
<1>2. ThreadsInv'
  <2>. SUFFICES ASSUME NEW u \in Threads PROVE ThreadsInv!(u)'
    BY DEF ThreadsInv
  <2>1. ThreadsInv!(u)
    BY <1>f DEF ThreadsInv
  <2>2. CASE u = t
    BY <1>a, <1>e, <2>1, <2>2 DEF Registered, Serving
  <2>3. CASE u # t
    BY <1>a, <1>c, <1>d, <1>e, <2>1, <2>3
  <2>. QED
    BY <2>2, <2>3
<1>3. OwnersInv'
  <2>1. \A s \in Slots : socket_fd[s] # NoFd => fd_owner[socket_fd[s]] \in Threads \ {t}
    BY <1>a, <1>b, <1>f DEF OwnersInv, Registered, Serving
  <2>. QED
    BY <1>a, <1>c, <1>e, <1>f, <2>1 DEF OwnersInv
<1>4. TableSound' /\ FreeSlotsInv' /\ NoWildCancel'
  BY <1>a DEF IndInv, TableSound, Unlocked, FreeSlotsInv, NoWildCancel
<1>. QED
  BY <1>1, <1>2, <1>3, <1>4 DEF IndInv

\* RecvOneFrame.c:65-94: the link's slot is found and its left-over frames taken.
LEMMA LookupPreserves ==
    ASSUME IndInv, NEW t \in Threads, Lookup(t)
    PROVE  IndInv'
<1>a. /\ pc[t] = "lookup"
      /\ UNCHANGED <<socket_fd, ipaddr, ctrl_tid, notinformcnt, mutex, link_fd,
                     peer_ip, pos, done, cancelled, unwinding, fd_owner,
                     peer_open, sent, taken, tpc, ti, fate>>
  BY DEF Lookup, cancelVars, netVars, timerVars
<1>b. /\ at \in [Threads -> Slots] /\ bufleft \in [Threads -> Seq(Frames)]
      /\ unhandled_buf \in [Slots -> Seq(Frames)] /\ pc \in [Threads -> LinkPcs]
  BY DEF IndInv, TypeOK
<1>c. PICK p \in {"recv", "store", "cleanup"} :
          /\ pc' = [pc EXCEPT ![t] = p]
          /\ at' \in [Threads -> Slots]
          /\ bufleft' \in [Threads -> Seq(Frames)]
          /\ unhandled_buf' \in [Slots -> Seq(Frames)]
          /\ \A u \in Threads \ {t} : at'[u] = at[u] /\ bufleft'[u] = bufleft[u]
          /\ p = "store" => bufleft'[t] # << >>
  <2>1. CASE \E s \in Slots :
                /\ at' = [at EXCEPT ![t] = s]
                /\ bufleft' = [bufleft EXCEPT ![t] = unhandled_buf[s]]
                /\ unhandled_buf' = [unhandled_buf EXCEPT ![s] = << >>]
                /\ Goto(t, IF unhandled_buf[s] = << >> THEN "recv" ELSE "store")
    <3>. PICK s \in Slots :
                /\ at' = [at EXCEPT ![t] = s]
                /\ bufleft' = [bufleft EXCEPT ![t] = unhandled_buf[s]]
                /\ unhandled_buf' = [unhandled_buf EXCEPT ![s] = << >>]
                /\ Goto(t, IF unhandled_buf[s] = << >> THEN "recv" ELSE "store")
      BY <2>1
    <3>1. CASE unhandled_buf[s] = << >>
      BY <1>b, <3>1 DEF Goto
    <3>2. CASE unhandled_buf[s] # << >>
      BY <1>b, <3>2 DEF Goto
    <3>. QED
      BY <3>1, <3>2
  <2>2. CASE Goto(t, "cleanup") /\ UNCHANGED <<at, bufleft, unhandled_buf>>
    BY <1>b, <2>2 DEF Goto
  <2>. QED
    BY <2>1, <2>2 DEF Lookup
<1>1. TypeOK'
  <2>1. pc' \in [Threads -> LinkPcs]
    BY <1>b, <1>c DEF LinkPcs, Serving, Leaving
  <2>. QED
    BY <1>a, <1>c, <2>1 DEF IndInv, TypeOK
<1>2. ThreadsInv' /\ OwnersInv' /\ TableSound'
  <2>1. pc[t] \in Serving /\ p \in Serving \cup {"cleanup"}
    BY <1>a DEF Serving
  <2>. QED
    BY <1>a, <1>c, <2>1, ServingStep
<1>3. FreeSlotsInv' /\ NoWildCancel'
  BY <1>a DEF IndInv, FreeSlotsInv, NoWildCancel
<1>. QED
  BY <1>1, <1>2, <1>3 DEF IndInv

\* HandShakeCmd.c:25-28: the link's slot is found again, or the frame dropped.
LEMMA DispatchHandShakePreserves ==
    ASSUME IndInv, NEW t \in Threads, DispatchHandShake(t)
    PROVE  IndInv'
<1>a. /\ pc[t] = "dispatch"
      /\ bufleft' = [bufleft EXCEPT ![t] = << >>]
      /\ UNCHANGED <<socket_fd, ipaddr, ctrl_tid, notinformcnt, unhandled_buf,
                     mutex, link_fd, peer_ip, pos, done, cancelled, unwinding,
                     fd_owner, peer_open, sent, taken, tpc, ti, fate>>
  BY DEF DispatchHandShake, tableVars, cancelVars, netVars, timerVars
<1>b. /\ at \in [Threads -> Slots] /\ bufleft \in [Threads -> Seq(Frames)]
      /\ pc \in [Threads -> LinkPcs]
  BY DEF IndInv, TypeOK
<1>c. PICK p \in {"reset", "lookup"} :
          /\ pc' = [pc EXCEPT ![t] = p]
          /\ at' \in [Threads -> Slots]
          /\ \A u \in Threads \ {t} : at'[u] = at[u]
  BY <1>b DEF DispatchHandShake, Goto
<1>1. TypeOK'
  <2>1. pc' \in [Threads -> LinkPcs]
    BY <1>b, <1>c DEF LinkPcs, Serving
  <2>2. bufleft' \in [Threads -> Seq(Frames)]
    BY <1>a, <1>b
  <2>. QED
    BY <1>a, <1>c, <2>1, <2>2 DEF IndInv, TypeOK
<1>2. ThreadsInv' /\ OwnersInv' /\ TableSound'
  <2>1. pc[t] \in Serving /\ p \in Serving \cup {"cleanup"} /\ p # "store"
    BY <1>a DEF Serving
  <2>2. \A u \in Threads \ {t} : bufleft'[u] = bufleft[u]
    BY <1>a, <1>b
  <2>. QED
    BY <1>a, <1>c, <2>1, <2>2, ServingStep
<1>3. FreeSlotsInv' /\ NoWildCancel'
  BY <1>a DEF IndInv, FreeSlotsInv, NoWildCancel
<1>. QED
  BY <1>1, <1>2, <1>3 DEF IndInv

\* LinkCtrl.c:119-129: a command starts or a frame is dropped.
LEMMA DispatchOtherPreserves ==
    ASSUME IndInv, NEW t \in Threads, DispatchOther(t)
    PROVE  IndInv'
<1>a. /\ pc[t] = "dispatch"
      /\ bufleft' = [bufleft EXCEPT ![t] = << >>]
      /\ UNCHANGED <<socket_fd, ipaddr, ctrl_tid, notinformcnt, unhandled_buf,
                     mutex, link_fd, peer_ip, pos, at, done, cancelled,
                     unwinding, fd_owner, peer_open, sent, taken, tpc, ti, fate>>
  BY DEF DispatchOther, tableVars, cancelVars, netVars, timerVars
<1>b. bufleft \in [Threads -> Seq(Frames)] /\ pc \in [Threads -> LinkPcs]
  BY DEF IndInv, TypeOK
<1>c. PICK p \in {"work", "lookup"} : pc' = [pc EXCEPT ![t] = p]
  BY DEF DispatchOther, Goto
<1>1. TypeOK'
  <2>1. pc' \in [Threads -> LinkPcs]
    BY <1>b, <1>c DEF LinkPcs, Serving
  <2>2. bufleft' \in [Threads -> Seq(Frames)]
    BY <1>a, <1>b
  <2>. QED
    BY <1>a, <2>1, <2>2 DEF IndInv, TypeOK
<1>2. ThreadsInv' /\ OwnersInv' /\ TableSound'
  <2>1. pc[t] \in Serving /\ p \in Serving \cup {"cleanup"} /\ p # "store"
    BY <1>a DEF Serving
  <2>2. \A u \in Threads \ {t} : at'[u] = at[u] /\ bufleft'[u] = bufleft[u]
    BY <1>a, <1>b
  <2>. QED
    BY <1>a, <1>c, <2>1, <2>2, ServingStep
<1>3. FreeSlotsInv' /\ NoWildCancel'
  BY <1>a DEF IndInv, FreeSlotsInv, NoWildCancel
<1>. QED
  BY <1>1, <1>2, <1>3 DEF IndInv

\* CtrlLinkTbl.c:104-106: a registered thread finds the slot it registered in; a
\* thread that finds none has no descriptor in the table.
LEMMA DelFindPreserves ==
    ASSUME IndInv, NEW t \in Threads, DelFind(t)
    PROVE  IndInv'
<1>. USE Sentinels
<1>a. /\ pc[t] = "cleanup"
      /\ UNCHANGED <<socket_fd, ipaddr, ctrl_tid, notinformcnt, unhandled_buf,
                     mutex, link_fd, peer_ip, pos, bufleft, done, cancelled,
                     unwinding, fd_owner, peer_open, sent, taken, tpc, ti, fate>>
  BY DEF DelFind, tableVars, cancelVars, netVars, timerVars
<1>b. /\ at \in [Threads -> Slots] /\ pc \in [Threads -> LinkPcs]
      /\ fd_owner \in [Fds -> Threads \cup {NoTid}]
      /\ link_fd \in [Threads -> Fds \cup {NoFd}]
      /\ socket_fd \in [Slots -> Fds \cup {NoFd}]
  BY DEF IndInv, TypeOK
<1>c. ThreadsInv /\ OwnersInv /\ TableSound
  BY DEF IndInv
<1>d. link_fd[t] # NoFd /\ fd_owner[link_fd[t]] = t /\ pos[t] # NoSlot
  BY <1>a, <1>c DEF ThreadsInv, Registered
<1>e. /\ at' \in [Threads -> Slots]
      /\ pc' \in [Threads -> LinkPcs]
      /\ \A u \in Threads \ {t} : at'[u] = at[u] /\ pc'[u] = pc[u]
      /\ \/ pc'[t] = "delip" /\ at'[t] = pos[t]
         \/ pc'[t] = "close" /\ \A s \in Slots : socket_fd[s] # link_fd[t]
  <2>0. "delip" \in LinkPcs /\ "close" \in LinkPcs
    BY DEF LinkPcs, Leaving
  <2>1. CASE \E s \in Slots : /\ socket_fd[s] = link_fd[t]
                              /\ at' = [at EXCEPT ![t] = s]
                              /\ Goto(t, "delip")
    <3>. PICK s \in Slots : /\ socket_fd[s] = link_fd[t]
                            /\ at' = [at EXCEPT ![t] = s]
                            /\ Goto(t, "delip")
      BY <2>1
    <3>1. pos[t] = s
      BY <1>a, <1>c, <1>d DEF OwnersInv, Registered
    <3>. QED
      BY <1>b, <2>0, <3>1 DEF Goto
  <2>2. CASE NotInTable(link_fd[t]) /\ Goto(t, "close") /\ UNCHANGED at
    BY <1>b, <2>0, <2>2 DEF Goto, NotInTable
  <2>. QED
    BY <2>1, <2>2 DEF DelFind, HoldsFd
<1>1. TypeOK'
  BY <1>a, <1>e DEF IndInv, TypeOK
<1>2. ThreadsInv'
  <2>. SUFFICES ASSUME NEW u \in Threads PROVE ThreadsInv!(u)'
    BY DEF ThreadsInv
  <2>1. ThreadsInv!(u)
    BY <1>c DEF ThreadsInv
  <2>2. CASE u = t
    BY <1>a, <1>d, <1>e, <2>1, <2>2 DEF Registered, Serving
  <2>3. CASE u # t
    BY <1>a, <1>e, <2>1, <2>3
  <2>. QED
    BY <2>2, <2>3
<1>3. OwnersInv'
  <2>. SUFFICES ASSUME NEW s \in Slots, socket_fd[s] # NoFd
                PROVE  OwnersInv!(s)'
    BY <1>a DEF OwnersInv
  <2>1. OwnersInv!(s)
    BY <1>c DEF OwnersInv
  <2>2. CASE fd_owner[socket_fd[s]] # t
    BY <1>a, <1>b, <1>e, <2>1, <2>2
  <2>3. CASE fd_owner[socket_fd[s]] = t /\ pc'[t] = "delip"
    BY <1>a, <2>1, <2>3 DEF Registered
  <2>4. CASE fd_owner[socket_fd[s]] = t /\ pc'[t] = "close"
    BY <1>a, <1>e, <2>1, <2>4
  <2>. QED
    BY <1>e, <2>2, <2>3, <2>4
<1>4. TableSound' /\ FreeSlotsInv' /\ NoWildCancel'
  BY <1>a DEF IndInv, TableSound, Unlocked, FreeSlotsInv, NoWildCancel
<1>. QED
  BY <1>1, <1>2, <1>3, <1>4 DEF IndInv

\* LinkCtrl.c:55: the descriptor that goes back to the kernel stands in no slot.
LEMMA ClosePreserves ==
    ASSUME IndInv, NEW t \in Threads, Close(t)
    PROVE  IndInv'
<1>. USE ConstantsAssumption, Sentinels
<1>a. /\ pc[t] = "close"
      /\ pc' = [pc EXCEPT ![t] = "dead"]
      /\ link_fd' = [link_fd EXCEPT ![t] = NoFd]
      /\ peer_ip' = [peer_ip EXCEPT ![t] = NoIp]
      /\ pos' = [pos EXCEPT ![t] = NoSlot]
      /\ at' = [at EXCEPT ![t] = 1]
      /\ bufleft' = [bufleft EXCEPT ![t] = << >>]
      /\ done' = [done EXCEPT ![t] = 0]
      /\ cancelled' = [cancelled EXCEPT ![t] = FALSE]
      /\ unwinding' = [unwinding EXCEPT ![t] = FALSE]
      /\ peer_open' = [peer_open EXCEPT ![t] = FALSE]
      /\ sent' = [sent EXCEPT ![t] = 0]
      /\ taken' = [taken EXCEPT ![t] = 0]
      /\ UNCHANGED <<socket_fd, ipaddr, ctrl_tid, notinformcnt, unhandled_buf,
                     mutex, tpc, ti, fate>>
      /\ UNCHANGED fd_owner \/ fd_owner' = [fd_owner EXCEPT ![link_fd[t]] = NoTid]
  BY DEF Close, EndThread, Goto, tableVars, timerVars
<1>b. /\ at \in [Threads -> Slots] /\ pc \in [Threads -> LinkPcs]
      /\ fd_owner \in [Fds -> Threads \cup {NoTid}]
      /\ link_fd \in [Threads -> Fds \cup {NoFd}]
      /\ socket_fd \in [Slots -> Fds \cup {NoFd}]
  BY DEF IndInv, TypeOK
<1>c. ThreadsInv /\ OwnersInv /\ TableSound
  BY DEF IndInv
<1>d. link_fd[t] \in Fds /\ fd_owner[link_fd[t]] = t
  BY <1>a, <1>b, <1>c DEF ThreadsInv
<1>e. \A s \in Slots : socket_fd[s] # NoFd =>
          /\ fd_owner'[socket_fd[s]] = fd_owner[socket_fd[s]]
          /\ fd_owner[socket_fd[s]] \in Threads \ {t}
  BY <1>a, <1>b, <1>c, <1>d DEF OwnersInv, Registered, Serving
<1>1. TypeOK'
  <2>1. pc' \in [Threads -> LinkPcs]
    BY <1>a, <1>b DEF LinkPcs
  <2>2. at' \in [Threads -> Slots]
    BY <1>a, <1>b DEF Slots
  <2>3. bufleft' \in [Threads -> Seq(Frames)]
    BY <1>a DEF IndInv, TypeOK
  <2>4. fd_owner' \in [Fds -> Threads \cup {NoTid}]
    BY <1>a, <1>b
  <2>5. /\ link_fd' \in [Threads -> Fds \cup {NoFd}]
        /\ peer_ip' \in [Threads -> Ips \cup {NoIp}]
        /\ pos' \in [Threads -> Slots \cup {NoSlot}]
        /\ cancelled' \in [Threads -> BOOLEAN]
        /\ unwinding' \in [Threads -> BOOLEAN]
        /\ peer_open' \in [Threads -> BOOLEAN]
    BY <1>a DEF IndInv, TypeOK
  <2>6. /\ done' \in [Threads -> 0..MaxSend]
        /\ sent' \in [Threads -> 0..MaxSend]
        /\ taken' \in [Threads -> 0..MaxSend]
    <3>1. 0 \in 0..MaxSend
      BY ConstantsAssumption
    <3>2. /\ done \in [Threads -> 0..MaxSend]
          /\ sent \in [Threads -> 0..MaxSend]
          /\ taken \in [Threads -> 0..MaxSend]
      BY DEF IndInv, TypeOK
    <3>. QED
      BY <1>a, <3>1, <3>2
  <2>. QED
    BY <1>a, <2>1, <2>2, <2>3, <2>4, <2>5, <2>6 DEF IndInv, TypeOK
<1>2. ThreadsInv'
  <2>. SUFFICES ASSUME NEW u \in Threads PROVE ThreadsInv!(u)'
    BY DEF ThreadsInv
  <2>1. ThreadsInv!(u)
    BY <1>c DEF ThreadsInv
  <2>2. CASE u = t
    BY <1>a, <1>b, <2>1, <2>2 DEF Registered, Serving
  <2>3. CASE u # t
    BY <1>a, <1>b, <1>d, <2>1, <2>3
  <2>. QED
    BY <2>2, <2>3
<1>3. OwnersInv'
  BY <1>a, <1>b, <1>c, <1>e DEF OwnersInv
<1>4. TableSound'
  BY <1>a, <1>c, <1>e DEF TableSound, Unlocked
<1>5. FreeSlotsInv' /\ NoWildCancel'
  BY <1>a DEF IndInv, FreeSlotsInv, NoWildCancel
<1>. QED
  BY <1>1, <1>2, <1>3, <1>4, <1>5 DEF IndInv

\* NetServer.c:65: the timer's index stays within the table.
LEMMA NextSlotTypes ==
    ASSUME ti \in Slots, NextSlot
    PROVE  ti' \in Slots /\ tpc' \in {"check", "sleep"}
  BY ConstantsAssumption DEF NextSlot, Slots

\* NetServer.c:67: the timer stops at the lock only of a slot that is in use.
LEMMA TimerCheckPreserves ==
    ASSUME IndInv, TimerCheck
    PROVE  IndInv'
<1>a. /\ tpc = "check"
      /\ \/ NextSlot
         \/ socket_fd[ti] # NoFd /\ tpc' = "lock" /\ UNCHANGED ti
      /\ UNCHANGED <<socket_fd, ipaddr, ctrl_tid, notinformcnt, unhandled_buf,
                     mutex, pc, link_fd, peer_ip, pos, at, bufleft, done,
                     cancelled, unwinding, fd_owner, peer_open, sent, taken, fate>>
  BY DEF TimerCheck, NextSlot, tableVars, localVars, cancelVars, netVars
<1>b. ti \in Slots
  BY DEF IndInv, TypeOK
<1>c. /\ ti' \in Slots /\ tpc' \in {"check", "lock", "sleep"}
      /\ tpc' = "lock" => ti' = ti /\ socket_fd[ti] # NoFd
  BY <1>a, <1>b, NextSlotTypes
<1>1. TypeOK'
  BY <1>a, <1>c DEF IndInv, TypeOK
<1>2. ThreadsInv' /\ OwnersInv' /\ TableSound'
  BY <1>a, QuietStep
<1>3. FreeSlotsInv' /\ NoWildCancel'
  BY <1>a, <1>c DEF IndInv, FreeSlotsInv, NoWildCancel
<1>. QED
  BY <1>1, <1>2, <1>3 DEF IndInv

\* A slot whose count runs out is in use, and so names a thread.
\* NetServer.c:70-83: a free slot gets its one tick here, and a slot whose count
\* runs out is in use, unlocked, and so names a thread.
LEMMA TimerTickPreserves ==
    ASSUME IndInv, TimerTick
    PROVE  IndInv'
<1>. USE ConstantsAssumption, Sentinels
<1>. DEFINE due == notinformcnt[ti] + 1 > MaxNotInform
            count == IF due THEN MaxNotInform + 1 ELSE notinformcnt[ti] + 1
<1>a. /\ tpc = "lock" /\ mutex[ti] = NoTid
      /\ notinformcnt' = [notinformcnt EXCEPT ![ti] = count]
      /\ UNCHANGED <<socket_fd, ipaddr, ctrl_tid, unhandled_buf, mutex, pc,
                     link_fd, peer_ip, pos, at, bufleft, done, unwinding,
                     fd_owner, peer_open, sent, taken>>
  BY DEF TimerTick, Unlocked, localVars, netVars
<1>b. /\ ti \in Slots /\ notinformcnt \in [Slots -> 0..(MaxNotInform + 1)]
      /\ ctrl_tid \in [Slots -> Threads \cup {NoTid}]
      /\ cancelled \in [Threads -> BOOLEAN]
      /\ fate \in {"up", "segv", "sigpipe", "exited"}
  BY DEF IndInv, TypeOK
<1>c. due => ctrl_tid[ti] \in Threads
  <2>1. CASE socket_fd[ti] = NoFd
    <3>1. notinformcnt[ti] = 0
      BY <1>a, <1>b, <2>1 DEF IndInv, FreeSlotsInv
    <3>. QED
      BY <3>1
  <2>2. CASE socket_fd[ti] # NoFd
    BY <1>a, <1>b, <2>2 DEF IndInv, TableSound, Unlocked
  <2>. QED
    BY <2>1, <2>2
<1>d. /\ NextSlot /\ UNCHANGED fate
      /\ \/ UNCHANGED cancelled
         \/ cancelled' = [cancelled EXCEPT ![ctrl_tid[ti]] = pc[ctrl_tid[ti]] # "dead"]
  BY <1>c DEF TimerTick
<1>e. ti' \in Slots /\ tpc' \in {"check", "sleep"}
  BY <1>b, <1>d, NextSlotTypes
<1>1. TypeOK'
  <2>1. notinformcnt' \in [Slots -> 0..(MaxNotInform + 1)]
    <3>1. count \in 0..(MaxNotInform + 1)
      BY <1>b
    <3>. QED
      BY <1>a, <1>b, <3>1
  <2>2. cancelled' \in [Threads -> BOOLEAN]
    BY <1>b, <1>d
  <2>. QED
    BY <1>a, <1>d, <1>e, <2>1, <2>2 DEF IndInv, TypeOK
<1>2. ThreadsInv' /\ OwnersInv' /\ TableSound'
  BY <1>a, QuietStep
<1>3. FreeSlotsInv'
  <2>. SUFFICES ASSUME NEW s \in Slots, socket_fd[s] = NoFd
                PROVE  ctrl_tid[s] = NoTid /\ notinformcnt'[s] <= 1
    BY <1>a, <1>e DEF FreeSlotsInv
  <2>1. /\ ctrl_tid[s] = NoTid /\ notinformcnt[s] <= 1
        /\ s = ti => notinformcnt[s] = 0
    BY <1>a DEF IndInv, FreeSlotsInv
  <2>2. CASE s = ti
    BY <1>a, <1>b, <2>1, <2>2
  <2>3. CASE s # ti
    BY <1>a, <1>b, <2>1, <2>3
  <2>. QED
    BY <2>1, <2>2, <2>3
<1>4. NoWildCancel'
  BY <1>d DEF IndInv, NoWildCancel
<1>. QED
  BY <1>1, <1>2, <1>3, <1>4 DEF IndInv

\* NetServer.c:86: a round starts over.
LEMMA TimerWakePreserves ==
    ASSUME IndInv, TimerWake
    PROVE  IndInv'
<1>a. /\ tpc' = "check" /\ ti' = 1
      /\ UNCHANGED <<socket_fd, ipaddr, ctrl_tid, notinformcnt, unhandled_buf,
                     mutex, pc, link_fd, peer_ip, pos, at, bufleft, done,
                     cancelled, unwinding, fd_owner, peer_open, sent, taken, fate>>
  BY DEF TimerWake, tableVars, localVars, cancelVars, netVars
<1>1. TypeOK'
  <2>1. 1 \in Slots
    BY ConstantsAssumption DEF Slots
  <2>. QED
    BY <1>a, <2>1 DEF IndInv, TypeOK
<1>2. ThreadsInv' /\ OwnersInv' /\ TableSound'
  BY <1>a, QuietStep
<1>3. FreeSlotsInv' /\ NoWildCancel'
  BY <1>a DEF IndInv, FreeSlotsInv, NoWildCancel
<1>. QED
  BY <1>1, <1>2, <1>3 DEF IndInv

-----------------------------------------------------------------------------

\* StartNetServer's initial state satisfies the inductive invariant.
LEMMA InitIndInv == Init => IndInv
<1>. SUFFICES ASSUME Init PROVE IndInv
  OBVIOUS
<1>. USE ConstantsAssumption, Sentinels
<1>1. TypeOK
  <2>1. 1 \in Slots /\ "none" \in LinkPcs
    BY DEF Slots, LinkPcs
  <2>2. << >> \in Seq(Frames)
    OBVIOUS
  <2>. QED
    BY <2>1, <2>2 DEF Init, InitCtrlLinkTbl, TypeOK
<1>2. ThreadsInv
  BY DEF Init, InitCtrlLinkTbl, ThreadsInv, Registered, Serving
<1>3. OwnersInv /\ FreeSlotsInv /\ TableSound /\ NoWildCancel
  BY DEF Init, InitCtrlLinkTbl, OwnersInv, FreeSlotsInv, TableSound, NoWildCancel
<1>. QED
  BY <1>1, <1>2, <1>3 DEF IndInv

\* Every step, and stuttering, preserves the inductive invariant.
LEMMA NextIndInv == IndInv /\ [Next]_vars => IndInv'
<1>. SUFFICES ASSUME IndInv, [Next]_vars PROVE IndInv'
  OBVIOUS
<1>1. CASE Server
  BY <1>1, AcceptPreserves, AcceptFailsPreserves DEF Server
<1>2. ASSUME NEW t \in Threads, LinkOwnStep(t) PROVE IndInv'
  BY <1>2, ScanSlotPreserves, EnterFdPreserves, EnterRestPreserves,
     RefusePreserves, LookupPreserves, StorePreserves,
     DispatchHandShakePreserves, DispatchOtherPreserves,
     HandShakeResetPreserves, UnwindPreserves, CancelledInCleanupPreserves,
     DelFindPreserves, DelIpPreserves, DelRestPreserves, ClosePreserves
     DEF LinkOwnStep
<1>3. ASSUME NEW t \in Threads, LinkWaitingStep(t) PROVE IndInv'
  BY <1>3, RecvPreserves, RecvEndPreserves, WorkDonePreserves, ReplyPreserves,
     ReplyBrokenPreserves DEF LinkWaitingStep
<1>4. ASSUME NEW t \in Threads, Peer(t) PROVE IndInv'
  BY <1>4, PeerSendPreserves, PeerClosePreserves DEF Peer
<1>5. CASE Timer
  BY <1>5, TimerCheckPreserves, TimerTickPreserves, TimerWakePreserves DEF Timer
<1>6. CASE UNCHANGED vars
  BY <1>6 DEF IndInv, TypeOK, ThreadsInv, OwnersInv, FreeSlotsInv, TableSound,
     NoWildCancel, Unlocked, vars, tableVars, localVars, cancelVars, netVars,
     timerVars
<1>. QED
  BY <1>1, <1>2, <1>3, <1>4, <1>5, <1>6 DEF Next, Link

\* The inductive invariant holds in every reachable state of the link server,
\* whatever the interleaving of accepting, checking in, serving, cleaning up
\* (NetServer.c, LinkCtrl.c, CtrlLinkTbl.c) and of the timer.
THEOREM Inductive == Spec => []IndInv
<1>. QED
  BY InitIndInv, NextIndInv, PTL DEF Spec

\* Every field of CtrlLinkTbl and every local of a link thread keeps its type.
THEOREM TypeCorrect == Spec => []TypeOK
<1>1. IndInv => TypeOK
  BY DEF IndInv
<1>. QED
  BY <1>1, Inductive, PTL

\* The timer of NetServer.c:54-92 never cancels thread 0, for any number of
\* slots and any limit of at least one.
THEOREM TimerCancelsThreads == Spec => []NoWildCancel
<1>1. IndInv => NoWildCancel
  BY DEF IndInv
<1>. QED
  BY <1>1, Inductive, PTL

\* A descriptor in CtrlLinkTbl is open, in one slot, and its slot names the
\* thread that owns it, even when two clients are checked in to one slot.
THEOREM TableIsSound == Spec => []TableSound
<1>1. IndInv => TableSound
  BY DEF IndInv
<1>. QED
  BY <1>1, Inductive, PTL
=============================================================================
