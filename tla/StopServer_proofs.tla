-------------------------- MODULE StopServer_proofs --------------------------
(***************************************************************************)
(* Machine-checked proofs about StopServer: the types, and that            *)
(* StopNetServer's loop, which reads ctrl_tid three times per slot without *)
(* the slot's mutex, reaches every link the table named.                   *)
(***************************************************************************)
EXTENDS StopServer, LinkSerial_proofs

-----------------------------------------------------------------------------
(* The invariants *)

\* RecvOneFrame never stores from an empty buffer.
StoreReady == \A t \in Threads : pc[t] = "store" => bufleft[t] # << >>

\* DeinitCtrlLinkTbl pulls the table from under the threads, so IndInv does
\* not outlive it: the types have to stand without.
Types == TypeOK /\ StoreReady

\* A slot names a thread that holds it, or one that died before it could clear it.
NamesInv ==
    \A s \in Slots : ctrl_tid[s] # NoTid =>
        /\ pc[ctrl_tid[s]] \in Holding \cup {"dead"}
        /\ pc[ctrl_tid[s]] # "dead" => pos[ctrl_tid[s]] = s

\* A link the table named has ended or is about to.
Ended(t) == pc[t] \in {"close", "dead"}

\* The loop has not come to it yet; a thread waited for in its slot is it.
Ahead(t) ==
    /\ pc[t] \in Holding
    /\ pos[t] >= hi
    /\ hpc = "wait" /\ pos[t] = hi => htid = t

\* While the table is in order, the loop has passed over none of them.
LoopInv ==
    fate = "up" /\ hpc \in {"off"} \cup Loop =>
        /\ IndInv /\ SerialInv /\ NamesInv
        /\ hpc = "off" => hi = 1
        /\ hpc \in Loop => \A t \in named : Ended(t) \/ Ahead(t)

\* Inductive with SerialArrivals.
StopInv == StopTypeOK /\ LoopInv /\ NamedLinksEnd

-----------------------------------------------------------------------------
(* Types without the table's invariant *)

\* A thread that ends gives up what it has.
LEMMA EndTypes ==
    ASSUME Types, NEW t \in Threads, EndThread(t),
           fd_owner' \in [Fds -> Threads \cup {NoTid}],
           UNCHANGED <<tableVars, timerVars, fate>>
    PROVE  Types'
<1>. USE DEF Types, TypeOK, EndThread, Goto
<1>1. 1 \in Slots /\ 0 \in 0..MaxSend
  BY ConstantsAssumption DEF Slots
<1>2. pc' \in [Threads -> LinkPcs]
  BY DEF LinkPcs
<1>3. link_fd' \in [Threads -> Fds \cup {NoFd}] /\ peer_ip' \in [Threads -> Ips \cup {NoIp}]
  OBVIOUS
<1>4. pos' \in [Threads -> Slots \cup {NoSlot}] /\ at' \in [Threads -> Slots]
  BY <1>1
<1>5. bufleft' \in [Threads -> Seq(Frames)] /\ done' \in [Threads -> 0..MaxSend]
  BY <1>1
<1>6. cancelled' \in [Threads -> BOOLEAN] /\ unwinding' \in [Threads -> BOOLEAN]
  OBVIOUS
<1>7. peer_open' \in [Threads -> BOOLEAN]
  OBVIOUS
<1>8. sent' \in [Threads -> 0..MaxSend] /\ taken' \in [Threads -> 0..MaxSend]
  BY <1>1
<1>9. StoreReady'
  BY DEF StoreReady
<1>. QED
  BY <1>2, <1>3, <1>4, <1>5, <1>6, <1>7, <1>8, <1>9 DEF tableVars, timerVars

\* SysCheckInCmd.c:36-96.
LEMMA CheckInTypes ==
    ASSUME Types, NEW t \in Threads, ScanSlot(t) \/ EnterFd(t) \/ EnterRest(t)
    PROVE  Types'
<1>a. pc \in [Threads -> LinkPcs]
  BY DEF Types, TypeOK
<1>b. ScanSlot(t) => \E p \in {"scan", "refused", "enter"} : pc' = [pc EXCEPT ![t] = p]
  BY <1>a DEF ScanSlot, Goto
<1>c. ScanSlot(t) => at' \in [Threads -> Slots]
  <2>1. at \in [Threads -> Slots] /\ MaxConnNum \in Nat
    BY ConstantsAssumption DEF Types, TypeOK
  <2>2. ScanSlot(t) =>
            at' = at \/ (at[t] < MaxConnNum /\ at' = [at EXCEPT ![t] = at[t] + 1])
    BY DEF ScanSlot
  <2>3. at[t] < MaxConnNum => at[t] + 1 \in Slots
    BY <2>1 DEF Slots
  <2>. QED
    BY <2>1, <2>2, <2>3
<1>. USE DEF Types, TypeOK, StoreReady, Goto, LinkPcs, CheckingIn, Serving,
             tableVars, localVars, cancelVars, netVars, timerVars
<1>1. CASE ScanSlot(t)
  <2>1. pc' \in [Threads -> LinkPcs] /\ \A u \in Threads : pc'[u] = "store" => pc[u] = "store"
    BY <1>1, <1>b
  <2>2. pos' \in [Threads -> Slots \cup {NoSlot}]
    BY <1>1 DEF ScanSlot, FirstFree
  <2>3. at' \in [Threads -> Slots]
    BY <1>1, <1>c
  <2>. QED
    BY <1>1, <2>1, <2>2, <2>3 DEF ScanSlot
<1>2. CASE EnterFd(t)
  BY <1>2 DEF EnterFd
<1>3. CASE EnterRest(t)
  BY <1>3 DEF EnterRest
<1>. QED
  BY <1>1, <1>2, <1>3

\* RecvOneFrame.c:60-198.
LEMMA ReceiveTypes ==
    ASSUME Types, NEW t \in Threads,
           Lookup(t) \/ (\E k \in 1..MaxSend : Recv(t, k)) \/ RecvEnd(t) \/ Store(t)
    PROVE  Types'
<1>. USE DEF Types, TypeOK, StoreReady, Goto, LinkPcs, Serving, Leaving,
             tableVars, localVars, cancelVars, netVars, timerVars
<1>1. CASE Lookup(t)
  <2>1. ASSUME NEW s \in Slots,
               at' = [at EXCEPT ![t] = s],
               bufleft' = [bufleft EXCEPT ![t] = unhandled_buf[s]],
               unhandled_buf' = [unhandled_buf EXCEPT ![s] = << >>],
               pc' = [pc EXCEPT ![t] = IF unhandled_buf[s] = << >> THEN "recv" ELSE "store"]
        PROVE  Types'
    <3>1. pc' \in [Threads -> LinkPcs] /\ at' \in [Threads -> Slots]
      BY <2>1
    <3>2. bufleft' \in [Threads -> Seq(Frames)] /\ unhandled_buf' \in [Slots -> Seq(Frames)]
      BY <2>1
    <3>3. StoreReady'
      BY <2>1
    <3>. QED
      BY <1>1, <3>1, <3>2, <3>3 DEF Lookup
  <2>2. ASSUME pc' = [pc EXCEPT ![t] = "cleanup"], UNCHANGED <<at, bufleft, unhandled_buf>>
        PROVE  Types'
    BY <1>1, <2>2 DEF Lookup
  <2>. QED
    BY <1>1, <2>1, <2>2 DEF Lookup
<1>2. ASSUME NEW k \in 1..MaxSend, Recv(t, k) PROVE Types'
  <2>. DEFINE read == [j \in 1..k |-> <<t, taken[t] + j>>]
  <2>1. taken[t] \in 0..MaxSend /\ taken[t] + k \in 0..MaxSend /\ MaxSend \in Nat
    <3>1. taken[t] \in 0..MaxSend /\ sent[t] \in 0..MaxSend /\ taken[t] + k <= sent[t]
      BY <1>2 DEF Recv
    <3>. QED
      BY <3>1, ConstantsAssumption
  <2>2. \A j \in 1..k : <<t, taken[t] + j>> \in Frames
    <3>1. \A j \in 1..k : taken[t] + j \in 1..MaxSend
      <4>. HIDE DEF Types
      <4>. QED
        BY <2>1
    <3>. QED
      BY <3>1 DEF Frames
  <2>3. read \in Seq(Frames) /\ read # << >>
    <3>1. read \in Seq(Frames)
      BY <2>2
    <3>2. 1 \in DOMAIN read
      OBVIOUS
    <3>3. read # << >>
      <4>. HIDE DEF read
      <4>. QED
        BY <3>2
    <3>. QED
      BY <3>1, <3>3
  <2>4. bufleft' \in [Threads -> Seq(Frames)] /\ taken' \in [Threads -> 0..MaxSend]
    BY <1>2, <2>1, <2>3 DEF Recv
  <2>5. pc' \in [Threads -> LinkPcs] /\ StoreReady'
    BY <1>2, <2>3 DEF Recv
  <2>. QED
    BY <1>2, <2>4, <2>5 DEF Recv
<1>3. CASE RecvEnd(t)
  BY <1>3 DEF RecvEnd
<1>4. CASE Store(t)
  <2>1. bufleft[t] \in Seq(Frames) /\ bufleft[t] # << >>
    BY <1>4 DEF Store
  <2>2. /\ Head(bufleft[t]) \in Frames /\ Tail(bufleft[t]) \in Seq(Frames)
        /\ <<Head(bufleft[t])>> \in Seq(Frames)
    BY <2>1
  <2>3. Head(bufleft[t])[2] \in 0..MaxSend
    <3>1. \A fr \in Frames : fr[2] \in 0..MaxSend
      BY DEF Frames
    <3>. QED
      BY <2>2, <3>1
  <2>4. unhandled_buf' \in [Slots -> Seq(Frames)] /\ bufleft' \in [Threads -> Seq(Frames)]
    BY <1>4, <2>2 DEF Store, LeftOver
  <2>5. done' \in [Threads -> 0..MaxSend]
    BY <1>4, <2>3 DEF Store
  <2>6. pc' \in [Threads -> LinkPcs] /\ StoreReady'
    BY <1>4 DEF Store
  <2>7. UNCHANGED <<socket_fd, ipaddr, ctrl_tid, notinformcnt, mutex, link_fd,
                    peer_ip, pos, at, cancelVars, netVars, timerVars, fate>>
    BY <1>4 DEF Store
  <2>. QED
    BY <2>4, <2>5, <2>6, <2>7
<1>. QED
  BY <1>1, <1>2, <1>3, <1>4

\* LinkCtrl.c:109-132, HandShakeCmd.c:18-52, Functions.c:117-123.
LEMMA HandleTypes ==
    ASSUME Types, NEW t \in Threads,
           \/ DispatchHandShake(t) \/ DispatchOther(t) \/ HandShakeReset(t)
           \/ WorkDone(t) \/ Reply(t) \/ ReplyBroken(t)
    PROVE  Types'
<1>. USE DEF Types, TypeOK, StoreReady, Goto, LinkPcs, Serving,
             tableVars, localVars, cancelVars, netVars, timerVars
<1>1. CASE DispatchHandShake(t)
  <2>1. bufleft' \in [Threads -> Seq(Frames)]
    BY <1>1 DEF DispatchHandShake
  <2>2. ASSUME NEW s \in Slots, at' = [at EXCEPT ![t] = s], pc' = [pc EXCEPT ![t] = "reset"]
        PROVE  Types'
    BY <1>1, <2>1, <2>2 DEF DispatchHandShake
  <2>3. ASSUME UNCHANGED at, pc' = [pc EXCEPT ![t] = "lookup"]
        PROVE  Types'
    BY <1>1, <2>1, <2>3 DEF DispatchHandShake
  <2>. QED
    BY <1>1, <2>2, <2>3 DEF DispatchHandShake
<1>2. CASE DispatchOther(t)
  <2>1. pc' \in [Threads -> LinkPcs] /\ bufleft' \in [Threads -> Seq(Frames)] /\ StoreReady'
    BY <1>2 DEF DispatchOther
  <2>. QED
    BY <1>2, <2>1 DEF DispatchOther
<1>3. CASE HandShakeReset(t)
  <2>1. notinformcnt' \in [Slots -> 0..(MaxNotInform + 1)]
    BY <1>3, ConstantsAssumption DEF HandShakeReset
  <2>2. pc' \in [Threads -> LinkPcs] /\ StoreReady'
    BY <1>3 DEF HandShakeReset
  <2>. QED
    BY <1>3, <2>1, <2>2 DEF HandShakeReset
<1>4. CASE WorkDone(t) \/ Reply(t)
  <2>1. pc' \in [Threads -> LinkPcs] /\ StoreReady'
    BY <1>4 DEF WorkDone, Reply
  <2>. QED
    BY <1>4, <2>1 DEF WorkDone, Reply
<1>5. CASE ReplyBroken(t)
  BY <1>5 DEF ReplyBroken
<1>. QED
  BY <1>1, <1>2, <1>3, <1>4, <1>5

\* LinkCtrl.c:43-63, CtrlLinkTbl.c:100-133.
LEMMA CleanupTypes ==
    ASSUME Types, NEW t \in Threads,
           \/ Refuse(t) \/ Unwind(t) \/ CancelledInCleanup(t)
           \/ DelFind(t) \/ DelIp(t) \/ DelRest(t) \/ Close(t)
    PROVE  Types'
<1>. USE DEF Goto, LinkPcs, Leaving, Serving,
             tableVars, localVars, cancelVars, netVars, timerVars
<1>1. CASE Refuse(t) \/ CancelledInCleanup(t) \/ Close(t)
  <2>1. fd_owner \in [Fds -> Threads \cup {NoTid}]
    BY DEF Types, TypeOK
  <2>2. fd_owner' \in [Fds -> Threads \cup {NoTid}]
    BY <1>1, <2>1 DEF Refuse, CancelledInCleanup, Close
  <2>3. EndThread(t) /\ UNCHANGED <<tableVars, timerVars, fate>>
    BY <1>1 DEF Refuse, CancelledInCleanup, Close
  <2>. QED
    BY <2>2, <2>3, EndTypes
<1>. USE DEF Types, TypeOK, StoreReady
<1>2. CASE Unwind(t)
  <2>1. pc' \in [Threads -> LinkPcs] /\ bufleft' \in [Threads -> Seq(Frames)] /\ StoreReady'
    BY <1>2 DEF Unwind
  <2>2. unwinding' \in [Threads -> BOOLEAN]
    BY <1>2 DEF Unwind
  <2>. QED
    BY <1>2, <2>1, <2>2 DEF Unwind
<1>3. CASE DelFind(t)
  <2>1. pc' \in [Threads -> LinkPcs] /\ at' \in [Threads -> Slots] /\ StoreReady'
    BY <1>3 DEF DelFind
  <2>. QED
    BY <1>3, <2>1 DEF DelFind
<1>4. CASE DelIp(t)
  BY <1>4 DEF DelIp
<1>5. CASE DelRest(t)
  <2>1. notinformcnt' \in [Slots -> 0..(MaxNotInform + 1)]
    BY <1>5, ConstantsAssumption DEF DelRest
  <2>2. pc' \in [Threads -> LinkPcs] /\ StoreReady'
    BY <1>5 DEF DelRest
  <2>. QED
    BY <1>5, <2>1, <2>2 DEF DelRest
<1>. QED
  BY <1>1, <1>2, <1>3, <1>4, <1>5

\* NetServer.c:54-92.
LEMMA TimerTypes ==
    ASSUME Types, Timer
    PROVE  Types'
<1>. USE DEF tableVars, localVars, cancelVars, netVars, timerVars
<1>1. ti \in Slots
  BY DEF Types, TypeOK
<1>2. CASE TimerCheck
  <2>1. ti' \in Slots /\ tpc' \in {"check", "lock", "sleep"}
    BY <1>1, <1>2, NextSlotTypes DEF TimerCheck
  <2>. QED
    BY <1>2, <2>1 DEF TimerCheck, Types, TypeOK, StoreReady
<1>3. CASE TimerTick
  <2>1. ti' \in Slots /\ tpc' \in {"check", "lock", "sleep"}
    BY <1>1, <1>3, NextSlotTypes DEF TimerTick
  <2>2. notinformcnt' \in [Slots -> 0..(MaxNotInform + 1)]
    BY <1>1, <1>3, ConstantsAssumption DEF TimerTick, Types, TypeOK
  <2>3. cancelled' \in [Threads -> BOOLEAN]
    BY <1>3 DEF TimerTick, Types, TypeOK
  <2>4. fate' \in {"up", "segv", "sigpipe", "exited"}
    BY <1>3 DEF TimerTick, Types, TypeOK
  <2>. QED
    BY <1>3, <2>1, <2>2, <2>3, <2>4 DEF TimerTick, Types, TypeOK, StoreReady
<1>4. CASE TimerWake
  <2>1. ti' \in Slots /\ tpc' \in {"check", "lock", "sleep"}
    BY <1>4, ConstantsAssumption DEF TimerWake, Slots
  <2>. QED
    BY <1>4, <2>1 DEF TimerWake, Types, TypeOK, StoreReady
<1>. QED
  BY <1>2, <1>3, <1>4 DEF Timer

\* NetServer.c:244-286, and the clients.
LEMMA OutsideTypes ==
    ASSUME Types, Server \/ (\E t \in Threads : Peer(t)) \/ UNCHANGED vars
    PROVE  Types'
<1>a. ASSUME NEW t \in Threads, PeerSend(t) PROVE sent' \in [Threads -> 0..MaxSend]
  <2>1. sent \in [Threads -> 0..MaxSend] /\ MaxSend \in Nat
    BY ConstantsAssumption DEF Types, TypeOK
  <2>2. sent[t] < MaxSend /\ sent' = [sent EXCEPT ![t] = sent[t] + 1]
    BY <1>a DEF PeerSend
  <2>3. sent[t] + 1 \in 0..MaxSend
    BY <2>1, <2>2
  <2>. QED
    BY <2>1, <2>2, <2>3
<1>. USE DEF Types, TypeOK, StoreReady,
             tableVars, localVars, cancelVars, netVars, timerVars
<1>1. ASSUME NEW t \in Threads, NEW f \in Fds, NEW ip \in Ips, Accept(t, f, ip)
      PROVE  Types'
  <2>1. pc' \in [Threads -> LinkPcs] /\ StoreReady'
    BY <1>1 DEF Accept, Goto, LinkPcs, CheckingIn
  <2>2. link_fd' \in [Threads -> Fds \cup {NoFd}] /\ peer_ip' \in [Threads -> Ips \cup {NoIp}]
    BY <1>1 DEF Accept
  <2>3. fd_owner' \in [Fds -> Threads \cup {NoTid}] /\ peer_open' \in [Threads -> BOOLEAN]
    BY <1>1 DEF Accept
  <2>. QED
    BY <1>1, <2>1, <2>2, <2>3 DEF Accept
<1>2. CASE AcceptFails
  BY <1>2 DEF AcceptFails
<1>3. ASSUME NEW t \in Threads, PeerSend(t) PROVE Types'
  BY <1>3, <1>a DEF PeerSend
<1>4. ASSUME NEW t \in Threads, PeerClose(t) PROVE Types'
  BY <1>4 DEF PeerClose
<1>5. CASE UNCHANGED vars
  BY <1>5 DEF vars
<1>. QED
  BY <1>1, <1>2, <1>3, <1>4, <1>5 DEF Server, Peer

\* Every step of the link server keeps the types, whatever stands in the table.
LEMMA NextTypes ==
    ASSUME Types, [Next]_vars
    PROVE  Types'
<1>1. ASSUME NEW t \in Threads, Link(t) PROVE Types'
  BY <1>1, CheckInTypes, ReceiveTypes, HandleTypes, CleanupTypes
     DEF Link, LinkOwnStep, LinkWaitingStep
<1>. QED
  BY <1>1, TimerTypes, OutsideTypes DEF Next

-----------------------------------------------------------------------------
(* What a step of the server does to a link the table names *)

\* A step of one thread moves no other.
LEMMA OthersStay ==
    ASSUME TypeOK, NEW t \in Threads, Link(t) \/ Peer(t), NEW u \in Threads \ {t}
    PROVE  pc'[u] = pc[u] /\ pos'[u] = pos[u]
<1>1. pc \in [Threads -> LinkPcs] /\ pos \in [Threads -> Slots \cup {NoSlot}]
  BY DEF TypeOK
<1>2. CASE LinkOwnStep(t)
  BY <1>1, <1>2 DEF LinkOwnStep, ScanSlot, EnterFd, EnterRest, Refuse, Lookup,
     Store, DispatchHandShake, DispatchOther, HandShakeReset, Unwind,
     CancelledInCleanup, DelFind, DelIp, DelRest, Close, EndThread, Goto, localVars
<1>3. CASE LinkWaitingStep(t) \/ Peer(t)
  BY <1>1, <1>3 DEF LinkWaitingStep, Recv, RecvEnd, WorkDone, Reply, ReplyBroken,
     Peer, PeerSend, PeerClose, Goto, localVars
<1>. QED
  BY <1>2, <1>3 DEF Link

\* The timer, the clients and the accepting thread move no link that is there.
LEMMA OutsideStays ==
    ASSUME TypeOK, NEW u \in Threads, pc[u] # "none",
           Server \/ Timer \/ UNCHANGED vars
    PROVE  pc'[u] = pc[u] /\ pos'[u] = pos[u]
  BY DEF TypeOK, Server, Accept, AcceptFails, Timer, TimerCheck, TimerTick,
     TimerWake, Goto, vars, localVars

\* LinkCtrl.c:43-63, CtrlLinkTbl.c:88-133: a link that holds a slot keeps it
\* until DelFromLinkTbl has cleared it or the link is over.
LEMMA HolderMoves ==
    ASSUME IndInv, SerialInv, NEW t \in Threads, pc[t] \in Holding, Link(t)
    PROVE  (pc'[t] \in Holding /\ pos'[t] = pos[t]) \/ Ended(t)'
<1>1. pc \in [Threads -> LinkPcs] /\ pos \in [Threads -> Slots \cup {NoSlot}]
  BY DEF IndInv, TypeOK
<1>2. CASE LinkOwnStep(t)
  BY <1>1, <1>2 DEF LinkOwnStep, ScanSlot, EnterFd, EnterRest, Refuse, Lookup,
     Store, DispatchHandShake, DispatchOther, HandShakeReset, Unwind,
     CancelledInCleanup, DelFind, DelIp, DelRest, Close, EndThread, Goto, localVars,
     Holding, Serving, Ended
<1>3. CASE LinkWaitingStep(t)
  BY <1>1, <1>3 DEF LinkWaitingStep, Recv, RecvEnd, WorkDone, Reply, ReplyBroken,
     Goto, localVars, Holding, Serving, Ended
<1>. QED
  BY <1>2, <1>3 DEF Link

\* LinkCtrl.c:55-63: what has left the table does not come back.
LEMMA EndedStays ==
    ASSUME TypeOK, NEW t \in Threads, Ended(t), [Next]_vars
    PROVE  Ended(t)'
<1>1. pc \in [Threads -> LinkPcs] /\ pc[t] # "none"
  BY DEF TypeOK, Ended
<1>2. CASE LinkOwnStep(t)
  BY <1>1, <1>2 DEF LinkOwnStep, ScanSlot, EnterFd, EnterRest, Refuse, Lookup,
     Store, DispatchHandShake, DispatchOther, HandShakeReset, Unwind, AtCancellationPoint,
     CancelledInCleanup, DelFind, DelIp, DelRest, Close, EndThread, Goto, Ended
<1>3. CASE LinkWaitingStep(t) \/ Peer(t)
  BY <1>1, <1>3 DEF LinkWaitingStep, Recv, RecvEnd, WorkDone, Reply, ReplyBroken,
     Peer, PeerSend, PeerClose, Goto, Ended
<1>4. ASSUME NEW u \in Threads \ {t}, Link(u) \/ Peer(u) PROVE Ended(t)'
  BY <1>4, OthersStay DEF Ended
<1>5. CASE Server \/ Timer \/ UNCHANGED vars
  BY <1>1, <1>5, OutsideStays DEF Ended
<1>. QED
  BY <1>2, <1>3, <1>4, <1>5 DEF Next, Link

\* A slot names a thread that holds it: it is written by the thread that has
\* just taken the slot and cleared by the one that has it locked.
LEMMA NextNames ==
    ASSUME IndInv, SerialInv, NamesInv, [Next]_vars
    PROVE  NamesInv'
<1>1. /\ TypeOK /\ ctrl_tid \in [Slots -> Threads \cup {NoTid}]
      /\ pc \in [Threads -> LinkPcs] /\ pos \in [Threads -> Slots \cup {NoSlot}]
  BY DEF IndInv, TypeOK
<1>2. ASSUME NEW s \in Slots, ctrl_tid[s] # NoTid
      PROVE  /\ ctrl_tid[s] \in Threads
             /\ pc[ctrl_tid[s]] \in Holding \cup {"dead"}
             /\ pc[ctrl_tid[s]] # "dead" => pos[ctrl_tid[s]] = s
             /\ pc[ctrl_tid[s]] # "none"
  BY <1>1, <1>2 DEF NamesInv, Holding, Serving
<1>3. ASSUME UNCHANGED ctrl_tid,
             \A s \in Slots : ctrl_tid[s] # NoTid =>
                 /\ pc'[ctrl_tid[s]] \in Holding \cup {"dead"}
                 /\ pc'[ctrl_tid[s]] # "dead" => pos'[ctrl_tid[s]] = s
      PROVE  NamesInv'
  BY <1>3 DEF NamesInv
<1>4. CASE Server \/ Timer \/ UNCHANGED vars
  <2>1. UNCHANGED ctrl_tid
    BY <1>4 DEF Server, Accept, AcceptFails, Timer, TimerCheck, TimerTick,
       TimerWake, vars, tableVars
  <2>. QED
    BY <1>1, <1>2, <1>3, <1>4, <2>1, OutsideStays
<1>5. ASSUME NEW t \in Threads, Link(t) \/ Peer(t) PROVE NamesInv'
  <2>1. \A u \in Threads \ {t} : pc'[u] = pc[u] /\ pos'[u] = pos[u]
    BY <1>1, <1>5, OthersStay
  <2>2. CASE EnterRest(t)
    <3>1. pos[t] \in Slots /\ pc[t] = "entered"
      BY <2>2, SerialContext DEF EnterRest, Registered
    <3>2. /\ ctrl_tid'[pos[t]] = t /\ pc'[t] = "lookup" /\ pos'[t] = pos[t]
          /\ \A s \in Slots : s # pos[t] => ctrl_tid'[s] = ctrl_tid[s]
      BY <1>1, <2>2, <3>1 DEF EnterRest, Goto, localVars
    <3>3. \A s \in Slots : ctrl_tid[s] # t
      <4>1. "entered" \notin Holding \cup {"dead"}
        BY DEF Holding, Serving
      <4>. QED
        BY <1>2, <3>1, <4>1, Sentinels
    <3>4. "lookup" \in Holding
      BY DEF Holding, Serving
    <3>. QED
      BY <1>2, <2>1, <3>2, <3>3, <3>4 DEF NamesInv
  <2>3. CASE DelRest(t)
    <3>1. pos[t] \in Slots /\ at[t] = pos[t] /\ pc[t] = "delrest"
      BY <2>3, SerialContext DEF DelRest, IndInv, ThreadsInv, Registered
    <3>2. /\ ctrl_tid'[pos[t]] = NoTid
          /\ \A s \in Slots : s # pos[t] => ctrl_tid'[s] = ctrl_tid[s]
      BY <1>1, <2>3, <3>1 DEF DelRest
    <3>. QED
      BY <1>2, <2>1, <3>1, <3>2 DEF NamesInv
  <2>4. CASE ~EnterRest(t) /\ ~DelRest(t)
    <3>1. UNCHANGED ctrl_tid
      <4>1. CASE LinkOwnStep(t)
        BY <2>4, <4>1 DEF LinkOwnStep, ScanSlot, EnterFd, Refuse, Lookup, Store,
           DispatchHandShake, DispatchOther, HandShakeReset, Unwind,
           CancelledInCleanup, DelFind, DelIp, Close, tableVars
      <4>2. CASE LinkWaitingStep(t) \/ Peer(t)
        BY <4>2 DEF LinkWaitingStep, Recv, RecvEnd, WorkDone, Reply, ReplyBroken,
           Peer, PeerSend, PeerClose, tableVars
      <4>. QED
        BY <1>5, <4>1, <4>2 DEF Link
    <3>2. /\ pc[t] = "dead" => pc'[t] = "dead"
          /\ pc[t] \in Holding =>
                 \/ pc'[t] \in Holding /\ pos'[t] = pos[t]
                 \/ pc'[t] = "dead"
      <4>1. pc[t] \in Holding =>
                /\ socket_fd[pos[t]] = link_fd[t] /\ pos[t] \in Slots
        BY SerialContext DEF SerialInv, HoldingInv, Holding, Registered, Serving
      <4>2. CASE LinkOwnStep(t)
        BY <1>1, <2>4, <4>1, <4>2 DEF LinkOwnStep, ScanSlot, EnterFd, Refuse, Lookup,
           Store, DispatchHandShake, DispatchOther, HandShakeReset, Unwind,
           AtCancellationPoint, CancelledInCleanup, DelFind, DelIp, Close,
           EndThread, Goto, localVars, NotInTable, Holding, Serving
      <4>3. CASE LinkWaitingStep(t) \/ Peer(t)
        BY <1>1, <4>3 DEF LinkWaitingStep, Recv, RecvEnd, WorkDone, Reply,
           ReplyBroken, Peer, PeerSend, PeerClose, Goto, localVars, Holding, Serving
      <4>. QED
        BY <1>5, <4>2, <4>3 DEF Link
    <3>3. ASSUME NEW s \in Slots, ctrl_tid[s] # NoTid
          PROVE  /\ pc'[ctrl_tid[s]] \in Holding \cup {"dead"}
                 /\ pc'[ctrl_tid[s]] # "dead" => pos'[ctrl_tid[s]] = s
      <4>1. "dead" \notin Holding
        BY DEF Holding, Serving
      <4>2. CASE ctrl_tid[s] = t
        <5>1. pc[t] \in Holding \cup {"dead"} /\ (pc[t] # "dead" => pos[t] = s)
          BY <1>2, <3>3, <4>2
        <5>. QED
          BY <3>2, <4>1, <4>2, <5>1
      <4>3. CASE ctrl_tid[s] # t
        BY <1>2, <2>1, <3>3, <4>3
      <4>. QED
        BY <4>2, <4>3
    <3>. QED
      BY <1>3, <3>1, <3>3
  <2>. QED
    BY <2>2, <2>3, <2>4
<1>. QED
  BY <1>4, <1>5 DEF Next

\* A link that holds a slot when a step begins holds it after, or has ended.
LEMMA HolderKeepsOrEnds ==
    ASSUME IndInv, SerialInv, NEW u \in Threads, pc[u] \in Holding, [Next]_vars
    PROVE  (pc'[u] \in Holding /\ pos'[u] = pos[u]) \/ Ended(u)'
<1>1. TypeOK /\ pc[u] # "none"
  BY DEF IndInv, Holding, Serving
<1>2. CASE Link(u)
  BY <1>2, HolderMoves
<1>3. CASE Peer(u)
  BY <1>3 DEF Peer, PeerSend, PeerClose, localVars
<1>4. ASSUME NEW t \in Threads \ {u}, Link(t) \/ Peer(t)
      PROVE  pc'[u] = pc[u] /\ pos'[u] = pos[u]
  BY <1>1, <1>4, OthersStay
<1>5. CASE Server \/ Timer \/ UNCHANGED vars
  BY <1>1, <1>5, OutsideStays
<1>. QED
  BY <1>2, <1>3, <1>4, <1>5 DEF Next

-----------------------------------------------------------------------------
(* StopNetServer on top of the server *)

HandlerVars == <<hpc, hi, htid, helpers, stop_join_thread, named>>

\* A step is one of the server's, which leaves the handler where it is, or one
\* of the handler, of the timer at its end, or of Join_Thread.
LEMMA StopSteps ==
    ASSUME [StopNext]_allVars
    PROVE  \/ [Next]_vars /\ UNCHANGED HandlerVars /\ (fate = "up" \/ UNCHANGED vars)
           \/ fate = "up" /\ (catch_term_sig \/ Handler \/ TimerEnds \/ JoinThreadEnds)
<1>. USE DEF stopVars, HandlerVars
<1>1. CASE StopNext
  <2>1. CASE \E t \in Threads : (Link(t) \/ Peer(t)) /\ UNCHANGED stopVars
    BY <2>1 DEF Next, Link, LinkOwnStep, LinkWaitingStep, Peer
  <2>2. CASE (Server \/ Timer) /\ UNCHANGED stopVars
    BY <2>2 DEF Next, Server, Timer
  <2>3. CASE Handler \/ TimerEnds \/ JoinThreadEnds
    BY <2>3 DEF Handler, TimerEnds, JoinThreadEnds
  <2>. QED
    BY <1>1, <2>1, <2>2, <2>3 DEF StopNext, TimerGoesOn
<1>2. CASE UNCHANGED allVars
  BY <1>2 DEF allVars, stopVars, HandlerVars
<1>. QED
  BY <1>1, <1>2

\* NetServer.c:309: the slot looked at stays one of the table's.
LEMMA NextOrTypes ==
    ASSUME NEW there, NEW again, hi \in Slots, NextOr(there, again)
    PROVE  hi' \in Slots /\ hpc' \in {there, again}
  BY ConstantsAssumption DEF NextOr, Slots

\* CtrlLinkTbl.c:36-49: a slot cleared is a slot as InitCtrlLinkTbl leaves it.
LEMMA DeinitTypes ==
    ASSUME Types, hi \in Slots, Deinit
    PROVE  Types'
<1>1. /\ UNCHANGED <<pc, link_fd, peer_ip, pos, at, bufleft, done, cancelled,
                     unwinding, fd_owner, peer_open, sent, taken, tpc, ti, fate>>
      /\ socket_fd' = [socket_fd EXCEPT ![hi] = NoFd]
      /\ ipaddr' = [ipaddr EXCEPT ![hi] = NoIp]
      /\ ctrl_tid' = [ctrl_tid EXCEPT ![hi] = NoTid]
      /\ notinformcnt' = [notinformcnt EXCEPT ![hi] = 0]
      /\ unhandled_buf' = [unhandled_buf EXCEPT ![hi] = << >>]
      /\ mutex' = [mutex EXCEPT ![hi] = NoTid]
  BY DEF Deinit, localVars, cancelVars, netVars, timerVars
<1>2. 0 \in 0..(MaxNotInform + 1) /\ << >> \in Seq(Frames)
  BY ConstantsAssumption
<1>3. socket_fd' \in [Slots -> Fds \cup {NoFd}] /\ ipaddr' \in [Slots -> Ips \cup {NoIp}]
  BY <1>1 DEF Types, TypeOK
<1>4. ctrl_tid' \in [Slots -> Threads \cup {NoTid}] /\ mutex' \in [Slots -> Threads \cup {NoTid}]
  BY <1>1 DEF Types, TypeOK
<1>5. notinformcnt' \in [Slots -> 0..(MaxNotInform + 1)]
  BY <1>1, <1>2 DEF Types, TypeOK
<1>6. unhandled_buf' \in [Slots -> Seq(Frames)]
  BY <1>1, <1>2 DEF Types, TypeOK
<1>. QED
  BY <1>1, <1>3, <1>4, <1>5, <1>6 DEF Types, TypeOK, StoreReady

\* Main.c:30-34, NetServer.c:303-358: the types of the server and of the handler.
LEMMA StopTypes ==
    ASSUME StopTypeOK, StoreReady, [StopNext]_allVars
    PROVE  StopTypeOK' /\ StoreReady'
<1>. USE DEF Handling, Loop, Ending
<1>1. Types /\ TypeOK
  BY DEF StopTypeOK, Types
<1>2. CASE [Next]_vars /\ UNCHANGED HandlerVars
  BY <1>1, <1>2, NextTypes DEF Types, StopTypeOK, HandlerVars
<1>3. /\ hi \in Slots /\ htid \in Threads \cup {NoTid}
      /\ ctrl_tid \in [Slots -> Threads \cup {NoTid}]
  BY DEF StopTypeOK, TypeOK
<1>4. UNCHANGED vars => Types'
  BY <1>1, NextTypes
<1>5. CASE catch_term_sig
  <2>1. {ctrl_tid[s] : s \in Slots} \ {NoTid} \subseteq Threads
    BY <1>3
  <2>. QED
    BY <1>4, <1>5, <2>1 DEF catch_term_sig, StopTypeOK, Types
<1>6. CASE TestTid
  BY <1>3, <1>4, <1>6, NextOrTypes DEF TestTid, StopTypeOK, Types
<1>7. CASE CancelTid
  <2>1. /\ UNCHANGED <<socket_fd, ipaddr, ctrl_tid, notinformcnt, unhandled_buf,
                       mutex, pc, link_fd, peer_ip, pos, at, bufleft, done, unwinding,
                       fd_owner, peer_open, sent, taken, tpc, ti>>
        /\ \/ cancelled' = [cancelled EXCEPT ![ctrl_tid[hi]] = pc[ctrl_tid[hi]] # "dead"]
           \/ UNCHANGED cancelled
        /\ fate' \in {fate, "segv"}
    BY <1>7 DEF CancelTid, tableVars, localVars, netVars, timerVars
  <2>2. cancelled' \in [Threads -> BOOLEAN]
    BY <1>1, <2>1 DEF TypeOK
  <2>3. Types'
    BY <1>1, <2>1, <2>2 DEF Types, TypeOK, StoreReady
  <2>. QED
    BY <1>7, <2>3 DEF CancelTid, StopTypeOK, Types
<1>8. CASE JoinTid
  <2>1. UNCHANGED <<socket_fd, ipaddr, ctrl_tid, notinformcnt, unhandled_buf,
                    mutex, pc, link_fd, peer_ip, pos, at, bufleft, done, cancelled,
                    unwinding, fd_owner, peer_open, sent, taken, tpc, ti>>
        /\ fate' \in {fate, "segv"}
    BY <1>8 DEF JoinTid, tableVars, localVars, cancelVars, netVars, timerVars
  <2>2. Types'
    BY <1>1, <2>1 DEF Types, TypeOK, StoreReady
  <2>. QED
    BY <1>3, <1>8, <2>2 DEF JoinTid, StopTypeOK, Types
<1>9. CASE Joined
  BY <1>3, <1>4, <1>9, NextOrTypes DEF Joined, StopTypeOK, Types
<1>10. CASE CancelTimer \/ JoinTimer \/ JoinJoinThread \/ TimerEnds \/ JoinThreadEnds
  BY <1>4, <1>10 DEF CancelTimer, JoinTimer, JoinJoinThread, TimerEnds,
     JoinThreadEnds, StopTypeOK, Types
<1>11. CASE Deinit
  <2>1. Types'
    BY <1>1, <1>3, <1>11, DeinitTypes
  <2>2. hi' \in Slots /\ hpc' \in {"over", "deinit"}
    BY <1>3, <1>11, NextOrTypes DEF Deinit
  <2>. QED
    BY <1>11, <2>1, <2>2 DEF Deinit, StopTypeOK, Types
<1>. QED
  BY <1>2, <1>5, <1>6, <1>7, <1>8, <1>9, <1>10, <1>11, StopSteps DEF Handler

\* The server as StartNetServer leaves it, and no signal yet.
LEMMA InitStopTypes == StopInit => StopTypeOK /\ StoreReady
<1>. SUFFICES ASSUME StopInit PROVE StopTypeOK /\ StoreReady
  OBVIOUS
<1>1. TypeOK
  BY InitIndInv DEF StopInit, IndInv
<1>2. 1 \in Slots
  BY ConstantsAssumption DEF Slots
<1>3. StoreReady
  BY DEF StopInit, Init, StoreReady
<1>. QED
  BY <1>1, <1>2, <1>3 DEF StopInit, StopTypeOK

\* The types of server and handler are kept, although DeinitCtrlLinkTbl
\* (CtrlLinkTbl.c:36-49) clears slots and mutexes under threads at work and the
\* accepting thread goes on after it.
THEOREM StopTypesHold == StopSpec => []StopTypeOK
<1>1. StopTypeOK /\ StoreReady /\ [StopNext]_allVars => (StopTypeOK /\ StoreReady)'
  BY StopTypes
<1>. QED
  BY <1>1, InitStopTypes, PTL DEF StopSpec

-----------------------------------------------------------------------------
(* The loop over the slots *)

\* With SerialArrivals, the server's own steps keep the links the table named
\* ahead of the loop or let them end.
LEMMA ServerKeepsAhead ==
    ASSUME SerialArrivals, StopInv, [Next]_vars, UNCHANGED HandlerVars,
           fate = "up" \/ UNCHANGED vars
    PROVE  LoopInv' /\ NamedLinksEnd'
<1>1. TypeOK /\ named \subseteq Threads
  BY DEF StopInv, StopTypeOK
<1>2. \A t \in Threads : Ended(t) => Ended(t)'
  BY <1>1, EndedStays
<1>3. NamedLinksEnd'
  BY <1>1, <1>2 DEF StopInv, NamedLinksEnd, HandlerVars, Ended
<1>4. LoopInv'
  <2>. SUFFICES ASSUME fate' = "up", hpc' \in {"off"} \cup Loop
                PROVE  /\ IndInv' /\ SerialInv' /\ NamesInv'
                       /\ hpc' = "off" => hi' = 1
                       /\ hpc' \in Loop => \A t \in named' : Ended(t)' \/ Ahead(t)'
    BY DEF LoopInv
  <2>1. /\ IndInv /\ SerialInv /\ NamesInv
        /\ hpc = "off" => hi = 1
        /\ hpc \in Loop => \A t \in named : Ended(t) \/ Ahead(t)
    BY DEF StopInv, LoopInv, HandlerVars, vars
  <2>2. IndInv' /\ SerialInv' /\ NamesInv'
    BY <2>1, NextIndInv, NextSerial, NextNames
  <2>3. ASSUME NEW t \in named, Ahead(t) PROVE Ended(t)' \/ Ahead(t)'
    BY <1>1, <2>1, <2>3, HolderKeepsOrEnds DEF Ahead, HandlerVars
  <2>. QED
    BY <1>1, <1>2, <2>1, <2>2, <2>3 DEF HandlerVars
<1>. QED
  BY <1>3, <1>4

\* The steps of the handler that leave the server alone.
LEMMA TableStands ==
    ASSUME LoopInv, fate = "up", hpc \in {"off"} \cup Loop, UNCHANGED vars
    PROVE  /\ IndInv' /\ SerialInv' /\ NamesInv'
           /\ \A t \in Threads : Ended(t)' = Ended(t)
<1>1. IndInv /\ SerialInv /\ NamesInv /\ [Next]_vars
  BY DEF LoopInv
<1>2. IndInv'
  BY <1>1, NextIndInv
<1>3. UNCHANGED <<socket_fd, ipaddr, ctrl_tid, mutex, pc, link_fd, peer_ip, pos, at>>
  BY DEF vars, tableVars, localVars
<1>. QED
  BY <1>1, <1>2, <1>3, QuietSerial DEF NamesInv, Ended

\* Main.c:30-34: the links the table names when the signal comes hold slots
\* that all lie ahead, or have ended.
LEMMA SignalStarts ==
    ASSUME StopInv, fate = "up", catch_term_sig
    PROVE  LoopInv' /\ NamedLinksEnd'
<1>1. hpc = "off" /\ hpc' = "test" /\ hi' = hi /\ UNCHANGED vars
      /\ named' = {ctrl_tid[s] : s \in Slots} \ {NoTid}
  BY DEF catch_term_sig
<1>2. IndInv' /\ SerialInv' /\ NamesInv' /\ NamesInv /\ hi = 1
  BY <1>1, TableStands DEF StopInv, LoopInv
<1>3. ASSUME NEW t \in named' PROVE Ended(t)' \/ Ahead(t)'
  <2>1. PICK s \in Slots : ctrl_tid[s] = t /\ t # NoTid
    BY <1>1
  <2>2. pc[t] = "dead" \/ (pc[t] \in Holding /\ pos[t] = s)
    BY <1>2, <2>1 DEF NamesInv
  <2>3. pc'[t] = pc[t] /\ pos'[t] = pos[t] /\ hi' = 1 /\ hpc' # "wait" /\ s >= 1
    BY <1>1, <1>2 DEF Slots, vars, localVars
  <2>. QED
    BY <2>2, <2>3 DEF Ended, Ahead
<1>. QED
  BY <1>1, <1>2, <1>3 DEF LoopInv, NamedLinksEnd, Loop, Ending

\* NetServer.c:309-319: the loop leaves a slot when it names no thread, or when
\* the thread it waited for is dead; the link that held the slot, if there is
\* one, is that thread.
LEMMA LoopAdvances ==
    ASSUME StopInv, fate = "up", hpc \in {"test", "wait"}, UNCHANGED <<vars, named>>,
           NextOr("timer", "test"),
           \A t \in named : Ended(t) \/ (pc[t] \in Holding /\ pos[t] > hi)
    PROVE  LoopInv' /\ NamedLinksEnd'
<1>1. IndInv' /\ SerialInv' /\ NamesInv' /\ IndInv
  BY TableStands DEF StopInv, LoopInv, Loop
<1>2. named \subseteq Threads /\ hi \in Slots
  BY DEF StopInv, StopTypeOK
<1>3. \A t \in Threads : pc[t] \in Holding => pos[t] \in Slots
  BY <1>1, SerialContext DEF Holding, Registered, Serving
<1>4. CASE hi < MaxConnNum
  <2>1. hi' = hi + 1 /\ hpc' = "test"
    BY <1>2, <1>4, ConstantsAssumption DEF NextOr, Slots
  <2>2. ASSUME NEW t \in named PROVE Ended(t)' \/ Ahead(t)'
    BY <1>2, <1>3, <2>1 DEF Ended, Ahead, vars, localVars, Slots
  <2>. QED
    BY <1>1, <2>1, <2>2 DEF LoopInv, NamedLinksEnd, Loop, Ending
<1>5. CASE ~(hi < MaxConnNum)
  <2>1. hi = MaxConnNum /\ hpc' = "timer"
    BY <1>2, <1>5, ConstantsAssumption DEF NextOr, Slots
  <2>2. \A t \in named : Ended(t)
    BY <1>2, <1>3, <2>1, ConstantsAssumption DEF Slots
  <2>. QED
    BY <2>1, <2>2 DEF LoopInv, NamedLinksEnd, Loop, Ending, Ended, vars
<1>. QED
  BY <1>4, <1>5

\* The handler's loop.
LEMMA LoopSteps ==
    ASSUME StopInv, fate = "up", TestTid \/ CancelTid \/ JoinTid \/ Joined
    PROVE  LoopInv' /\ NamedLinksEnd'
<1>. USE Sentinels
<1>1. hpc \in Loop /\ hpc \notin Ending \cup {"over", "off"} /\ named' = named
  BY DEF TestTid, CancelTid, JoinTid, Joined, Loop, Ending
<1>2. /\ IndInv /\ SerialInv /\ NamesInv
      /\ \A t \in named : Ended(t) \/ Ahead(t)
  BY <1>1 DEF StopInv, LoopInv
<1>3. named \subseteq Threads /\ hi \in Slots /\ htid \in Threads \cup {NoTid}
      /\ ctrl_tid \in [Slots -> Threads \cup {NoTid}]
  BY DEF StopInv, StopTypeOK, TypeOK
<1>4. \A t \in named : Ahead(t) =>
          pos[t] \in Slots /\ ctrl_tid[pos[t]] = t /\ pos[t] >= hi /\ pc[t] \in Holding
  BY <1>2, <1>3, SerialContext DEF Ahead, SerialInv, HoldingInv, Holding, Registered, Serving
<1>5. CASE TestTid
  <2>1. UNCHANGED <<vars, named>> /\ hpc = "test"
    BY <1>5 DEF TestTid
  <2>2. CASE ctrl_tid[hi] = NoTid
    <3>1. NextOr("timer", "test")
      BY <1>5, <2>2 DEF TestTid
    <3>2. \A t \in named : Ended(t) \/ (pc[t] \in Holding /\ pos[t] > hi)
      BY <1>2, <1>3, <1>4, <2>2 DEF Slots
    <3>. QED
      BY <2>1, <3>1, <3>2, LoopAdvances
  <2>3. CASE ctrl_tid[hi] # NoTid
    <3>1. hpc' = "cancel" /\ hi' = hi
      BY <1>5, <2>3 DEF TestTid
    <3>2. IndInv' /\ SerialInv' /\ NamesInv'
      BY <1>1, <2>1, TableStands DEF StopInv
    <3>3. \A t \in named : Ended(t)' \/ Ahead(t)'
      BY <1>2, <2>1, <3>1 DEF Ended, Ahead, vars, localVars
    <3>. QED
      BY <1>1, <3>1, <3>2, <3>3 DEF LoopInv, NamedLinksEnd, Loop, Ending
  <2>. QED
    BY <2>2, <2>3
<1>6. CASE CancelTid
  <2>1. /\ hpc = "cancel" /\ hi' = hi
        /\ UNCHANGED <<socket_fd, ipaddr, ctrl_tid, notinformcnt, unhandled_buf,
                       mutex, pc, link_fd, peer_ip, pos, at, bufleft, done, unwinding,
                       fd_owner, peer_open, sent, taken, tpc, ti>>
        /\ \/ hpc' = "join" /\ fate' = fate
              /\ cancelled' = [cancelled EXCEPT ![ctrl_tid[hi]] = pc[ctrl_tid[hi]] # "dead"]
           \/ hpc' = hpc /\ fate' = "segv"
    BY <1>6 DEF CancelTid, tableVars, localVars, netVars, timerVars
  <2>2. CASE hpc' = "join"
    <3>1. TypeOK'
      BY <1>2, <2>1, <2>2 DEF IndInv, TypeOK
    <3>2. IndInv'
      <4>1. ThreadsInv' /\ OwnersInv' /\ TableSound'
        BY <1>2, <2>1, QuietStep
      <4>. QED
        BY <1>2, <2>1, <2>2, <3>1, <4>1 DEF IndInv, FreeSlotsInv, NoWildCancel
    <3>3. SerialInv' /\ NamesInv'
      BY <1>2, <2>1, QuietSerial DEF NamesInv
    <3>4. \A t \in named : Ended(t)' \/ Ahead(t)'
      BY <1>2, <2>1, <2>2 DEF Ended, Ahead
    <3>. QED
      BY <1>1, <2>2, <3>2, <3>3, <3>4 DEF LoopInv, NamedLinksEnd, Loop, Ending
  <2>3. CASE hpc' # "join"
    BY <1>1, <2>1, <2>3 DEF LoopInv, NamedLinksEnd
  <2>. QED
    BY <2>2, <2>3
<1>7. CASE JoinTid
  <2>1. CASE ctrl_tid[hi] # NoTid
    <3>1. hpc' = "wait" /\ htid' = ctrl_tid[hi] /\ hi' = hi /\ UNCHANGED vars
      BY <1>7, <2>1 DEF JoinTid, vars
    <3>2. IndInv' /\ SerialInv' /\ NamesInv'
      BY <1>1, <3>1, TableStands DEF StopInv
    <3>3. \A t \in named : Ended(t)' \/ Ahead(t)'
      BY <1>2, <1>4, <3>1 DEF Ended, Ahead, vars, localVars
    <3>. QED
      BY <1>1, <3>1, <3>2, <3>3 DEF LoopInv, NamedLinksEnd, Loop, Ending
  <2>2. CASE ctrl_tid[hi] = NoTid
    BY <1>1, <1>7, <2>2 DEF JoinTid, LoopInv, NamedLinksEnd
  <2>. QED
    BY <2>1, <2>2
<1>8. CASE Joined
  <2>1. /\ UNCHANGED <<vars, named>> /\ NextOr("timer", "test")
        /\ hpc = "wait" /\ pc[htid] = "dead"
    BY <1>8 DEF Joined
  <2>2. \A t \in named : Ended(t) \/ (pc[t] \in Holding /\ pos[t] > hi)
    <3>1. "dead" \notin Holding
      BY DEF Holding, Serving
    <3>2. \A t \in named : Ahead(t) => pos[t] # hi
      BY <2>1, <3>1 DEF Ahead
    <3>. QED
      BY <1>2, <1>3, <1>4, <3>2 DEF Slots
  <2>. QED
    BY <2>1, <2>2, LoopAdvances
<1>. QED
  BY <1>5, <1>6, <1>7, <1>8

\* NetServer.c:331-349, CtrlLinkTbl.c:36-49: what follows the loop wakes no
\* link; the helper threads' ends touch nothing of the server.
LEMMA EndingSteps ==
    ASSUME StopInv, fate = "up",
           \/ CancelTimer \/ JoinTimer \/ JoinJoinThread \/ Deinit
           \/ TimerEnds \/ JoinThreadEnds
    PROVE  LoopInv' /\ NamedLinksEnd'
<1>1. named' = named /\ pc' = pc
  BY DEF CancelTimer, JoinTimer, JoinJoinThread, Deinit, TimerEnds, JoinThreadEnds, vars
<1>2. CASE CancelTimer \/ JoinTimer \/ JoinJoinThread \/ Deinit
  <2>1. hpc \in Ending /\ hpc' \notin {"off"} \cup Loop
    BY <1>2 DEF CancelTimer, JoinTimer, JoinJoinThread, Deinit, NextOr, Ending, Loop
  <2>. QED
    BY <1>1, <2>1 DEF StopInv, LoopInv, NamedLinksEnd
<1>3. CASE TimerEnds \/ JoinThreadEnds
  <2>1. UNCHANGED <<vars, hpc, hi, named>> /\ (htid' = htid)
    BY <1>3 DEF TimerEnds, JoinThreadEnds
  <2>2. NamedLinksEnd'
    BY <1>1, <2>1 DEF StopInv, NamedLinksEnd
  <2>3. LoopInv'
    <3>. SUFFICES ASSUME hpc \in {"off"} \cup Loop PROVE LoopInv'
      BY <2>1 DEF LoopInv
    <3>1. IndInv' /\ SerialInv' /\ NamesInv'
      BY <2>1, TableStands DEF StopInv
    <3>. QED
      BY <2>1, <3>1 DEF StopInv, LoopInv, Ended, Ahead, vars, localVars
  <2>. QED
    BY <2>2, <2>3
<1>. QED
  BY <1>2, <1>3

\* Inductive with SerialArrivals.
LEMMA StopInductive ==
    ASSUME SerialArrivals, StopInv, StoreReady, [StopNext]_allVars
    PROVE  StopInv' /\ StoreReady'
<1>1. StopTypeOK' /\ StoreReady'
  BY StopTypes DEF StopInv
<1>2. LoopInv' /\ NamedLinksEnd'
  BY StopSteps, ServerKeepsAhead, SignalStarts, LoopSteps, EndingSteps DEF Handler
<1>. QED
  BY <1>1, <1>2 DEF StopInv

LEMMA InitStopInv == StopInit => StopInv /\ StoreReady
<1>. SUFFICES ASSUME StopInit PROVE StopInv /\ StoreReady
  OBVIOUS
<1>1. StopTypeOK /\ StoreReady
  BY InitStopTypes
<1>2. IndInv /\ SerialInv /\ hpc = "off" /\ hi = 1
  BY InitIndInv, InitSerial DEF StopInit
<1>3. NamesInv
  BY DEF StopInit, Init, InitCtrlLinkTbl, NamesInv
<1>. QED
  BY <1>1, <1>2, <1>3 DEF StopInv, LoopInv, NamedLinksEnd, Loop, Ending

\* NetServer.c:309-319: when connections are spaced out, StopNetServer's loop is
\* over only when every link the table named at the signal has ended or has
\* left the table, for any number of slots and links and wherever they stand.
THEOREM StopReachesNamed ==
    ASSUME SerialArrivals PROVE StopSpec => []NamedLinksEnd
<1>1. StopInv /\ StoreReady /\ [StopNext]_allVars => (StopInv /\ StoreReady)'
  BY StopInductive
<1>2. StopInv => NamedLinksEnd
  BY DEF StopInv
<1>. QED
  BY <1>1, <1>2, InitStopInv, PTL DEF StopSpec
=============================================================================
