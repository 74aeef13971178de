----------------------------- MODULE LinkServer -----------------------------
(***************************************************************************)
(* The link server: the accepting thread, one link thread per connection,  *)
(* the heartbeat timer, and the table CtrlLinkTbl they share               *)
(* (NetServer.c, LinkCtrl.c, SysCheckInCmd.c, CtrlLinkTbl.c,               *)
(* RecvOneFrame.c, HandShakeCmd.c).                                        *)
(*                                                                         *)
(* A step is one access to shared state: a region under a slot's mutex     *)
(* that nobody else can observe half done is one action, a region whose    *)
(* fields are read without the mutex is cut where such a read can fall,    *)
(* and every unlocked read is an action of its own.                        *)
(*                                                                         *)
(* Threads and descriptors are numbers, 0 being the C code's "none".       *)
(* Frames are tagged with the connection they came from; RecvOneFrame is   *)
(* at the granularity of whole frames, its bytes are in FrameBuffer.       *)
(***************************************************************************)
EXTENDS Integers, Sequences

CONSTANTS
    MaxConnNum,      \* MAX_CONN_NUM, slots of CtrlLinkTbl
    MaxNotInform,    \* MAX_NOTINFORM_CNT
    MaxThreads,      \* bound: connections over the life of the server
    MaxFds,          \* descriptors the process may hold for connections
    MaxSend,         \* bound: frames a client sends
    Ips,             \* client addresses
    PrintfCancels,   \* stdout is such that printf is a cancellation point
    SerialArrivals   \* the environment spaces out connections

NoFd == 0
NoIp == 0
NoTid == 0
NoSlot == 0

Slots == 1..MaxConnNum
Fds == 1..MaxFds
Threads == 1..MaxThreads

ASSUME ConstantsAssumption ==
    /\ MaxConnNum \in Nat \ {0}
    /\ MaxNotInform \in Nat \ {0}
    /\ MaxThreads \in Nat \ {0}
    /\ MaxFds \in Nat \ {0}
    /\ MaxSend \in Nat
    /\ NoIp \notin Ips
    /\ PrintfCancels \in BOOLEAN
    /\ SerialArrivals \in BOOLEAN

VARIABLES
    \* CtrlLinkTbl, one function per field of CTRL_LINK_DESC
    socket_fd, ipaddr, ctrl_tid, notinformcnt, unhandled_buf, mutex,
    \* link threads: locals of Link_Ctrl, SysCheckInCmd, RecvOneFrame, and the
    \* last of its own frames the thread has begun to handle (history)
    pc, link_fd, peer_ip, pos, at, bufleft, done,
    \* cancellation state of a thread: pending, and being acted on
    cancelled, unwinding,
    \* the kernel's side of the connections
    fd_owner, peer_open, sent, taken,
    \* Timer_Thread
    tpc, ti,
    \* how the process is doing
    fate

tableVars == <<socket_fd, ipaddr, ctrl_tid, notinformcnt, unhandled_buf, mutex>>
localVars == <<link_fd, peer_ip, pos, at, bufleft, done>>
cancelVars == <<cancelled, unwinding>>
netVars == <<fd_owner, peer_open, sent, taken>>
timerVars == <<tpc, ti>>
vars == <<tableVars, pc, localVars, cancelVars, netVars, timerVars, fate>>

Frames == Threads \X (1..MaxSend)

CheckingIn == {"scan", "enter", "entered"}
Serving == {"lookup", "recv", "store", "dispatch", "reset", "work", "reply"}
Leaving == {"cleanup", "delip", "delrest", "close"}
LinkPcs == CheckingIn \cup Serving \cup Leaving \cup {"none", "refused", "dead"}

TypeOK ==
    /\ socket_fd \in [Slots -> Fds \cup {NoFd}]
    /\ ipaddr \in [Slots -> Ips \cup {NoIp}]
    /\ ctrl_tid \in [Slots -> Threads \cup {NoTid}]
    /\ notinformcnt \in [Slots -> 0..(MaxNotInform + 1)]
    /\ unhandled_buf \in [Slots -> Seq(Frames)]
    /\ mutex \in [Slots -> Threads \cup {NoTid}]
    /\ pc \in [Threads -> LinkPcs]
    /\ link_fd \in [Threads -> Fds \cup {NoFd}]
    /\ peer_ip \in [Threads -> Ips \cup {NoIp}]
    /\ pos \in [Threads -> Slots \cup {NoSlot}]
    /\ at \in [Threads -> Slots]
    /\ bufleft \in [Threads -> Seq(Frames)]
    /\ cancelled \in [Threads -> BOOLEAN]
    /\ unwinding \in [Threads -> BOOLEAN]
    /\ fd_owner \in [Fds -> Threads \cup {NoTid}]
    /\ peer_open \in [Threads -> BOOLEAN]
    /\ sent \in [Threads -> 0..MaxSend]
    /\ taken \in [Threads -> 0..MaxSend]
    /\ done \in [Threads -> 0..MaxSend]
    /\ tpc \in {"check", "lock", "sleep"}
    /\ ti \in Slots
    /\ fate \in {"up", "segv", "sigpipe", "exited"}

\* InitCtrlLinkTbl: the table is static storage, so unhandled_buf is empty too.
InitCtrlLinkTbl ==
    /\ socket_fd = [s \in Slots |-> NoFd]
    /\ ipaddr = [s \in Slots |-> NoIp]
    /\ ctrl_tid = [s \in Slots |-> NoTid]
    /\ notinformcnt = [s \in Slots |-> 0]
    /\ unhandled_buf = [s \in Slots |-> << >>]
    /\ mutex = [s \in Slots |-> NoTid]

Init ==
    /\ InitCtrlLinkTbl
    /\ pc = [t \in Threads |-> "none"]
    /\ link_fd = [t \in Threads |-> NoFd]
    /\ peer_ip = [t \in Threads |-> NoIp]
    /\ pos = [t \in Threads |-> NoSlot]
    /\ at = [t \in Threads |-> 1]
    /\ bufleft = [t \in Threads |-> << >>]
    /\ cancelled = [t \in Threads |-> FALSE]
    /\ unwinding = [t \in Threads |-> FALSE]
    /\ fd_owner = [f \in Fds |-> NoTid]
    /\ peer_open = [t \in Threads |-> FALSE]
    /\ sent = [t \in Threads |-> 0]
    /\ taken = [t \in Threads |-> 0]
    /\ done = [t \in Threads |-> 0]
    /\ tpc = "check"
    /\ ti = 1
    /\ fate = "up"

-----------------------------------------------------------------------------
(* Slips the properties are there to catch: each stands in for the definition
   of the same parameters below. *)

AnySlotInUse(s, f) == socket_fd[s] # NoFd
NoMutex(s) == TRUE
LeftOverLost(frames) == << >>
LastSlot(t, i) == i
RepeatedInFreeSlot(t, i) == socket_fd[i] = NoFd /\ ipaddr[i] = peer_ip[t]
NextSlotOverruns ==
    \/ ti <= MaxConnNum /\ ti' = ti + 1 /\ tpc' = "check"
    \/ ti > MaxConnNum /\ tpc' = "sleep" /\ UNCHANGED ti
NextSlotSkipsLast ==
    \/ ti + 1 < MaxConnNum /\ ti' = ti + 1 /\ tpc' = "check"
    \/ ti + 1 >= MaxConnNum /\ tpc' = "sleep" /\ UNCHANGED ti

-----------------------------------------------------------------------------
(* Helpers *)

Goto(t, there) == pc' = [pc EXCEPT ![t] = there]

\* The thread is over: its stack is gone, and nobody reads what the kernel
\* still holds for the connection.
EndThread(t) ==
    /\ Goto(t, "dead")
    /\ link_fd' = [link_fd EXCEPT ![t] = NoFd]
    /\ peer_ip' = [peer_ip EXCEPT ![t] = NoIp]
    /\ pos' = [pos EXCEPT ![t] = NoSlot]
    /\ at' = [at EXCEPT ![t] = 1]
    /\ bufleft' = [bufleft EXCEPT ![t] = << >>]
    /\ done' = [done EXCEPT ![t] = 0]
    /\ cancelled' = [cancelled EXCEPT ![t] = FALSE]
    /\ unwinding' = [unwinding EXCEPT ![t] = FALSE]
    /\ peer_open' = [peer_open EXCEPT ![t] = FALSE]
    /\ sent' = [sent EXCEPT ![t] = 0]
    /\ taken' = [taken EXCEPT ![t] = 0]

\* GetCtrlLink: the first slot that holds the descriptor.  The scan is one
\* step: only the thread that owns a descriptor ever stores it in the table.
HoldsFd(s, f) == socket_fd[s] = f /\ \A r \in 1..(s - 1) : socket_fd[r] # f

NotInTable(f) == \A s \in Slots : socket_fd[s] # f

Unlocked(s) == mutex[s] = NoTid

\* What RecvOneFrame keeps for later once it has copied a frame out.
LeftOver(frames) == Tail(frames)

\* A thread with a cancellation pending acts on it in these calls: recv, the
\* waitpid or send of a handler, and printf when stdout makes it one.
AtCancellationPoint(t) ==
    \/ pc[t] \in {"recv", "work", "reply"}
    \/ PrintfCancels /\ pc[t] = "dispatch"

-----------------------------------------------------------------------------
(* The accepting thread: Server_Thread *)

\* accept() returns the lowest free descriptor; pthread_create starts
\* Link_Ctrl, whose SysCheckInCmd asks for the peer's address.  getpeername is
\* unchecked: for a connection already reset the address is whatever the stack
\* held, so any address may come out.
Accept(t, f, ip) ==
    /\ pc[t] = "none" /\ \A u \in 1..(t - 1) : pc[u] # "none"
    /\ fd_owner[f] = NoTid /\ \A g \in 1..(f - 1) : fd_owner[g] # NoTid
    /\ SerialArrivals => \A u \in Threads : pc[u] \notin CheckingIn
    /\ Goto(t, "scan")
    /\ link_fd' = [link_fd EXCEPT ![t] = f]
    /\ peer_ip' = [peer_ip EXCEPT ![t] = ip]
    /\ fd_owner' = [fd_owner EXCEPT ![f] = t]
    /\ peer_open' = [peer_open EXCEPT ![t] = TRUE]
    /\ UNCHANGED <<tableVars, pos, at, bufleft, done, cancelVars, sent, taken,
                   timerVars, fate>>

\* accept() fails when no descriptor is free: Server_Thread leaves its loop,
\* runs Server_Thread_Cleanup and returns into main, which ends the process.
AcceptFails ==
    /\ \E t \in Threads : pc[t] = "none"
    /\ \A f \in Fds : fd_owner[f] # NoTid
    /\ fate' = "exited"
    /\ UNCHANGED <<tableVars, pc, localVars, cancelVars, netVars, timerVars>>

-----------------------------------------------------------------------------
(* SysCheckInCmd *)

Repeated(t, i) == socket_fd[i] # NoFd /\ ipaddr[i] = peer_ip[t]

FirstFree(t, i) ==
    IF socket_fd[i] = NoFd /\ pos[t] = NoSlot THEN i ELSE pos[t]

\* One iteration of the unlocked search for a repeated address and for the
\* first free slot; the last one decides.
ScanSlot(t) ==
    /\ pc[t] = "scan"
    /\ \/ /\ Repeated(t, at[t])
          /\ Goto(t, "refused")
          /\ UNCHANGED <<pos, at>>
       \/ /\ ~Repeated(t, at[t])
          /\ pos' = [pos EXCEPT ![t] = FirstFree(t, at[t])]
          /\ \/ /\ at[t] < MaxConnNum
                /\ at' = [at EXCEPT ![t] = @ + 1]
                /\ UNCHANGED pc
             \/ /\ at[t] = MaxConnNum
                /\ Goto(t, IF pos'[t] = NoSlot THEN "refused" ELSE "enter")
                /\ UNCHANGED at
    /\ UNCHANGED <<tableVars, link_fd, peer_ip, bufleft, done, cancelVars,
                   netVars, timerVars, fate>>

\* Locks the slot found free and stores the descriptor, without looking again.
EnterFd(t) ==
    /\ pc[t] = "enter"
    /\ Unlocked(pos[t])
    /\ mutex' = [mutex EXCEPT ![pos[t]] = t]
    /\ socket_fd' = [socket_fd EXCEPT ![pos[t]] = link_fd[t]]
    /\ Goto(t, "entered")
    /\ UNCHANGED <<ipaddr, ctrl_tid, notinformcnt, unhandled_buf, localVars,
                   cancelVars, netVars, timerVars, fate>>

\* Stores the address and the thread and unlocks.  Neither notinformcnt nor
\* unhandled_buf is touched.
EnterRest(t) ==
    /\ pc[t] = "entered"
    /\ ipaddr' = [ipaddr EXCEPT ![pos[t]] = peer_ip[t]]
    /\ ctrl_tid' = [ctrl_tid EXCEPT ![pos[t]] = t]
    /\ mutex' = [mutex EXCEPT ![pos[t]] = NoTid]
    /\ Goto(t, "lookup")
    /\ UNCHANGED <<socket_fd, notinformcnt, unhandled_buf, localVars,
                   cancelVars, netVars, timerVars, fate>>

\* Check-in failed: Link_Ctrl closes the socket and returns.
Refuse(t) ==
    /\ pc[t] = "refused"
    /\ fd_owner' = [fd_owner EXCEPT ![link_fd[t]] = NoTid]
    /\ EndThread(t)
    /\ UNCHANGED <<tableVars, timerVars, fate>>

-----------------------------------------------------------------------------
(* RecvOneFrame *)

\* Finds the link's slot and takes the frames left over in it.
Lookup(t) ==
    /\ pc[t] = "lookup"
    /\ \/ \E s \in Slots :
             /\ HoldsFd(s, link_fd[t])
             /\ Unlocked(s)
             /\ at' = [at EXCEPT ![t] = s]
             /\ bufleft' = [bufleft EXCEPT ![t] = unhandled_buf[s]]
             /\ unhandled_buf' = [unhandled_buf EXCEPT ![s] = << >>]
             /\ Goto(t, IF unhandled_buf[s] = << >> THEN "recv" ELSE "store")
       \/ /\ NotInTable(link_fd[t])
          /\ Goto(t, "cleanup")
          /\ UNCHANGED <<at, bufleft, unhandled_buf>>
    /\ UNCHANGED <<socket_fd, ipaddr, ctrl_tid, notinformcnt, mutex, link_fd,
                   peer_ip, pos, done, cancelVars, netVars, timerVars, fate>>

\* recv() returns k of the frames in the socket.
Recv(t, k) ==
    /\ pc[t] = "recv" /\ ~cancelled[t]
    /\ taken[t] + k <= sent[t]
    /\ bufleft' = [bufleft EXCEPT ![t] = [j \in 1..k |-> <<t, taken[t] + j>>]]
    /\ taken' = [taken EXCEPT ![t] = @ + k]
    /\ Goto(t, "store")
    /\ UNCHANGED <<tableVars, link_fd, peer_ip, pos, at, done, cancelVars,
                   fd_owner, peer_open, sent, timerVars, fate>>

\* recv() returns 0, or -1 for a connection the client has reset, whatever it
\* had sent; or a single byte of a frame, on which RecvOneFrame returns 0 (see
\* FrameBuffer): the link ends.
RecvEnd(t) ==
    /\ pc[t] = "recv" /\ ~cancelled[t]
    /\ ~peer_open[t] \/ taken[t] < sent[t]
    /\ Goto(t, "cleanup")
    /\ UNCHANGED <<tableVars, localVars, cancelVars, netVars, timerVars, fate>>

\* Copies what follows the first frame back, through the slot pointer found
\* before recv().
Store(t) ==
    /\ pc[t] = "store"
    /\ Unlocked(at[t])
    /\ unhandled_buf' = [unhandled_buf EXCEPT ![at[t]] = LeftOver(bufleft[t])]
    /\ bufleft' = [bufleft EXCEPT ![t] = <<Head(bufleft[t])>>]
    /\ done' = [done EXCEPT ![t] = IF Head(bufleft[t])[1] = t
                                     THEN Head(bufleft[t])[2] ELSE @]
    /\ Goto(t, "dispatch")
    /\ UNCHANGED <<socket_fd, ipaddr, ctrl_tid, notinformcnt, mutex, link_fd,
                   peer_ip, pos, at, cancelVars, netVars, timerVars, fate>>

-----------------------------------------------------------------------------
(* Link_Ctrl's dispatch and the handlers.  What a frame asks for is any of the
   message types: a handshake, a command, or a type nothing answers. *)

\* HandShakeCmd looks its slot up again; no slot, no answer.
DispatchHandShake(t) ==
    /\ pc[t] = "dispatch"
    /\ bufleft' = [bufleft EXCEPT ![t] = << >>]
    /\ \/ \E s \in Slots :
             /\ HoldsFd(s, link_fd[t])
             /\ at' = [at EXCEPT ![t] = s]
             /\ Goto(t, "reset")
       \/ /\ NotInTable(link_fd[t])
          /\ Goto(t, "lookup")
          /\ UNCHANGED at
    /\ UNCHANGED <<tableVars, link_fd, peer_ip, pos, done, cancelVars, netVars,
                   timerVars, fate>>

\* A command starts, or a frame of a type without a handler is dropped.
DispatchOther(t) ==
    /\ pc[t] = "dispatch"
    /\ bufleft' = [bufleft EXCEPT ![t] = << >>]
    /\ \E there \in {"work", "lookup"} : Goto(t, there)
    /\ UNCHANGED <<tableVars, link_fd, peer_ip, pos, at, done, cancelVars,
                   netVars, timerVars, fate>>

HandShakeReset(t) ==
    /\ pc[t] = "reset"
    /\ Unlocked(at[t])
    /\ notinformcnt' = [notinformcnt EXCEPT ![at[t]] = 0]
    /\ Goto(t, "reply")
    /\ UNCHANGED <<socket_fd, ipaddr, ctrl_tid, unhandled_buf, mutex,
                   localVars, cancelVars, netVars, timerVars, fate>>

\* The command's own work ends (CallShell's waitpid, the engine's answer).
WorkDone(t) ==
    /\ pc[t] = "work" /\ ~cancelled[t]
    /\ Goto(t, "reply")
    /\ UNCHANGED <<tableVars, localVars, cancelVars, netVars, timerVars, fate>>

\* my_send: an error is reported and the loop goes on.
Reply(t) ==
    /\ pc[t] = "reply" /\ ~cancelled[t]
    /\ Goto(t, "lookup")
    /\ UNCHANGED <<tableVars, localVars, cancelVars, netVars, timerVars, fate>>

\* send() without MSG_NOSIGNAL to a peer that is gone, SIGPIPE at its default.
ReplyBroken(t) ==
    /\ pc[t] = "reply" /\ ~cancelled[t] /\ ~peer_open[t]
    /\ fate' = "sigpipe"
    /\ UNCHANGED <<tableVars, pc, localVars, cancelVars, netVars, timerVars>>

-----------------------------------------------------------------------------
(* Link_Ctrl_Cleanup, run by the unwinding of a cancelled thread or, after
   pthread_cleanup_pop(1) has unregistered it, as a plain call. *)

Unwind(t) ==
    /\ cancelled[t] /\ AtCancellationPoint(t)
    /\ unwinding' = [unwinding EXCEPT ![t] = TRUE]
    /\ bufleft' = [bufleft EXCEPT ![t] = << >>]
    /\ Goto(t, "cleanup")
    /\ UNCHANGED <<tableVars, link_fd, peer_ip, pos, at, done, cancelled,
                   netVars, timerVars, fate>>

\* The TRACE at the top of the plain call is a cancellation point and no
\* handler is registered any more: the thread ends with nothing undone.
CancelledInCleanup(t) ==
    /\ PrintfCancels
    /\ pc[t] = "cleanup" /\ cancelled[t] /\ ~unwinding[t]
    /\ EndThread(t)
    /\ UNCHANGED <<tableVars, fd_owner, timerVars, fate>>

\* DelFromLinkTbl's unlocked GetCtrlLink.
DelFind(t) ==
    /\ pc[t] = "cleanup"
    /\ \/ \E s \in Slots :
             /\ HoldsFd(s, link_fd[t])
             /\ at' = [at EXCEPT ![t] = s]
             /\ Goto(t, "delip")
       \/ /\ NotInTable(link_fd[t])
          /\ Goto(t, "close")
          /\ UNCHANGED at
    /\ UNCHANGED <<tableVars, link_fd, peer_ip, pos, bufleft, done, cancelVars,
                   netVars, timerVars, fate>>

\* DelFromLinkTbl locks the slot it found and clears the address first ...
DelIp(t) ==
    /\ pc[t] = "delip"
    /\ Unlocked(at[t])
    /\ mutex' = [mutex EXCEPT ![at[t]] = t]
    /\ ipaddr' = [ipaddr EXCEPT ![at[t]] = NoIp]
    /\ Goto(t, "delrest")
    /\ UNCHANGED <<socket_fd, ctrl_tid, notinformcnt, unhandled_buf, localVars,
                   cancelVars, netVars, timerVars, fate>>

\* ... then the rest, but not unhandled_buf.
DelRest(t) ==
    /\ pc[t] = "delrest"
    /\ socket_fd' = [socket_fd EXCEPT ![at[t]] = NoFd]
    /\ ctrl_tid' = [ctrl_tid EXCEPT ![at[t]] = NoTid]
    /\ notinformcnt' = [notinformcnt EXCEPT ![at[t]] = 0]
    /\ mutex' = [mutex EXCEPT ![at[t]] = NoTid]
    /\ Goto(t, "close")
    /\ UNCHANGED <<ipaddr, unhandled_buf, localVars, cancelVars, netVars,
                   timerVars, fate>>

\* close() is a cancellation point too: in the plain call a pending
\* cancellation ends the thread before the descriptor is closed.
Close(t) ==
    /\ pc[t] = "close"
    /\ \/ /\ cancelled[t] /\ ~unwinding[t]
          /\ UNCHANGED fd_owner
       \/ /\ ~cancelled[t] \/ unwinding[t]
          /\ fd_owner' = [fd_owner EXCEPT ![link_fd[t]] = NoTid]
    /\ EndThread(t)
    /\ UNCHANGED <<tableVars, timerVars, fate>>

-----------------------------------------------------------------------------
(* Timer_Thread *)

NextSlot ==
    \/ ti < MaxConnNum /\ ti' = ti + 1 /\ tpc' = "check"
    \/ ti = MaxConnNum /\ tpc' = "sleep" /\ UNCHANGED ti

\* The unlocked test of socket_fd.
TimerCheck ==
    /\ tpc = "check"
    /\ \/ socket_fd[ti] = NoFd /\ NextSlot
       \/ socket_fd[ti] # NoFd /\ tpc' = "lock" /\ UNCHANGED ti
    /\ UNCHANGED <<tableVars, pc, localVars, cancelVars, netVars, fate>>

\* The locked count.  The counter saturates one past the limit, where no
\* further tick makes a difference.  pthread_cancel of thread 0 dereferences
\* address 0.
TimerTick ==
    /\ tpc = "lock"
    /\ Unlocked(ti)
    /\ LET due == notinformcnt[ti] + 1 > MaxNotInform
           tid == ctrl_tid[ti]
       IN  /\ notinformcnt' = [notinformcnt EXCEPT ![ti] =
                                 IF due THEN MaxNotInform + 1 ELSE @ + 1]
           /\ \/ /\ ~due
                 /\ NextSlot
                 /\ UNCHANGED <<cancelled, fate>>
              \/ /\ due /\ tid # NoTid
                 /\ cancelled' = [cancelled EXCEPT ![tid] = pc[tid] # "dead"]
                 /\ NextSlot
                 /\ UNCHANGED fate
              \/ /\ due /\ tid = NoTid
                 /\ fate' = "segv"
                 /\ UNCHANGED <<cancelled, timerVars>>
    /\ UNCHANGED <<socket_fd, ipaddr, ctrl_tid, unhandled_buf, mutex, pc,
                   localVars, unwinding, netVars>>

\* sleep(HANDSHAKE_PERIOD) is over.
TimerWake ==
    /\ tpc = "sleep"
    /\ tpc' = "check" /\ ti' = 1
    /\ UNCHANGED <<tableVars, pc, localVars, cancelVars, netVars, fate>>

-----------------------------------------------------------------------------
(* The clients, as far as the server can tell *)

\* A client writes one more frame, once accepted or while in the backlog.
PeerSend(t) ==
    /\ peer_open[t] /\ pc[t] \in CheckingIn \cup Serving
    /\ sent[t] < MaxSend
    /\ sent' = [sent EXCEPT ![t] = @ + 1]
    /\ UNCHANGED <<tableVars, pc, localVars, cancelVars, fd_owner, peer_open,
                   taken, timerVars, fate>>

PeerClose(t) ==
    /\ peer_open[t] /\ pc[t] \in CheckingIn \cup Serving
    /\ peer_open' = [peer_open EXCEPT ![t] = FALSE]
    /\ UNCHANGED <<tableVars, pc, localVars, cancelVars, fd_owner, sent, taken,
                   timerVars, fate>>

-----------------------------------------------------------------------------

\* Steps a link thread takes by itself, without input, answer or send buffer.
LinkOwnStep(t) ==
    /\ fate = "up"
    /\ \/ ScanSlot(t) \/ EnterFd(t) \/ EnterRest(t) \/ Refuse(t)
       \/ Lookup(t) \/ Store(t) \/ DispatchHandShake(t) \/ DispatchOther(t)
       \/ HandShakeReset(t) \/ Unwind(t) \/ CancelledInCleanup(t)
       \/ DelFind(t) \/ DelIp(t) \/ DelRest(t) \/ Close(t)

\* Steps that wait for the client or for the command.
LinkWaitingStep(t) ==
    /\ fate = "up"
    /\ \/ \E k \in 1..MaxSend : Recv(t, k)
       \/ RecvEnd(t) \/ WorkDone(t) \/ Reply(t) \/ ReplyBroken(t)

Link(t) == LinkOwnStep(t) \/ LinkWaitingStep(t)

Timer ==
    /\ fate = "up"
    /\ TimerCheck \/ TimerTick \/ TimerWake

Peer(t) ==
    /\ fate = "up"
    /\ PeerSend(t) \/ PeerClose(t)

Server ==
    /\ fate = "up"
    /\ \/ \E t \in Threads, f \in Fds, ip \in Ips : Accept(t, f, ip)
       \/ AcceptFails

Next ==
    \/ Server
    \/ \E t \in Threads : Link(t) \/ Peer(t)
    \/ Timer

Spec == Init /\ [][Next]_vars

\* The scheduler runs every thread that can run: a link thread between its
\* waits, and the timer.  No fairness for clients, commands or send buffers.
FairSpec ==
    /\ Spec
    /\ \A t \in Threads : WF_vars(LinkOwnStep(t))
    /\ WF_vars(Timer)

-----------------------------------------------------------------------------
(* Properties of every environment *)

\* The timer never passes thread 0 to pthread_cancel (NetServer.c:77-80): a
\* slot whose count runs out always names a thread, although the test of
\* socket_fd and the count are not one critical section, DelFromLinkTbl may
\* fall between them, and SysCheckInCmd does not reset the count.
NoWildCancel == fate # "segv"

\* A descriptor in the table is open, stands in one slot only, and belongs to
\* the thread the slot names once the slot is unlocked.  So a descriptor
\* number the kernel hands out again is never mistaken for an old link by
\* GetCtrlLink, and pthread_cancel hits the link whose count ran out.
TableSound ==
    \A s \in Slots : socket_fd[s] # NoFd =>
        /\ fd_owner[socket_fd[s]] # NoTid
        /\ Unlocked(s) => ctrl_tid[s] = fd_owner[socket_fd[s]]
        /\ \A r \in Slots : socket_fd[r] = socket_fd[s] => r = s

-----------------------------------------------------------------------------
(* The inductive invariant behind NoWildCancel and TableSound *)

\* Where a thread may stand while its descriptor is in the table.
Registered == {"entered"} \cup Serving \cup {"cleanup", "delip", "delrest"}

\* A thread knows its descriptor, its slot and what it has locked.
ThreadsInv ==
    \A t \in Threads :
        /\ pc[t] \notin {"none", "dead"} =>
               link_fd[t] # NoFd /\ fd_owner[link_fd[t]] = t
        /\ pc[t] \in {"enter"} \cup Registered => pos[t] # NoSlot
        /\ pc[t] = "entered" =>
               mutex[pos[t]] = t /\ socket_fd[pos[t]] = link_fd[t]
        /\ pc[t] \in {"delip", "delrest"} => at[t] = pos[t]
        /\ pc[t] = "delrest" => mutex[at[t]] = t
        /\ pc[t] = "store" => bufleft[t] # << >>

\* A descriptor in the table belongs to a thread that registered it there, or
\* that died before it could take it out.
OwnersInv ==
    \A s \in Slots : socket_fd[s] # NoFd =>
        LET u == fd_owner[socket_fd[s]]
        IN  /\ u # NoTid
            /\ pc[u] \in Registered \cup {"dead"}
            /\ pc[u] # "dead" => pos[u] = s /\ link_fd[u] = socket_fd[s]

\* A free slot names no thread and has at most the one tick of a timer that
\* saw it in use; the timer never stands at the lock of a free slot that
\* already has it.
FreeSlotsInv ==
    \A s \in Slots : socket_fd[s] = NoFd =>
        /\ ctrl_tid[s] = NoTid
        /\ notinformcnt[s] <= 1
        /\ tpc = "lock" /\ ti = s => notinformcnt[s] = 0

\* Inductive: every step of the server preserves the conjunction.
IndInv ==
    /\ TypeOK
    /\ ThreadsInv
    /\ OwnersInv
    /\ FreeSlotsInv
    /\ TableSound
    /\ NoWildCancel

-----------------------------------------------------------------------------
(* Properties of an environment with SerialArrivals *)

\* SysCheckInCmd's repeated link (SysCheckInCmd.c:47-54): no address is
\* registered in two slots.
OneLinkPerAddress ==
    \A r, s \in Slots : ipaddr[r] # NoIp /\ ipaddr[r] = ipaddr[s] => r = s

\* A link that is being served stays in the slot it entered, so its silence
\* is counted, its handshakes reset its own count and nobody else's.
ServedIsRegistered ==
    \A t \in Threads : pc[t] \in Serving =>
        /\ socket_fd[pos[t]] = link_fd[t]
        /\ ctrl_tid[pos[t]] = t
        /\ pc[t] \in {"store", "reset"} => at[t] = pos[t]

\* RecvOneFrame's hand-over of left-over frames through the slot keeps each
\* connection's frames in order, without loss or duplication: what waits in the
\* buffer is what was taken from the socket and not yet handled, oldest first;
\* or nothing is, and what waits was left there by an earlier link.
FramesInOrder ==
    \A t \in Threads : pc[t] \in Serving =>
        LET waiting == IF pc[t] = "store" THEN bufleft[t]
                                          ELSE unhandled_buf[pos[t]]
        IN  /\ done[t] <= taken[t]
            /\ \/ waiting = [j \in 1..(taken[t] - done[t]) |-> <<t, done[t] + j>>]
               \/ /\ done[t] = taken[t]
                  /\ \A j \in DOMAIN waiting : waiting[j][1] # t

\* The registered links, as the promise of the table to its users.
Links == {<<ctrl_tid[s], ipaddr[s]>> : s \in {r \in Slots : ipaddr[r] # NoIp}}

Registry == INSTANCE LinkRegistry WITH links <- Links

\* The table implements the registry: a step registers one link whose address
\* is new, or removes one, or changes no registration.
ImplementsRegistry == Registry!Spec

\* Silence is noticed (Protocol.h:17-19): every link that checks in ends and
\* its slot is free again, even if its command never ends or its client never
\* reads the answer.  Clients send MaxSend frames, so all fall silent.
SilentLinksEnd ==
    \A t \in Threads :
        (pc[t] \in Serving) ~> (fate # "up" \/ (pc[t] = "dead" /\
                                 \A s \in Slots : ctrl_tid[s] # t))

-----------------------------------------------------------------------------
(* What the sources say and the code does not do *)

\* A link is handed frames of its own client only.
OwnFramesOnly ==
    \A t \in Threads : pc[t] = "dispatch" => Head(bufleft[t])[1] = t
=============================================================================
