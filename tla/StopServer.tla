----------------------------- MODULE StopServer -----------------------------
(***************************************************************************)
(* The TERM signal: catch_term_sig runs StopNetServer on top of a link     *)
(* server at work (Main.c, NetServer.c, CtrlLinkTbl.c).                    *)
(*                                                                         *)
(* The handler interrupts the accepting thread, which is main, and accepts *)
(* nothing while it runs; accept() is restarted after it, so the server    *)
(* goes on.  StopNetServer takes no mutex: every read of ctrl_tid is a     *)
(* step of its own.  A pthread_cancel or pthread_join of thread 0          *)
(* dereferences address 0.  Join_Thread polls a table nothing is ever      *)
(* added to, so all there is of it is when it ends.                        *)
(***************************************************************************)
EXTENDS LinkServer

VARIABLES
    \* StopNetServer: where it stands, its slot, the thread it joins
    hpc, hi, htid,
    \* GlobalState: which of its two threads run, stop_join_thread
    helpers, stop_join_thread,
    \* the threads the table named when the signal came (history)
    named

stopVars == <<hpc, hi, htid, helpers, stop_join_thread, named>>
allVars == <<vars, stopVars>>

Loop == {"test", "cancel", "join", "wait"}
Ending == {"timer", "jointimer", "jointhread", "deinit"}
Handling == Loop \cup Ending

StopTypeOK ==
    /\ hpc \in Handling \cup {"off", "over"}
    /\ hi \in Slots
    /\ htid \in Threads \cup {NoTid}
    /\ helpers \subseteq {"timer", "join"}
    /\ stop_join_thread \in BOOLEAN
    /\ named \subseteq Threads
    /\ hpc = "wait" => htid # NoTid
    /\ TypeOK

StopInit ==
    /\ Init
    /\ hpc = "off" /\ hi = 1 /\ htid = NoTid
    /\ helpers = {"timer", "join"} /\ stop_join_thread = FALSE
    /\ named = {}

-----------------------------------------------------------------------------
(* Slips the properties are there to catch *)

SkipsLast(there, again) ==
    \/ hi + 1 < MaxConnNum /\ hi' = hi + 1 /\ hpc' = again
    \/ hi + 1 >= MaxConnNum /\ hi' = 1 /\ hpc' = there
Overruns(there, again) ==
    \/ hi <= MaxConnNum /\ hi' = hi + 1 /\ hpc' = again
    \/ hi > MaxConnNum /\ hi' = 1 /\ hpc' = there
FlagForgotten ==
    /\ hpc = "jointimer" /\ "timer" \notin helpers
    /\ hpc' = "jointhread"
    /\ UNCHANGED <<vars, hi, htid, helpers, stop_join_thread, named>>

-----------------------------------------------------------------------------
(* StopNetServer *)

\* The next slot, or what follows the loop.
NextOr(there, again) ==
    \/ hi < MaxConnNum /\ hi' = hi + 1 /\ hpc' = again
    \/ hi = MaxConnNum /\ hi' = 1 /\ hpc' = there

catch_term_sig ==
    /\ hpc = "off"
    /\ hpc' = "test"
    /\ named' = {ctrl_tid[s] : s \in Slots} \ {NoTid}
    /\ UNCHANGED <<vars, hi, htid, helpers, stop_join_thread>>

TestTid ==
    /\ hpc = "test"
    /\ \/ ctrl_tid[hi] = NoTid /\ NextOr("timer", "test")
       \/ ctrl_tid[hi] # NoTid /\ hpc' = "cancel" /\ UNCHANGED hi
    /\ UNCHANGED <<vars, htid, helpers, stop_join_thread, named>>

\* pthread_cancel (pcld->ctrl_tid), the field being read again.
CancelTid ==
    /\ hpc = "cancel"
    /\ LET tid == ctrl_tid[hi]
       IN  \/ /\ tid # NoTid
              /\ cancelled' = [cancelled EXCEPT ![tid] = pc[tid] # "dead"]
              /\ hpc' = "join"
              /\ UNCHANGED fate
           \/ /\ tid = NoTid
              /\ fate' = "segv"
              /\ UNCHANGED <<cancelled, hpc>>
    /\ UNCHANGED <<tableVars, pc, localVars, unwinding, netVars, timerVars>>
    /\ UNCHANGED <<hi, htid, helpers, stop_join_thread, named>>

\* pthread_join (pcld->ctrl_tid, NULL), the field being read once more.
JoinTid ==
    /\ hpc = "join"
    /\ \/ /\ ctrl_tid[hi] # NoTid
          /\ htid' = ctrl_tid[hi]
          /\ hpc' = "wait"
          /\ UNCHANGED fate
       \/ /\ ctrl_tid[hi] = NoTid
          /\ fate' = "segv"
          /\ UNCHANGED <<hpc, htid>>
    /\ UNCHANGED <<tableVars, pc, localVars, cancelVars, netVars, timerVars>>
    /\ UNCHANGED <<hi, helpers, stop_join_thread, named>>

Joined ==
    /\ hpc = "wait" /\ pc[htid] = "dead"
    /\ htid' = NoTid
    /\ NextOr("timer", "test")
    /\ UNCHANGED <<vars, helpers, stop_join_thread, named>>

\* pthread_cancel and pthread_join of the timer.
CancelTimer ==
    /\ hpc = "timer"
    /\ hpc' = "jointimer"
    /\ UNCHANGED <<vars, hi, htid, helpers, stop_join_thread, named>>

\* The timer is gone; stop_join_thread is raised for Join_Thread.
JoinTimer ==
    /\ hpc = "jointimer" /\ "timer" \notin helpers
    /\ hpc' = "jointhread"
    /\ stop_join_thread' = TRUE
    /\ UNCHANGED <<vars, hi, htid, helpers, named>>

JoinJoinThread ==
    /\ hpc = "jointhread" /\ "join" \notin helpers
    /\ stop_join_thread' = FALSE
    /\ hpc' = "deinit"
    /\ UNCHANGED <<vars, hi, htid, helpers, named>>

\* DeinitCtrlLinkTbl clears a slot, its mutex included, whoever uses it.
Deinit ==
    /\ hpc = "deinit"
    /\ socket_fd' = [socket_fd EXCEPT ![hi] = NoFd]
    /\ ipaddr' = [ipaddr EXCEPT ![hi] = NoIp]
    /\ ctrl_tid' = [ctrl_tid EXCEPT ![hi] = NoTid]
    /\ notinformcnt' = [notinformcnt EXCEPT ![hi] = 0]
    /\ unhandled_buf' = [unhandled_buf EXCEPT ![hi] = << >>]
    /\ mutex' = [mutex EXCEPT ![hi] = NoTid]
    /\ NextOr("over", "deinit")
    /\ UNCHANGED <<pc, localVars, cancelVars, netVars, timerVars, fate>>
    /\ UNCHANGED <<htid, helpers, stop_join_thread, named>>

Handler ==
    /\ fate = "up"
    /\ \/ TestTid \/ CancelTid \/ JoinTid \/ Joined
       \/ CancelTimer \/ JoinTimer \/ JoinJoinThread \/ Deinit

-----------------------------------------------------------------------------
(* The threads it stops *)

\* Timer_Thread acts on its cancellation in sleep().
TimerEnds ==
    /\ fate = "up" /\ hpc = "jointimer" /\ tpc = "sleep"
    /\ "timer" \in helpers
    /\ helpers' = helpers \ {"timer"}
    /\ UNCHANGED <<vars, hpc, hi, htid, stop_join_thread, named>>

TimerGoesOn ==
    /\ "timer" \in helpers
    /\ ~(hpc = "jointimer" /\ tpc = "sleep")
    /\ Timer
    /\ UNCHANGED stopVars

\* Join_Thread tests the flag at the top of its loop.
JoinThreadEnds ==
    /\ fate = "up" /\ stop_join_thread /\ "join" \in helpers
    /\ helpers' = helpers \ {"join"}
    /\ UNCHANGED <<vars, hpc, hi, htid, stop_join_thread, named>>

-----------------------------------------------------------------------------

StopNext ==
    \/ fate = "up" /\ catch_term_sig
    \/ Handler
    \/ hpc \notin Handling /\ Server /\ UNCHANGED stopVars
    \/ \E t \in Threads : (Link(t) \/ Peer(t)) /\ UNCHANGED stopVars
    \/ TimerGoesOn \/ TimerEnds \/ JoinThreadEnds

StopSpec == StopInit /\ [][StopNext]_allVars

\* As FairSpec, and main runs the handler it was interrupted by.
FairStopSpec ==
    /\ StopSpec
    /\ \A t \in Threads : WF_allVars(LinkOwnStep(t) /\ UNCHANGED stopVars)
    /\ WF_allVars(TimerGoesOn \/ TimerEnds)
    /\ WF_allVars(Handler)
    /\ WF_allVars(JoinThreadEnds)

-----------------------------------------------------------------------------
(* Properties *)

\* StopNetServer's loop (NetServer.c:311-320) reaches every link the table
\* named when the signal came, although it looks at each slot without its
\* mutex while links leave and enter: once the loop is over such a link has
\* ended, or has left the table by itself and is about to.  With SerialArrivals:
\* two links that check in together may both enter one slot, which then names
\* only one of them.
NamedLinksEnd ==
    hpc \in Ending \cup {"over"} =>
        \A t \in named : pc[t] \in {"close", "dead"}

\* The handler comes to its end, or the process does, whatever clients and
\* commands do (NetServer.c:318, 334, 340): it joins only threads that are
\* cancelled or that the timer, stopped after them, still sees silent.
StopFinishes == hpc \in Handling ~> (hpc = "over" \/ fate # "up")
=============================================================================
