----------------------------- MODULE FrameStream -----------------------------
(***************************************************************************)
(* What Link_Ctrl expects of RecvOneFrame: the frames the client wrote,    *)
(* one per call, in order, and "closed" only after the client has closed   *)
(* and every frame it wrote has been handed over.                          *)
(***************************************************************************)
EXTENDS Integers, Sequences

CONSTANTS FrameLens, MaxFrames

VARIABLES written, open, handed, closed

vars == <<written, open, handed, closed>>

Init ==
    /\ written = << >>
    /\ open = TRUE
    /\ handed = 0
    /\ closed = FALSE

Write ==
    /\ open /\ Len(written) < MaxFrames
    /\ \E len \in FrameLens : written' = Append(written, len)
    /\ UNCHANGED <<open, handed, closed>>

Shut ==
    /\ open' = FALSE
    /\ UNCHANGED <<written, handed, closed>>

Hand ==
    /\ ~closed /\ handed < Len(written)
    /\ handed' = handed + 1
    /\ UNCHANGED <<written, open, closed>>

End ==
    /\ ~open /\ handed = Len(written)
    /\ closed' = TRUE
    /\ UNCHANGED <<written, open, handed>>

Next == Write \/ Shut \/ Hand \/ End

Spec == Init /\ [][Next]_vars
=============================================================================
