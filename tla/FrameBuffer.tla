----------------------------- MODULE FrameBuffer -----------------------------
(***************************************************************************)
(* RecvOneFrame at the granularity of bytes, for one link: how frames are  *)
(* cut out of what recv() happens to return, and what is kept in the       *)
(* link's unhandled_buf between two calls (RecvOneFrame.c).                *)
(*                                                                         *)
(* A byte is <<n, j>>, the j-th byte of the n-th frame the client wrote.   *)
(* The first two bytes of a frame are its length field.  The field is an   *)
(* unsigned short and MAX_FRAME_LEN its largest value, so the test         *)
(* framelen > MAX_FRAME_LEN can never succeed and is left out.             *)
(***************************************************************************)
EXTENDS Integers, Sequences, SequencesExt

CONSTANTS
    MaxFrameLen,    \* MAX_FRAME_LEN, the size of bufleft and unhandled_buf
    FrameLens,      \* the frame lengths clients use
    MaxFrames,      \* bound: frames a client writes
    SplitsHeader    \* recv() on an empty buffer may return a single byte

LenField == 2

ASSUME FrameAssumption ==
    /\ MaxFrameLen \in Nat
    /\ FrameLens # {} /\ FrameLens \subseteq LenField..MaxFrameLen
    /\ MaxFrames \in Nat
    /\ SplitsHeader \in BOOLEAN

VARIABLES
    \* the client: lengths of the frames written, is it still connected
    frames, open,
    \* bytes on their way to recv()
    socket,
    \* the slot's unhandled_buf
    unhandled,
    \* RecvOneFrame: "idle" between two calls, "recv" and "cut" in its loop,
    \* "closed" once it has returned 0
    pc, bufleft, haslen, framelen,
    \* the frames it has returned (history)
    handed

clientVars == <<frames, open>>
vars == <<clientVars, socket, unhandled, pc, bufleft, haslen, framelen, handed>>

Bytes == (1..MaxFrames) \X (1..MaxFrameLen)

TypeOK ==
    /\ frames \in Seq(FrameLens)
    /\ open \in BOOLEAN
    /\ socket \in Seq(Bytes)
    /\ unhandled \in Seq(Bytes) /\ Len(unhandled) <= MaxFrameLen
    /\ pc \in {"idle", "recv", "cut", "closed"}
    /\ bufleft \in Seq(Bytes) /\ Len(bufleft) <= MaxFrameLen
    /\ haslen \in BOOLEAN
    /\ framelen \in 0..MaxFrameLen
    /\ handed \in Seq(Seq(Bytes))

Init ==
    /\ frames = << >> /\ open = TRUE
    /\ socket = << >>
    /\ unhandled = << >>
    /\ pc = "idle" /\ bufleft = << >> /\ haslen = FALSE /\ framelen = 0
    /\ handed = << >>

-----------------------------------------------------------------------------
(* Slips the properties are there to catch *)

RestDropsByte(buf, len) == SubSeq(buf, len + 2, Len(buf))
CompleteNeedsMore(buf, len) == Len(buf) > len
RoomAsIfEmpty(buf) == MaxFrameLen

-----------------------------------------------------------------------------
(* Helpers *)

FrameBytes(n, len) == [j \in 1..len |-> <<n, j>>]

\* The length read from the start of a buffer: that of the frame that begins
\* there; anything when no frame does.
LengthsAt(buf) ==
    IF buf[1][2] = 1 /\ buf[2] = <<buf[1][1], 2>>
    THEN {frames[buf[1][1]]}
    ELSE 0..MaxFrameLen

LengthKnown(buf) == Len(buf) >= LenField
Complete(buf, len) == Len(buf) >= len
Rest(buf, len) == SubSeq(buf, len + 1, Len(buf))

\* How much recv() is asked for.
Room(buf) == MaxFrameLen - Len(buf)

\* Copies the frame out and what follows it back, and returns the frame's
\* length; Link_Ctrl ends the link when that is 0.
Return(buf, len) ==
    /\ unhandled' = Rest(buf, len)
    /\ \/ /\ len > 0 /\ pc' = "idle"
          /\ handed' = Append(handed, SubSeq(buf, 1, len))
       \/ len = 0 /\ pc' = "closed" /\ UNCHANGED handed
    /\ bufleft' = << >> /\ haslen' = FALSE /\ framelen' = 0

-----------------------------------------------------------------------------
(* RecvOneFrame *)

\* Takes over the left-over bytes; a whole frame among them is returned at once.
Begin ==
    /\ pc = "idle"
    /\ \/ /\ ~LengthKnown(unhandled)
          /\ haslen' = FALSE /\ framelen' = 0
          /\ bufleft' = unhandled /\ unhandled' = << >> /\ pc' = "recv"
          /\ UNCHANGED handed
       \/ /\ LengthKnown(unhandled)
          /\ \E len \in LengthsAt(unhandled) :
                \/ Complete(unhandled, len) /\ Return(unhandled, len)
                \/ /\ ~Complete(unhandled, len)
                   /\ haslen' = TRUE /\ framelen' = len
                   /\ bufleft' = unhandled /\ unhandled' = << >> /\ pc' = "recv"
                   /\ UNCHANGED handed
    /\ UNCHANGED <<clientVars, socket>>

\* recv() appends k bytes to the buffer, as many as it likes.
Recv(k) ==
    /\ pc = "recv"
    /\ k <= Len(socket) /\ k <= Room(bufleft)
    /\ ~SplitsHeader => Len(bufleft) + k >= LenField
    /\ socket' = SubSeq(socket, k + 1, Len(socket))
    /\ bufleft' = bufleft \o SubSeq(socket, 1, k)
    /\ pc' = "cut"
    /\ UNCHANGED <<clientVars, unhandled, haslen, framelen, handed>>

\* Reads the length field if it can, and returns a frame or goes back to recv().
Cut ==
    /\ pc = "cut"
    /\ LET lens == IF haslen \/ ~LengthKnown(bufleft) THEN {framelen}
                   ELSE LengthsAt(bufleft)
       IN  \E len \in lens :
              \/ Complete(bufleft, len) /\ Return(bufleft, len)
              \/ /\ ~Complete(bufleft, len)
                 /\ haslen' = (haslen \/ LengthKnown(bufleft))
                 /\ framelen' = len
                 /\ pc' = "recv"
                 /\ UNCHANGED <<bufleft, unhandled, handed>>
    /\ UNCHANGED <<clientVars, socket>>

\* recv() returns 0: the client has closed, or it was asked for 0 bytes.
RecvZero ==
    /\ pc = "recv"
    /\ (socket = << >> /\ ~open) \/ Room(bufleft) = 0
    /\ pc' = "closed"
    /\ bufleft' = << >> /\ haslen' = FALSE /\ framelen' = 0
    /\ UNCHANGED <<clientVars, socket, unhandled, handed>>

-----------------------------------------------------------------------------
(* The client writes whole frames *)

ClientWrite(len) ==
    /\ open /\ Len(frames) < MaxFrames
    /\ frames' = Append(frames, len)
    /\ socket' = socket \o FrameBytes(Len(frames) + 1, len)
    /\ UNCHANGED <<open, unhandled, pc, bufleft, haslen, framelen, handed>>

ClientClose ==
    /\ open
    /\ open' = FALSE
    /\ UNCHANGED <<frames, socket, unhandled, pc, bufleft, haslen, framelen,
                   handed>>

-----------------------------------------------------------------------------

Receive == Begin \/ (\E k \in 1..MaxFrameLen : Recv(k)) \/ Cut \/ RecvZero

Client == (\E len \in FrameLens : ClientWrite(len)) \/ ClientClose

Next == Receive \/ Client

Spec == Init /\ [][Next]_vars

\* A link thread is scheduled, and what has been written reaches recv().
FairSpec == Spec /\ WF_vars(Receive)

-----------------------------------------------------------------------------
(* Properties *)

Written == FlattenSeq([n \in DOMAIN frames |-> FrameBytes(n, frames[n])])

\* No byte is lost, doubled or overtaken anywhere between the client and the
\* handlers, whatever recv() returns: frames handed over, the buffer, the
\* left-over bytes and the socket make up what was written.
NothingLost ==
    pc # "closed" =>
        FlattenSeq(handed) \o bufleft \o unhandled \o socket = Written

\* Each frame handed over is a whole one, the next the client wrote
\* (RecvOneFrame.c:113-114, 179-180).
WholeFrames ==
    \A n \in DOMAIN handed : handed[n] = FrameBytes(n, frames[n])

\* recv() is never asked for 0 bytes, which would look like a closed
\* connection: the buffer has room for the frame begun in it.
RoomToRecv == pc = "recv" => Len(bufleft) < MaxFrameLen

\* A sequence of bytes that begins with frame n of fr and goes on, byte after
\* byte and frame after frame, to the end of the last one.
FollowsOn(s, n, fr) ==
    /\ IF s = << >> THEN n = Len(fr) + 1
       ELSE s[1] = <<n, 1>> /\ s[Len(s)] = <<Len(fr), fr[Len(fr)]>>
    /\ \A i \in DOMAIN s :
          /\ s[i][1] \in DOMAIN fr /\ s[i][2] \in 1..fr[s[i][1]]
          /\ \A j \in 1..(fr[s[i][1]] - s[i][2]) :
                i + j <= Len(s) /\ s[i + j] = <<s[i][1], s[i][2] + j>>
          /\ s[i][2] = fr[s[i][1]] /\ i < Len(s)
                => s[i + 1] = <<s[i][1] + 1, 1>>

\* What a call of RecvOneFrame knows of the frame begun in its buffer: its
\* length, or that there are too few bytes to tell.
LengthInv ==
    /\ pc = "idle" => bufleft = << >>
    /\ pc \in {"recv", "cut"} =>
          /\ unhandled = << >>
          /\ IF haslen
             THEN LengthKnown(bufleft) /\ framelen = frames[Len(handed) + 1]
             ELSE framelen = 0
    /\ pc = "recv" => IF haslen THEN ~Complete(bufleft, framelen)
                      ELSE ~LengthKnown(bufleft)
    /\ pc = "cut" /\ ~SplitsHeader => LengthKnown(bufleft)

\* The inductive invariant: while a link is served, what is in the buffers and
\* the socket follows on from the frames handed over (RecvOneFrame.c:96-198).
IndInv ==
    /\ TypeOK
    /\ LengthInv
    /\ WholeFrames /\ Len(handed) <= Len(frames)
    /\ pc # "closed" =>
          FollowsOn(bufleft \o unhandled \o socket, Len(handed) + 1, frames)

Stream == INSTANCE FrameStream
              WITH written <- frames, handed <- Len(handed),
                   closed <- pc = "closed"

\* RecvOneFrame implements the stream of frames its caller expects: in
\* particular a link ends only after its client closed and every frame the
\* client wrote has been handed over.
ImplementsStream == Stream!Spec

\* Every frame written is handed over without waiting for a later one.
FramesArrive ==
    \A n \in 1..MaxFrames : (Len(frames) = n) ~> (Len(handed) >= n)
=============================================================================
