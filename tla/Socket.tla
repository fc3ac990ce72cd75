------------------------------- MODULE Socket -------------------------------
(***************************************************************************)
(* Socket::write of src/src/net/socket.cpp: one deadline over as many      *)
(* sends as a response takes, against a client that reads when it likes;   *)
(* and what both directions share, the remainder of a deadline and the     *)
(* timeval of zero.                                                        *)
(*                                                                         *)
(* A response is a sequence of pieces, the parts a send may be cut         *)
(* between.  Time is counted in ticks of a millisecond.                    *)
(***************************************************************************)
EXTENDS Integers, Sequences

CONSTANTS
    SendBuffer,    \* the pieces the kernel holds for a client that reads nothing
    MaxSignals,    \* bound: how often a signal interrupts this thread
    Longest,       \* the longest limit in use, in ticks
    Representable  \* the longest limit that now() + limit can hold

ASSUME SocketAssumption ==
    /\ SendBuffer \in Nat \ {0}
    /\ MaxSignals \in Nat
    /\ Longest \in Nat \ {0}
    /\ Representable \in Nat

VARIABLES
    unsent,     \* bytes: what remains of the response being written
    call,       \* where Socket::write is, or how it returned
    writeLeft,  \* ticks until its deadline
    sendLeft,   \* ticks until the blocked send gives up, or Never
    moved,      \* pieces this send has placed
    in_time,    \* the send under way began before the deadline
    blocked,    \* ticks this write has spent inside send, counted to Longest + 1
    spent,      \* ticks since it began, in send or not, counted to 2 * Longest
    delivered,  \* every piece placed so far, on this connection
    unread,     \* how many of them the client has yet to read
    gone,       \* the kernel has given up on the client
    signals     \* signals so far

timeVars == <<in_time, blocked, spent>>
sendVars == <<unsent, call, writeLeft, sendLeft, moved, timeVars>>
peerVars == <<delivered, unread, gone>>
socketVars == <<sendVars, peerVars, signals>>

SocketInit ==
    /\ unsent = <<>>
    /\ call = "none"
    /\ writeLeft = 0
    /\ sendLeft = 0
    /\ moved = 0
    /\ in_time = FALSE
    /\ blocked = 0
    /\ spent = 0
    /\ delivered = <<>>
    /\ unread = 0
    /\ gone = FALSE
    /\ signals = 0

-----------------------------------------------------------------------------
(* Deadlines and timeouts, of both directions.                             *)

Never == -1  \* a timeval of zero: no deadline at all

\* now() + limit, as the ticks that remain.  Past the range of the clock the
\* sum is undefined: it may have come and gone, or be any time off.
Deadline(limit) == IF limit <= Representable THEN {limit} ELSE 0..limit

\* Mutant: what is left is truncated, to zero at the end.
HasTimeLeftAlways(left) == TRUE

\* milliseconds_until: nothing under a tick is worth waiting for.
HasTimeLeft(left) == left > 0

\* Mutant: a tick is added rather than lost in rounding.
TimeoutRoundedUp(limit) == limit + 1

\* set_timeout: a zero timeval means no deadline.
Timeout(limit) == IF limit = 0 THEN Never ELSE limit

\* A tick passes of a deadline or a timeout, or for a clock that counts to cap.
Less(left) == IF left > 0 THEN left - 1 ELSE left
More(clock, cap) == IF clock < cap THEN clock + 1 ELSE clock

-----------------------------------------------------------------------------
(* Socket::write                                                           *)

Write(bytes, limit) ==
    /\ call = "none"
    /\ unsent' = bytes
    /\ writeLeft' \in Deadline(limit)
    /\ call' = "round"
    /\ blocked' = 0
    /\ spent' = 0
    /\ UNCHANGED <<sendLeft, moved, in_time, peerVars, signals>>

\* Mutant: every round is handed the whole limit again.
RoundLimitRenewed == Longest

RoundLimit == writeLeft

\* The head of the loop: done, out of time, or another send under what is left.
\* The thread may wait for a processor between setting the timeout and sending.
Round ==
    /\ call = "round"
    /\ \/ /\ unsent = <<>>
          /\ call' = "written"
          /\ UNCHANGED sendLeft
       \/ /\ unsent # <<>>
          /\ ~HasTimeLeft(writeLeft)
          /\ call' = "failed"
          /\ UNCHANGED sendLeft
       \/ /\ unsent # <<>>
          /\ HasTimeLeft(writeLeft)
          /\ call' = "armed"
          /\ sendLeft' = Timeout(RoundLimit)
    /\ UNCHANGED <<unsent, writeLeft, moved, timeVars, peerVars, signals>>

SendBegins ==
    /\ call = "armed"
    /\ call' = "send"
    /\ in_time' = (writeLeft > 0)
    /\ UNCHANGED <<unsent, writeLeft, sendLeft, moved, blocked, spent, peerVars, signals>>

\* The kernel takes a piece as soon as it has room.
SendMoves ==
    /\ call = "send"
    /\ ~gone
    /\ moved < Len(unsent)
    /\ unread < SendBuffer
    /\ moved' = moved + 1
    /\ delivered' = Append(delivered, unsent[moved + 1])
    /\ unread' = unread + 1
    /\ UNCHANGED <<unsent, call, writeLeft, sendLeft, timeVars, gone, signals>>

\* Mutant: a short send is repeated whole.
RestFromTheStart(n) == IF n = Len(unsent) THEN <<>> ELSE unsent

\* remove_prefix; nothing of it after an EINTR.
Rest(n) == SubSeq(unsent, n + 1, Len(unsent))

SendComesBack ==
    /\ unsent' = Rest(moved)
    /\ call' = "round"
    /\ moved' = 0
    /\ in_time' = FALSE
    /\ UNCHANGED <<writeLeft, sendLeft, blocked, spent, peerVars>>

\* A blocking send comes back with all of it, or short when its own timeout
\* fires after something has moved.
SendReturns ==
    /\ call = "send"
    /\ moved = Len(unsent) \/ (moved > 0 /\ sendLeft = 0)
    /\ SendComesBack
    /\ UNCHANGED signals

\* A signal: a short count if anything has moved, EINTR if not.
SendInterrupted ==
    /\ call = "send"
    /\ moved < Len(unsent)
    /\ signals < MaxSignals
    /\ signals' = signals + 1
    /\ SendComesBack

\* EAGAIN
SendTimesOut ==
    /\ call = "send"
    /\ moved = 0
    /\ sendLeft = 0
    /\ call' = "failed"
    /\ UNCHANGED <<unsent, writeLeft, sendLeft, moved, timeVars, peerVars, signals>>

\* The client is gone, or setsockopt refuses.
SendFails ==
    /\ call = "send" \/ (call = "round" /\ unsent # <<>> /\ HasTimeLeft(writeLeft))
    /\ call' = "failed"
    /\ UNCHANGED <<unsent, writeLeft, sendLeft, moved, timeVars, peerVars, signals>>

SendEnds == SendMoves \/ SendReturns \/ SendTimesOut

Writing == Round \/ SendBegins \/ SendEnds \/ SendInterrupted \/ SendFails

\* write has returned and its result is looked at.
WriteReturns(result) ==
    /\ call = result
    /\ call' = "none"
    /\ unsent' = <<>>
    /\ writeLeft' = 0 /\ sendLeft' = 0 /\ moved' = 0
    /\ in_time' = FALSE /\ blocked' = 0 /\ spent' = 0
    /\ UNCHANGED <<peerVars, signals>>

-----------------------------------------------------------------------------
\* The client takes a piece, whenever it likes.
PeerReads ==
    /\ unread > 0
    /\ unread' = unread - 1
    /\ UNCHANGED <<sendVars, delivered, gone, signals>>

\* A blocked send does not outstay its timeout.
SendMayWait == ~(call = "send" /\ (sendLeft = 0 \/ moved = Len(unsent)))

SocketTick ==
    /\ SendMayWait
    /\ writeLeft' = Less(writeLeft)
    /\ IF call = "send" THEN sendLeft' = Less(sendLeft) /\ blocked' = More(blocked, Longest + 1)
                        ELSE UNCHANGED <<sendLeft, blocked>>
    /\ spent' = IF call \in {"round", "armed", "send"} THEN More(spent, 2 * Longest) ELSE spent
    /\ UNCHANGED <<unsent, call, moved, in_time, peerVars, signals>>

SocketTypeOK ==
    /\ unsent \in Seq({"head", "body"})
    /\ call \in {"none", "round", "armed", "send", "written", "failed"}
    /\ writeLeft \in 0..Longest
    /\ sendLeft \in {Never} \cup 0..Longest
    /\ moved \in 0..Len(unsent)
    /\ in_time \in BOOLEAN
    /\ blocked \in 0..(Longest + 1)
    /\ spent \in 0..(2 * Longest)
    /\ delivered \in Seq({"head", "body"})
    /\ unread \in 0..SendBuffer
    /\ unread <= Len(delivered)
    /\ gone \in BOOLEAN
    /\ signals \in 0..MaxSignals
=============================================================================
