----------------------------- MODULE ByteStream -----------------------------
(***************************************************************************)
(* What src/src/http/line_reader.hpp promises of a LineReader, with no     *)
(* buffer, offset or compaction in sight: a stream of bytes of which the   *)
(* unread part is all that matters.  Lines come out whole and in order,    *)
(* counted bytes come out unchanged, however the bytes arrived.            *)
(*                                                                         *)
(* LineReader.tla implements this specification.                           *)
(***************************************************************************)
EXTENDS Naturals, Sequences

CONSTANTS
    Chunks,   \* what one append may bring
    Counts,   \* how much one take or discard may ask for
    MaxLine   \* the longest line, in bytes

VARIABLES
    unread,   \* the bytes no call has consumed
    answer    \* what the last call returned

streamVars == <<unread, answer>>

CR == "CR"
LF == "LF"

Drop(bytes, n) == SubSeq(bytes, n + 1, Len(bytes))

\* The lines that can be read: those whose first CRLF follows n bytes.
EndsAfter(bytes, n) ==
    /\ n + 2 <= Len(bytes)
    /\ bytes[n + 1] = CR
    /\ bytes[n + 2] = LF

FirstEndsAfter(bytes, n) ==
    /\ EndsAfter(bytes, n)
    /\ \A m \in 0..(n - 1) : ~EndsAfter(bytes, m)

BInit ==
    /\ unread = <<>>
    /\ answer = [kind |-> "none"]

Arrive ==
    /\ \E bytes \in Chunks : unread' = unread \o bytes
    /\ answer' = [kind |-> "none"]

ReadLine ==
    \/ \E n \in 0..Len(unread) :
        /\ FirstEndsAfter(unread, n)
        /\ IF n > MaxLine
           THEN answer' = [kind |-> "too long"] /\ UNCHANGED unread
           ELSE /\ answer' = [kind |-> "line", bytes |-> SubSeq(unread, 1, n)]
                /\ unread' = Drop(unread, n + 2)
    \/ /\ \A n \in 0..Len(unread) : ~EndsAfter(unread, n)
       /\ answer' = [kind |-> IF Len(unread) > MaxLine THEN "too long" ELSE "nothing yet"]
       /\ UNCHANGED unread

TakeBytes ==
    \E n \in Counts :
        IF n <= Len(unread)
        THEN /\ answer' = [kind |-> "taken", bytes |-> SubSeq(unread, 1, n)]
             /\ unread' = Drop(unread, n)
        ELSE answer' = [kind |-> "nothing yet"] /\ UNCHANGED unread

DiscardBytes ==
    \E n \in Counts :
        LET dropped == IF n <= Len(unread) THEN n ELSE Len(unread)
        IN /\ answer' = [kind |-> "dropped", count |-> dropped]
           /\ unread' = Drop(unread, dropped)

BNext == Arrive \/ ReadLine \/ TakeBytes \/ DiscardBytes

BSpec == BInit /\ [][BNext]_streamVars
=============================================================================
