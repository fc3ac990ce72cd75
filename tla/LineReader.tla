----------------------------- MODULE LineReader -----------------------------
(***************************************************************************)
(* src/src/http/line_reader.cpp: a buffer over a byte stream, with the     *)
(* offset of what was consumed (begin_), the offset a search resumes from  *)
(* (scanned_) and a compaction that shifts both.  One action per member    *)
(* function; the views they return are the bytes they view.                *)
(***************************************************************************)
EXTENDS Integers, Sequences

CONSTANTS
    Chunks,    \* what one append may bring
    Counts,    \* how much one take or discard may ask for
    MaxLine,   \* max_line_length
    MaxTotal   \* bound for TLC: bytes appended in all

Bytes == {"CR", "LF", "x"}

ASSUME LineReaderAssumption ==
    /\ Chunks \subseteq Seq(Bytes)
    /\ Counts \subseteq Nat
    /\ MaxLine \in Nat
    /\ MaxTotal \in Nat

VARIABLES
    buffer,   \* buffer_
    begin,    \* begin_
    scanned,  \* scanned_
    result,   \* what the last call returned
    total     \* bytes appended so far

vars == <<buffer, begin, scanned, result, total>>

Size == Len(buffer)

Init ==
    /\ buffer = <<>>
    /\ begin = 0
    /\ scanned = 0
    /\ result = [kind |-> "none"]
    /\ total = 0

-----------------------------------------------------------------------------
Compacts == begin > 0 /\ begin * 2 >= Size

\* Mutant: scanned_ is not shifted with the compacted prefix.
AppendLeavingScanned(bytes) ==
    /\ total + Len(bytes) <= MaxTotal
    /\ total' = total + Len(bytes)
    /\ IF Compacts
       THEN /\ buffer' = SubSeq(buffer, begin + 1, Size) \o bytes
            /\ begin' = 0
       ELSE /\ buffer' = buffer \o bytes
            /\ UNCHANGED begin
    /\ result' = [kind |-> "none"]
    /\ UNCHANGED scanned

AppendBytes(bytes) ==
    /\ total + Len(bytes) <= MaxTotal
    /\ total' = total + Len(bytes)
    /\ IF Compacts
       THEN /\ buffer' = SubSeq(buffer, begin + 1, Size) \o bytes
            /\ scanned' = scanned - begin
            /\ begin' = 0
       ELSE /\ buffer' = buffer \o bytes
            /\ UNCHANGED <<begin, scanned>>
    /\ result' = [kind |-> "none"]

\* The offsets at which a CRLF begins, from an offset on.
CrlfsFrom(from) ==
    {p \in from..(Size - 2) : buffer[p + 1] = "CR" /\ buffer[p + 2] = "LF"}

\* buffer_.find(crlf, scanned_)
IsCrlfPos(p) == p \in CrlfsFrom(scanned) /\ \A q \in CrlfsFrom(scanned) : p <= q

\* Mutant: the search resumes at the end, past half a terminator.
NoLookback == 0

Lookback == 1

NoTerminator ==
    /\ CrlfsFrom(scanned) = {}
    /\ IF Size - begin > MaxLine
       THEN result' = [kind |-> "too long"] /\ UNCHANGED scanned
       ELSE /\ result' = [kind |-> "nothing yet"]
            /\ scanned' = IF Size < begin + Lookback THEN begin ELSE Size - Lookback
    /\ UNCHANGED <<buffer, begin, total>>

Terminated ==
    /\ \E p \in CrlfsFrom(scanned) :
        /\ IsCrlfPos(p)
        /\ IF p - begin > MaxLine
           THEN result' = [kind |-> "too long"] /\ UNCHANGED <<begin, scanned>>
           ELSE /\ result' = [kind |-> "line", bytes |-> SubSeq(buffer, begin + 1, p)]
                /\ begin' = p + 2
                /\ scanned' = p + 2
    /\ UNCHANGED <<buffer, total>>

NextLine == NoTerminator \/ Terminated

Take(n) ==
    /\ IF Size - begin < n
       THEN result' = [kind |-> "nothing yet"] /\ UNCHANGED <<begin, scanned>>
       ELSE /\ result' = [kind |-> "taken", bytes |-> SubSeq(buffer, begin + 1, begin + n)]
            /\ begin' = begin + n
            /\ scanned' = begin + n
    /\ UNCHANGED <<buffer, total>>

\* Mutant: as many bytes as asked for, buffered or not.
DiscardUnbounded(n) ==
    /\ result' = [kind |-> "dropped", count |-> n]
    /\ begin' = begin + n
    /\ scanned' = begin + n
    /\ UNCHANGED <<buffer, total>>

Discard(n) ==
    LET dropped == IF n <= Size - begin THEN n ELSE Size - begin
    IN /\ result' = [kind |-> "dropped", count |-> dropped]
       /\ begin' = begin + dropped
       /\ scanned' = begin + dropped
       /\ UNCHANGED <<buffer, total>>

Next ==
    \/ \E bytes \in Chunks : AppendBytes(bytes)
    \/ NextLine
    \/ \E n \in Counts : Take(n) \/ Discard(n)

Spec == Init /\ [][Next]_vars

-----------------------------------------------------------------------------
Results ==
    [kind : {"none", "nothing yet", "too long"}]
        \cup [kind : {"line", "taken"}, bytes : Seq(Bytes)]
        \cup [kind : {"dropped"}, count : Nat]

TypeOK ==
    /\ buffer \in Seq(Bytes)
    /\ begin \in 0..Size
    /\ scanned \in Nat
    /\ result \in Results
    /\ total \in 0..MaxTotal

(***************************************************************************)
(* The comment at line_reader.hpp:50-51 as an invariant: the resume point  *)
(* is inside the unread bytes (so compaction cannot wrap it below zero)    *)
(* and no terminator begins between begin_ and it (so none is skipped,     *)
(* a CR at the end of one append and its LF in the next included).         *)
(***************************************************************************)
NoTerminatorBeforeScanned ==
    /\ scanned \in begin..Size
    /\ \A p \in begin..(scanned - 1) :
          ~(p + 2 <= Size /\ buffer[p + 1] = "CR" /\ buffer[p + 2] = "LF")

Abstract == INSTANCE ByteStream WITH
    unread <- SubSeq(buffer, begin + 1, Size),
    answer <- result

(***************************************************************************)
(* Buffer, offsets and compaction implement the plain byte stream: every   *)
(* call returns what it would return on the unread bytes alone, whatever   *)
(* appends, takes, discards and half-read lines came before it.            *)
(***************************************************************************)
ImplementsByteStream == Abstract!BSpec
=============================================================================
